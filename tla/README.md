# A TLA+ model of dms-phone-link-validator

The program is one validator of a network that links phone numbers to wallet
addresses.  A client posts a request to one validator, which registers it on the
`PhoneLinkCollection` contract and broadcasts it to its peers.  Every validator
sends its own two-digit code to the phone; the client submits the concatenation of
all codes to one validator, which passes it on to the others; each compares the two
digits at its place and, if they are its own, votes for the request on the contract.
When enough validators have voted, any of them has the votes counted and the link is
made.

This directory holds the specifications of one validator node, of its life as a
process, of the list of its peers and of a network of such nodes, the TLC runs that
check them, and TLAPS proofs of their safety properties.  `PROJECT.json` maps each
definition to the lines it models and lists runs, mutants, findings, hazards and
theorems.  Paths below are relative to `src/src`.

## 1. Inventory

| component | state | operations | hard parts |
|---|---|---|---|
| `storage/Storages.ts` | table `validation`, one row per request: status, code, expiry, step | one SQL statement per method | each statement is atomic, no two of them are |
| `validator/Router.ts`, handlers | none of their own; read `_validators`, `_validatorIndex` | `postRequest`, `postBroadcast`, `postSubmit`, `postBroadcastSubmit`, `processSubmit` | read-check-write over three awaits while the job and other submits run |
| `validator/Router.ts`, job | `_initialized`, `_startTimeStamp`, `_oldTimeStamp`, `_validators`, `_validatorIndex`; the snapshot of unfinished jobs | `onWork`, `makePeers`, `processSendPhone`, `addRequest`, `voteAgreement`, `countVote` | works on a snapshot of the rows; contract errors are swallowed or end the pass; transactions are awaited only until sent; a restart loses everything but the table |
| `validator/Worker.ts` | `state`, `task`, `is_working` | `start`, `stop`, `waitForStop`, `workTask` | ticks that overlap, passes that throw or hang, stop in the middle of a pass |
| `validator/ValidatorNode.ts`, `main.ts` | the HTTP server, the process | `start`, `stop`, SIGINT | signals while loading, binding, stopping |
| `validator/Peers.ts` | `items`: status and endpoint of each peer | `check`, `broadcast`, `broadcastSubmit` | walks over a copy of a list that changes meanwhile; one error or refusal makes a peer INACTIVE; no timeout |
| the network | the rows, walks and peers of every node, calls on their way | the handlers as they are called by peers | each call is made once, and may be refused, lost, answered in vain, or outlive its caller |
| `delegator/CodeGenerator.ts` | the fixed code | `getCode`, `setValue` | the fixed code follows the validator index |
| `delegator/SMSSender.ts` | none | `send` | its result is ignored |
| `PhoneLinkCollection` (dependency) | requests, votes, validators | `addRequest`, `voteRequest`, `canCountVote`, `countVote`, `isAvailable`, `getValidators` | changed by all validators at any time |
| `utils/ContractUtils.ts`, `contract/GasPriceManager.ts`, `common/*`, `metrics/*`, `utils/Utils.ts`, `network/*` | none that control depends on | hashing, signing, gas price, configuration, logging, counters | not modelled |

How they interact.  The process is single-threaded.  `Worker` calls
`Router.onWork()` from a cron task; express calls the handlers; both await SQL
statements, HTTP calls to peers and JSON-RPC calls to the chain, and at each await the
other may run.  They share the table and the Router's fields.  In mode `NoSMSNoCode` a
`setTimeout` writes to the table as a third party.

What makes each component correct:

* handlers and job together: a request is voted for only on its own code presented in
  time; what is finished has been agreed on; a code that was sent stays valid as sent;
  no request is forgotten;
* Worker: passes never overlap, a failed pass is followed by another, a stop waits for
  the pass;
* process: a signal ends it, cleanly if it can; a stop that waits does no harm to the
  request being worked on;
* Peers: the list is that of the registry; a walk never calls what it must not; the
  statuses follow the world in the end;
* network: a link needs the codes of a quorum, and a submit that reaches a quorum makes
  the link.

## 2. Modules

| module | models | about |
|---|---|---|
| `Storage` | `Storages.ts`, enums and row of `types/index.ts` | pure operators on the table, one per SQL statement |
| `PhoneLinkCollection` | the contract, as `Router.ts` uses it | pure operators; external |
| `Router` | `Router.ts`, generators of `CodeGenerator.ts` | state machine: handlers, job, timers, chain, clock, crashes; the properties |
| `RouterInv` | | the inductive invariant of `Router`, in named parts |
| `RouterProofs` | | theorems about `Router` |
| `Worker` | `Worker.ts` | state and methods of the worker |
| `ValidatorNode` | `ValidatorNode.ts`, `main.ts` | state machine of the process; uses `Worker`; the properties and their invariant |
| `ValidatorNodeProofs` | | theorems about `ValidatorNode` |
| `Validator` | `main.ts`, `ValidatorNode.ts`, `Worker.ts`, `Router.ts` | composition: `Router` in the lives that `ValidatorNode` gives it |
| `Request` | | abstract specification: what one node promises about requests |
| `RouterRefinement` | | the mapping under which `Router` implements `Request` |
| `Peers` | `Peers.ts`, `Router.makePeers` | state machine: the list, its statuses, walks and calls; the properties |
| `Network` | `Router.ts`, `Peers.ts` between nodes | state machine of all nodes; the properties and their invariant |
| `Link` | | abstract specification: what all nodes together promise about a request |
| `NetworkRefinement` | | the mappings under which each node of `Network` implements `Request`, and `Network` implements `Link` |
| `StorageProofs`, `RequestProofs`, `RouterRefinementProofs`, `ValidatorProofs`, `PeersProofs`, `NetworkProofs` | | lemmas and theorems about the modules they are named after |
| `MCRouter`, `MCValidatorNode`, `MCValidator`, `MCPeers`, `MCNetwork` | | small constants for TLC |

Definitions headed "Mutant:" are plausible bugs of the definition that follows them.
No specification uses them; each is substituted to see that a property notices.

### Router and the code

An action is a stretch of code between two awaits at which state that others can see
or change is touched.  `work` is the continuation of the running `onWork()`: its
`pc`, the time at which it began, the jobs of its SELECT not yet taken, and the current
job, a *copy* of the row.  `submits[s]` is the continuation of a `processSubmit()` with
the row it has read.  `timers` holds the pending `setTimeout`s.

| `work.pc` | stands before |
|---|---|
| `idle` | the next tick (`WaitForStartup`, `BeginWork`) |
| `init` | `updateEndpoint`, `makePeers`, `peers.check` of the first pass |
| `select`, `loop` | the SELECT; the next iteration of the `for` |
| `addRequest`, `sendPhone`, `updateSendCode`, `markSent` | the cases RECEIVED_REGISTER and RECEIVED_BROADCAST |
| `vote`, `markVoted` | the case RECEIVED_CODE |
| `canCount`, `countVote`, `confirm`, `finish` | the case VOTED |
| `refresh`, `cleanup` | the end of a period: `makePeers` and `peers.check`; the DELETE |

`validation`, `validators`, `validatorIndex`, `initialized`, `startTimeStamp` and
`oldTimeStamp` are the table and the fields of the Router.  `requests` is the contract,
`mempool` the transactions this node has sent.  `presented` and `spent` are history:
the codes that clients brought before they expired, and the ids that are not inserted
again (below).

Abstractions, and why they are sound:

* A code is a number below `CodeSpace`, the empty string is `NoCode`; a submitted
  string is a function from validator indexes to the two digits there.  Codes are only
  compared.
* The jobs of a pass are a set and are taken in any order; the SELECT has no ORDER BY.
* The body, signature and phone checks of the handlers decide whether an action
  happens at all; refusals that change nothing are left out.  `receiveCode` is written
  and never read.
* Between `updateReceiveCode` and `updateProcessStep` nothing is read, so the two
  awaits of an accepted submit are one step apart in the model as well (`accept`).
* Writes that fail (`error` of sqlite) are not modelled; the calls of the chain that
  throw are (`AbortWork`, `SendTransaction`).
* `Crash` keeps the database file and the chain.  (`:memory:`, the path the tests use,
  would lose both rows and hazards.)
* A request is inserted once: `POST /request` draws fresh random ids, and a broadcast
  of an id whose row had its code and has been removed (a day after its expiry) is not
  expected to arrive again.  A row that is removed without a code may be broadcast
  again.
* Two validators at the same index appear in some runs so that one-place strings are
  enough; nothing in this node depends on the index of another.

### Validator

`Router` leaves open when a pass may begin and what a crash is; `ValidatorNode` leaves
open what a pass does.  `Validator` extends the one, instantiates the other and conjoins
their actions: a tick of cron (`CronTick`) begins a pass of `Router`; a pass ends for the
Worker (`PassEnds`) when the job is idle again, which is when the promise of `onWork()`
settles; the handlers run while there is a process, and new calls come over an open
connection; the process may exit by a signal, be killed at any moment, and be started
again, when the Router finds what `Router!Crash` leaves of its memory.  `texts` counts
the codes sent for a request, `kills` the passes that were cut short by a kill or by a
`stop()` that gave up waiting.

### Request and its refinement

`Request` knows no passes, snapshots, clock or restarts.  For each request it has the
code that was texted (and whether it is too late for it), the codes that clients
brought in time, the votes sent and delivered, and whether the node is done with it.
`RouterRefinement` reads this off the state of `Router`: the text is the code of the
row, it is late when the row has expired, the ballots are the votes in the mempool, the
closed requests are those in step FINISHED.  `KeepsPromise` is then `Request!Spec`
under this mapping.  A stale submit may reopen a finished row, so `Request` has a step
`Reopen`: the refinement shows that this costs no proof.

### Peers

Peers are objects of a small heap and `items` is the set of those on the list, because
a walk (`check`, `broadcast`, `broadcastSubmit`) goes over a filtered *copy* and may
hold objects that `makePeers()` has removed or moved since.  `walks[Job]` is the walk of
the pass (it makes one at a time), `walks[s]` that of a submit.  A call is made at the
endpoint that the peer has at that moment (`CallPeer`), is answered by whoever listens
there then (`Answer`) or fails (`Failure`), and is noted in the status later (`Settle`),
when the object may have another endpoint or status.  The contract's registry and the
hosts change at any time (`Register`, `Unregister`, `Host`), the node may restart.
A status written by one walk over that of another is what the properties are about.

### Network

Every node has its table, its ACTIVE peers, the job of a pass that sends a code (the
long one: it broadcasts and texts), and one `postSubmit` under way.  A call is a message
on the `wire`: `Deliver` runs the handler of the callee and returns the answer, which may
be lost; `Lose` loses the call; after a crash of the caller the message stays and nobody
waits for its answer; a crash of the callee fails the calls it has not answered.  The
operators of `Storage` and `PhoneLinkCollection` are those of `Router`.

It is coarser than `Router` inside a node: `processSubmit()` is one step, so are the
vote with its write and the count with its writes; `Router` takes these apart and shows
what their interleavings do.  Indexes do not change, a submitted string gives a code to
every validator, mode is YesSMSUnknownCode, and a node is in step with the registry once
it has read it.  `texted` is the history of all SMS, each with its code and the time at
which that code expires, `presented` that of all codes that clients brought, and when:
a code proves something (`InTime`) if it was brought before the SMS it came with expired.
An SMS belongs to the history even if its node dies before the code is in the table.

### One promise for Router and Network

`NetworkRefinement` maps the state of `Network`, seen by one node, to the same `Request`
that `Router` implements.  `Router` shows that the steps of a node keep the promise when
they are cut at every await, alone with a nondeterministic environment; `Network` shows
that they keep it among other nodes that are nodes themselves, with their calls, refusals,
walks and crashes.  So the two models of a node, one fine and one coarse, are tied by what
they both implement.  A code counts as presented in `Request` when it was brought before
the SMS of *that* code expired; of two codes texted for a request (a crash came between
the first and its write) the row holds the second, and `MappingInv` says why the first
does not matter longer than the second.

`Link` is what is left when tables, calls and clocks are forgotten: for each request who
has got its code back in time, the votes sent and counted, and whether the link is made.
It says that the vote comes after the proof, the link after the votes of a quorum, and
that none of this is undone.

## 3. Properties and runs

| run | instance | properties | states |
|---|---|---|---|
| `race` (`MCRouterRace.cfg`) | one own request, two submits, all one-digit codes, one validator, fixed code, clock 2..4, rows removed on expiry | `CodeProven`, `FinishedMeansAgreed`, `FinishedIsClosed` | 1.5 million |
| `crash` (`MCRouterCrash.cfg`) | one broadcast request, one submit, random codes, two-place strings, a registry in which this node moves and disappears, a second voter, one crash, start-up delay | `TypeOK`, `IndInv`, `CodeStable`, `VoteNeedsCode` | 2.2 million |
| `pair` (`MCRouterPair.cfg`) | an own and a broadcast request, mode `NoSMSNoCode`, fairness | `JobsDrain`, `TimerStandsIn` | 95 000 |
| `live` (`MCRouterLive.cfg`) | one broadcast request, random codes, one submit, two validators, one crash, fairness | `KeepsPromise`, `QuorumLeadsToFinished` | 201 000 |
| `lost` (`MCRouterLost.cfg`) | one own request, one submit, fairness | violates `ReceivedCodeIsVoted` | |
| `unsent` (`MCRouterUnsent.cfg`) | one own request, no submit, fairness | violates `RegisterIsSent` | |
| `life` (`MCValidatorNode.cfg`) | two signals, timeout of two, one connection, fairness | `LifeInv`, `OnePass`, `CleanExit`, `NoPassAfterSIGINT`, `SIGINTEndsProcess`, `PassesGoOn` | 249 |
| `lives` (`MCValidator.cfg`) | two lives of the process, one broadcast request, one submit, one signal, kills | `JobIsPass`, `SecondCodeNeedsKill` | 3.0 million |
| `peers` (`MCPeers.cfg`) | one registered peer and one that may come, one submit, two changes of registry, hosts or node, one failure, fairness | `IndInv`, `ListIsRegistry`, `AbnormalIsKept`, `HealthyPeerReturns`, `SilentPeerIsDropped` | 375 000 |
| `links` (`MCNetworkLinks.cfg`) | two nodes, right and wrong codes that expire, one submit, one crash | `IndInv`, `LinkNeedsCodes`, `MappingInv`, `NodesKeepPromise` | 309 000 |
| `retry` (`MCNetworkRetry.cfg`) | two nodes, two submits, one loss, fairness | `IndInv`, `LinkNeedsCodes`, `NodesKeepPromise`, `GoodSubmitLinks` | 43 000 |
| `third` (`MCNetworkThird.cfg`) | three nodes, two of which are the quorum, one submit, fairness | `NodesEarn`, `NetworkLinks`, `GoodSubmitLinks` | 160 000 |

* `CodeProven`: a row in step RECEIVED_CODE, VOTED or FINISHED has a code that a client
  brought before it expired.  The submit checks a snapshot and writes two awaits
  later; the run lets everything else happen in between.
* `VoteNeedsCode`: the same for the act of sending the vote, which works on a snapshot
  of its own, while the row may be reopened or removed.
* `CodeStable`: a code and its expiry never change while the row is kept.  This is what
  the test of `validationStatus` in `processSendPhone()` is for after a crash.
* `FinishedMeansAgreed`: confirmed or finished here means that a quorum has voted, though
  the counting transaction may be lost.
* `FinishedIsClosed`: the status of a finished row refuses further codes, though stale
  submits write to it after it was finished.
* `JobsDrain`, `TimerStandsIn`, `QuorumLeadsToFinished`: nothing waits for ever, in the
  presence of calls that throw and end the pass of all.
* `KeepsPromise`: whatever the job, the submits, losses and a crash do, the node does no
  more than `Request` allows: it sends one code for a row and votes and closes on its
  proof.
* `SecondCodeNeedsKill`: the SMS is sent before its code is stored, so a process that
  ends in between sends another code later.  That a user is sent two codes is the mark
  of a pass that was cut short; a stop that has waited for the pass never does it.
  `JobIsPass` is what `Router` takes for granted about the Worker.
* `ListIsRegistry`: the handlers ask `_validators`, calls go to `items`; both follow the
  last answer of the registry, one object for each validator, through changes that come
  while walks hold old objects.
* `AbnormalIsKept`: ABNORMAL is left only through a submit that had picked the peer
  before and fails to reach it, which makes it INACTIVE and has it checked again.
* `HealthyPeerReturns`, `SilentPeerIsDropped`: once registry and hosts stay as they are,
  a peer that answers becomes ACTIVE (unless it was once met under another name, which
  only a restart forgives) and one that does not is left out, though walks that began
  before may still write old results.
* `LinkNeedsCodes`: a link means that every member of a quorum sent the phone a code
  which a client brought back before that code expired, over all nodes, crashes and
  losses, and however long a call was on its way.
* `NodesKeepPromise`: what `KeepsPromise` says of one node alone holds of each node among
  the others.  A request that is broadcast to a node which has it, a job that starts
  again after a crash, a submit that arrives late: none makes it send a code for a row
  that has one, vote without proof or forget a request that can be answered.
* `MappingInv`: a request is known only where it was posted or broadcast, and of all the
  codes a node has texted for it none expires after the one in its row.
* `NodesEarn`: what any node has finished is proven there and agreed on by a quorum, though
  the node asks the contract once and a late submit may open its row again.
* `NetworkLinks`: all nodes together implement `Link`.  The run has a node beyond the
  quorum, whose vote may come when the link is made already.
* `GoodSubmitLinks`: a submit that begins at a node whose list, with itself, covers a
  quorum that has the request and knows its codes leads to the link, unless a code
  expires: refusals by others, a second submit under way, votes lost before and rows
  reopened do not stop it.  It is stated from the moment when no more calls or
  transactions are lost, because the code sends each only once, and for rows that the
  job will not send again (after a crash such a row forgets the code it takes, see
  `lost` below).
* `OnePass` is the assumption under which `Router` has one `work`; `life` checks it on
  the Worker and `ValidatorNodeProofs` proves it; `JobIsPass` is its form for the whole
  process.

Bounds.  `MaxClock` stops the clock, `MaxCrashes` bounds crashes, the cardinality of
`Submits` the submits in flight (a slot is used again and again), `MaxConnections` the
connections.  Two submits are what it takes to have a stale one; one crash reaches every
point of a pass and every table it leaves; two places and two indexes make a move of
the registry visible; two requests make one wait for the other.  A period is two
ticks, the life of a code one, so that the clock passes the expiry, the removal and the
end of a period before it stops.  `Retention` is 0 instead of a day in the runs where
rows with a code should be removed during a run; the proofs hold for every value.
`Epoch` exceeds `Retention` as the present exceeds 1970 by more than a day.

In `Validator`, `MaxCrashes` counts the starts of the process: two lives are what a
second code takes.  In `Peers`, `MaxChanges` bounds the changes of the world and
`MaxFailures` the calls that fail where somebody listens: two changes let a peer move
and return, or go and come as a new object, while an old walk still holds it; `Register`
brings the second peer.  In `Network`, `MaxSubmits`, `MaxCrashes` and `MaxFaults` are
shared by all nodes; `links` has the crash and lets the codes expire at any point, with
nodes symmetric, and has one string, since nodes draw either code and so one string is
right at both, at one or at none of them; `retry` has the loss and the second submit, and
a crash and a loss together are left to the proofs; in `retry` and `third` the clock stands still, since an expired code is one of the
outcomes `GoodSubmitLinks` allows.  What small instances of `Peers` and `Network` leave
open for safety, the proofs below settle.

Fairness.  `WF` of the job as a whole: cron calls it every second, and what it awaits
is assumed to settle.  `SF` of the three steps that call the contract and may throw
instead: an RPC endpoint fails, but not for ever.  `WF` of each submit and timer, and of
the clock.  None for clients, other validators, `Mine` or `Drop`: a transaction may
stay in the mempool for ever.  In `ValidatorNode`, `WF` of cron, of the poll of
`waitForStop()`, of time, of the closing of the server, and of connections ending; a
pass is *not* assumed to end, because its HTTP calls have no timeout.

In `Peers`, `SF` of the end of a period, because jobs with broadcasts may come at any
time but the pass ends all of them, and of `makePeers()`, which may throw but not for
ever; `WF` of each walk, whose calls are answered or fail.  In `Network`, `WF` of what a
node does on its own, of every node's incoming calls, which arrive or are lost, and of
the transactions of a request, which are mined or lost; nothing for clients or crashes.
That calls end is an assumption: axios has no timeout, and `life` shows only that a
shutdown survives a call that hangs.

Deadlock is checked in all runs but `life` and `lives`, where the process exits.

### Findings

* `lost`: after the code is stored, `onWork()` writes SENT_SMS unconditionally.  A submit
  accepted in between (status SENT, code right, answered 200) writes RECEIVED_CODE, and
  the job overwrites it: the request waits for a second submit.  `types/index.ts:77`
  says of RECEIVED_CODE `// => VOTE`.  The window is wide after a restart that finds a row
  with its code in step RECEIVED_REGISTER: the registration and the broadcast to every
  peer are awaited in it.
* `unsent`: the DELETE at the end of a period removes rows with `expire + 86400 < now`, and a
  row without a code has `expire = 0`.  A request stored after the SELECT of that pass
  is gone before any pass has seen it, though its client was answered 200 with an id.
  `types/index.ts:74` says of RECEIVED_REGISTER `// => REGISTER`.

## 4. Proofs

For every value of the constants that satisfies the named assumptions
(`StorageAssumption`, `AbsentAssumption`, `ContractAssumption`, `RouterAssumption`;
`WorkerAssumption`, `ValidatorNodeAssumption`), TLAPS checks:

* `RouterProofs`: `TypeCorrect`, `Invariance` (`Spec => []IndInv`), `CodeIsProven`,
  `FinishedIsAgreed`, `FinishedStaysClosed`, `CodeIsStable`, `VotesNeedCodes`;
* `ValidatorNodeProofs`: `LifeInvariance`, `OnePassAtATime`, `ExitsCleanly`,
  `SIGINTStopsPasses`;
* `RouterRefinementProofs`: `RouterKeepsPromise` (`Spec => KeepsPromise`), under
  `AbsentTextAssumption` as well; `RequestProofs`: `ClosedRequestsAreEarned`;
* `ValidatorProofs`: `ProcessInvariance`, `JobIsThePass`, `SecondCodesNeedKills`, under the
  assumptions of `Router`; `ProcessKeepsPromise` (`ProcessSpec => KeepsPromise`), under
  `AbsentTextAssumption` as well;
* `PeersProofs`: `WalksAreSound` (`Spec => []IndInv`), `ListFollowsRegistry`,
  `AbnormalStays`, under `PeersAssumption`;
* `NetworkProofs`: `VotesGoBackToCodes` (`Spec => []IndInv`), `LinksAreProven`,
  `LastTextIsNoted` (`Spec => []MappingInv`), `NodesKeepThePromise`
  (`Spec => NodesKeepPromise`), `NodesHaveEarned` (`Spec => []NodesEarn`) and
  `NetworkKeepsPromise` (`Spec => NetworkLinks`), under
  `StorageAssumption`, `AbsentAssumption`, `ContractAssumption`, `NetworkAssumption`,
  `AbsentCallAssumption` and, for the refinement of `Request`, `AbsentTextAssumption`.

The argument about Router.  None of the properties is inductive: whether a write is
right depends on what its continuation read before its await.  `IndInv` says for each
continuation what is *still* true of what it has read:

* `RowInv`: a row has a code exactly when its status is not NONE;
* `PassInv`, `SnapshotInv`: the current job is in the case its step selects, no two jobs
  of a pass are for one request, and every snapshot is `Current`: its row still exists,
  has a code iff the snapshot has one, and, if the snapshot says RECEIVED_CODE or
  VOTED, its code was presented in time;
* `SubmitInv`: the code of a submit was presented in time or the code has expired by the
  time it is compared; the code it has read is the code of the row for as long as the
  row lives;
* `TimerInv`: a timer exists only in `NoSMSNoCode` and for a request that has its code;
* `AgreementInv`, `ClosingInv`: the contract counts only what a quorum agreed on; the job
  is in its last writes only after the contract has said so.

`TableChange` reduces every step to one of five changes of the table; `Persistence`
shows that none of them takes back a code or its expiry before the row is removed for
good, and `Growth` that the clock, the presented codes and the votes only grow.  With
these, `KnowledgeLasts`: what a continuation has learnt stays true whatever runs during
its await.  Each part of the invariant then follows from the few steps that write what
it is about.  `RemoveExpired` is harmless because the pass that runs it has no jobs
left.

The argument about ValidatorNode.  `is_working` and the count of passes agree; a
Worker that is STOPPING has a pass in flight and one that is STOPPED has none; before
the server listens nothing is scheduled and no stop has been called (so `start()`
cannot reset the lock of a running pass); the server is closed only by a `stop()`
whose wait is over.

The argument about the refinement.  A step of `Router` is a stutter of `Request` unless
it inserts, sends, expires, proves, votes, closes or removes.  What each of these needs
is in `IndInv` of `Router`: the snapshot of `updateSendCode` is of a row that has no code
yet (`SnapshotInv`), the vote and the last write of a job have their proof, the count
the agreement.  `SeenRow` and `Kept` state what a write to the table does to the text of
every request, once for all the actions that make it; a tick of the clock is one `Lapse`
of all codes that expire at that moment; a crash is a stutter.

The argument about Validator.  `RouterStep`: every step of the process is a step of
`Router` or leaves its variables alone, so that `IndInv` of `Router` holds in every life.
`LifeOfPass` is what is needed of
`ValidatorNode`, in every life; `JobInPass` ties the job to the pass of the Worker.
`CodesCounted` then counts: a request has been sent one code more than passes have been
cut short only if that code is known, in the row, in a row that was removed, or in the
job that is about to store it.  A code is drawn for a row that has none (`SnapshotInv`),
and what the job holds is lost only with its pass, which `Kill` and `Closed` then count.
The promise of the Router is, by the same `RouterStep`, that of the process.

The argument about Peers.  A walk holds made objects only, and `Free` keeps new peers off
them; the objects that the walk of the pass holds are not ABNORMAL, because only a check
makes a peer ABNORMAL, only the pass checks, and it has taken that peer off its walk
before.  `AbnormalIsKept` follows: what settles on an ABNORMAL peer is the call of a
submit.

The argument about Network.  `texted` and `presented` only grow, so `Proven` does; each
part of `IndInv` says of one place (row, job, submit, call, vote) that what it holds
goes back to them.  A handler may run long after its caller has died, so `Waiting` ties
the calls that are waited for to the walk of their caller: one call for each walk, which
is what makes a return safe.  `SnapshotHolds` is about the job: it decides to text by a
snapshot taken before it walked to all peers, and the row has still no code when it
does, because only the job writes codes.  That a proof is in time goes through the
comparison in `processSubmit()`: it is made when the call arrives, perhaps long after the
client came, so that what is in time then was in time before (`Brought`).

The argument about its refinements.  `MappingInv` is needed beside `IndInv` for one step:
a client brings a code that was texted in vain, by a job that died, and which has not
expired; `Request` takes it only if the row is not late, and it is not, because the code
of the row expires no earlier (`LastTextNoted`; the clock does not go back, so the later
SMS has the later expiry).  Each action of `Network` has a lemma `KeptBy...` that says how
any node, the one that acts or another, sees it: as one step of `Request` or not at all.
`KeptByRest` covers calls, walks, checks and crashes, which no promise is about.
`NodesHaveEarned` is then a matter of `Request`: one of its steps closes, none takes a
vote back (`AgreedStep`).  `Link`
sees only SMS, submits, votes and the chain: `OneProof` (a text or a submit proves
something for its own request only), `LinkBySend` and `LinkByMining`.

Left to TLC: the liveness properties, which need fairness (`JobsDrain`, `TimerStandsIn`,
`QuorumLeadsToFinished`, `SIGINTEndsProcess`, `PassesGoOn`, `HealthyPeerReturns`,
`SilentPeerIsDropped`, `GoodSubmitLinks`).  Every invariant and every other property of a
passing run is proved.

## 5. Not modelled

* Errors of the database, the content of messages, signatures and hashes
  (`ContractUtils`), the HTTP answers themselves, the phone numbers.  A number that the
  phone library cannot parse is stored as it came, because the 401 that the `catch`
  prepares is not returned (hazard at `Router.ts:324`).
* The gas price, the nonces and the signer of a transaction: an error of any of them is
  an error of the call, which `SendTransaction` has.
* `Config`, `Metrics`, `Logger`: read once at start, or written only.  `Utils` and
  `Amount`: the validator uses `Utils.delay` alone, at start; nothing calls `Amount`.
* The index and version of a peer, which only the log and `GET /peers` show.
* In `Network`: registries that change, start-up delays, several requests or submits of
  one node at once beyond the bounds of the runs.  In `Validator`: peers.

Some behaviours that no property states are recorded as hazards: a vote whose request
is not mined yet reverts and is not repeated; a node finishes its row though its counting
transaction is lost, and if all do, nobody counts; the timers of `NoSMSNoCode` are lost
on a restart; a peer without an endpoint keeps its status; `waitForStop(60000)` counts
seconds.

## 6. Plan

Done: everything above.  What is left: larger instances of
`GoodSubmitLinks` with a crash (it holds for two nodes in 437 000 states) when the runs
may take longer.
