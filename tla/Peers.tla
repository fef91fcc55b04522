------------------------------- MODULE Peers -------------------------------
(***************************************************************************)
(* The peers of one node: the statuses and calls of validator/Peers.ts and *)
(* the list that Router.makePeers() keeps of them.                         *)
(*                                                                         *)
(* check(), broadcast() and broadcastSubmit() walk a copy of the list that *)
(* is filtered once, at their start, and await each call: while one of     *)
(* them waits, the registry may be read again, peers may go, come back as  *)
(* new objects or move, and other walks may change the same statuses.      *)
(* Peers are objects of a heap, because a walk may hold one that the list  *)
(* no longer has.  The pass of the job runs check() and broadcast(), never *)
(* both; each submit in flight runs a broadcastSubmit() of its own.        *)
(***************************************************************************)
EXTENDS Naturals

CONSTANTS
  Validators,       \* every validator that may ever be registered
  Me,               \* the validator of this node
  Endpoints,        \* the places where validators may listen
  NoEndpoint,       \* the empty endpoint
  PeerObjects,      \* the objects of class Peer
  Submits,          \* slots: how many submits may be in flight at once
  Job,              \* the pass of the job, the other one that walks
  Nobody,           \* no object, no call, no server, no answer
  InitialRegistry,  \* the registry when the node starts: validator -> endpoint
  InitialHosts,     \* who listens at each endpoint then
  MaxChanges,       \* bound: changes of registry and hosts, and restarts
  MaxFailures       \* bound: calls that fail or are refused at a listening host

PeerStatus == {"UNKNOWN", "ACTIVE", "INACTIVE", "ABNORMAL"}

Addresses == Endpoints \union {NoEndpoint}

Peer == [nodeId : Validators, endpoint : Addresses, status : PeerStatus]

\* A call of a peer at the url it had, and who has answered by now: Nobody
\* yet, a validator, or "failed" (an error, or an answer with a code # 200).
Calls == [peer : PeerObjects, url : Addresses, answer : Validators \union {Nobody, "failed"}]

\* A walk through a filtered copy of the list.
Walks == [op : {"check", "broadcast"}, todo : SUBSET PeerObjects, call : Calls \union {Nobody}]

Walkers == Submits \union {Job}

\* What getValidators() may answer.
Registry == UNION {[known -> Addresses] : known \in SUBSET Validators}

ASSUME PeersAssumption ==
  /\ Me \in Validators
  /\ NoEndpoint \notin Endpoints
  /\ Job \notin Submits
  /\ InitialRegistry \in Registry
  /\ InitialHosts \in [Endpoints -> Validators \union {Nobody}]
  /\ "failed" \notin Validators \union {Nobody}
  /\ Nobody \notin Validators \union Peer \union Calls \union Walks
  /\ MaxChanges \in Nat
  /\ MaxFailures \in Nat

VARIABLES
  registry,    \* the contract: validator -> endpoint
  hosts,       \* endpoint -> the validator that listens there
  validators,  \* Router._validators
  heap,        \* object -> Peer, or Nobody if it was never made
  items,       \* the objects in Peers.items
  pass,        \* where the pass of the job is
  walks,       \* the walk of the pass, and that of each submit
  changes,     \* number of changes so far
  failures     \* number of failures so far

world == <<registry, hosts, changes>>
list  == <<validators, heap, items>>
vars  == <<world, list, pass, walks, failures>>

-----------------------------------------------------------------------------
Init ==
  /\ registry = InitialRegistry
  /\ hosts = InitialHosts
  /\ validators = [v \in {} |-> NoEndpoint]
  /\ heap = [o \in PeerObjects |-> Nobody]
  /\ items = {}
  /\ pass = "idle"
  /\ walks = [w \in Walkers |-> Nobody]
  /\ changes = 0
  /\ failures = 0

\* The objects that a walk still holds.
HeldBy(w) ==
  IF walks[w] = Nobody THEN {}
  ELSE walks[w].todo \union (IF walks[w].call = Nobody THEN {} ELSE {walks[w].call.peer})

\* A new object takes a place of the heap that nothing refers to.
Free == PeerObjects \ (items \union UNION {HeldBy(w) : w \in Walkers})

newPeer(v, endpoint) == [nodeId |-> v, endpoint |-> endpoint, status |-> "UNKNOWN"]

-----------------------------------------------------------------------------
(* makePeers().                                                            *)

\* The first pass and the end of a period: getValidators() is called.
BeginPeriod ==
  /\ pass = "idle"
  /\ pass' = "makePeers"
  /\ UNCHANGED <<world, list, walks, failures>>

Others == DOMAIN registry \ {Me}
Kept   == {o \in items : heap[o].nodeId \in Others}
Added  == Others \ {heap[o].nodeId : o \in items}

\* Mutant: a peer that has moved is still called where it was.
MovedInPlace(o) == heap[o]

\* A peer that the list has keeps its object and status, even if it has moved.
Moved(o) == [heap[o] EXCEPT !.endpoint = registry[heap[o].nodeId]]

\* The list becomes what the contract answers, without this node itself.
MakePeers ==
  /\ pass = "makePeers"
  /\ pass' = "peers.check"
  /\ validators' = registry
  /\ \E object \in [Added -> Free] :
       /\ \A v, w \in Added : object[v] = object[w] => v = w
       /\ items' = Kept \union {object[v] : v \in Added}
       /\ heap' = [o \in PeerObjects |->
                     IF o \in Kept THEN Moved(o)
                     ELSE IF \E v \in Added : object[v] = o
                     THEN LET v == CHOOSE w \in Added : object[w] = o IN newPeer(v, registry[v])
                     ELSE heap[o]]
  /\ UNCHANGED <<world, walks, failures>>

\* getValidators() throws, and the Worker ends the pass.
AbortPass ==
  /\ pass = "makePeers"
  /\ pass' = "idle"
  /\ UNCHANGED <<world, list, walks, failures>>

-----------------------------------------------------------------------------
(* The walks of class Peers.                                               *)

\* A walk through the peers of the list that have one of these statuses.
Through(op, statuses) ==
  [op |-> op, todo |-> {o \in items : heap[o].status \in statuses}, call |-> Nobody]

\* Mutant: every peer is checked, ABNORMAL or not.
checkAll == Through("check", PeerStatus)

\* Mutant: only the peers that are not known yet are checked.
checkNew == Through("check", {"UNKNOWN"})

\* Mutant: what has been found INACTIVE is not checked again.
checkAnswering == Through("check", {"UNKNOWN", "ACTIVE"})

check == Through("check", PeerStatus \ {"ABNORMAL"})

broadcast == Through("broadcast", {"ACTIVE"})

BeginCheck ==
  /\ pass = "peers.check"
  /\ pass' = "walk"
  /\ walks' = [walks EXCEPT ![Job] = check]
  /\ UNCHANGED <<world, list, failures>>

\* A job in step RECEIVED_REGISTER.
BeginBroadcast ==
  /\ pass = "idle"
  /\ pass' = "walk"
  /\ walks' = [walks EXCEPT ![Job] = broadcast]
  /\ UNCHANGED <<world, list, failures>>

BeginBroadcastSubmit(s) ==
  /\ walks[s] = Nobody
  /\ walks' = [walks EXCEPT ![s] = broadcast]
  /\ UNCHANGED <<world, list, pass, failures>>

\* The next call of a walk, at the endpoint that the peer has by now.  A peer
\* without an endpoint is not checked; it is called by a broadcast, in vain.
CallPeer(w) ==
  /\ walks[w] # Nobody
  /\ walks[w].call = Nobody
  /\ \E o \in walks[w].todo :
       walks' = [walks EXCEPT
         ![w].todo = @ \ {o},
         ![w].call = IF walks[w].op = "check" /\ heap[o].endpoint = NoEndpoint THEN Nobody
                     ELSE [peer |-> o, url |-> heap[o].endpoint, answer |-> Nobody]]
  /\ UNCHANGED <<world, list, pass, failures>>

Waits(w) ==
  /\ walks[w] # Nobody
  /\ walks[w].call # Nobody
  /\ walks[w].call.answer = Nobody

Listens(url) == url \in Endpoints /\ hosts[url] # Nobody

\* The server answers; its answer may still take its time.
Answer(w) ==
  /\ Waits(w)
  /\ Listens(walks[w].call.url)
  /\ walks' = [walks EXCEPT ![w].call.answer = hosts[walks[w].call.url]]
  /\ UNCHANGED <<world, list, pass, failures>>

\* Nobody listens there, or the call is refused or lost.
Failure(w) ==
  /\ Waits(w)
  /\ IF Listens(walks[w].call.url)
     THEN failures < MaxFailures /\ failures' = failures + 1
     ELSE UNCHANGED failures
  /\ walks' = [walks EXCEPT ![w].call.answer = "failed"]
  /\ UNCHANGED <<world, list, pass>>

\* Mutant: every answer tells who has given it.
StatusAfterAny(op, peer, answer) ==
  CASE answer = "failed" -> "INACTIVE"
    [] answer = peer.nodeId -> "ACTIVE"
    [] OTHER -> "ABNORMAL"

\* What an answer makes of the status of a peer, whatever that is by now.
StatusAfter(op, peer, answer) ==
  CASE answer = "failed" -> "INACTIVE"
    [] op = "check" /\ answer = peer.nodeId -> "ACTIVE"
    [] op = "check" /\ answer \notin {peer.nodeId, "failed"} -> "ABNORMAL"
    [] op = "broadcast" /\ answer # "failed" -> peer.status

Settle(w) ==
  /\ walks[w] # Nobody
  /\ walks[w].call # Nobody
  /\ walks[w].call.answer # Nobody
  /\ heap' = [heap EXCEPT ![walks[w].call.peer].status =
                StatusAfter(walks[w].op, heap[walks[w].call.peer], walks[w].call.answer)]
  /\ walks' = [walks EXCEPT ![w].call = Nobody]
  /\ UNCHANGED <<world, validators, items, pass, failures>>

\* A walk is over: the pass goes on to its end, a submit to processSubmit().
EndWalk(w) ==
  /\ walks[w] # Nobody
  /\ walks[w].todo = {} /\ walks[w].call = Nobody
  /\ walks' = [walks EXCEPT ![w] = Nobody]
  /\ pass' = IF w = Job THEN "idle" ELSE pass
  /\ UNCHANGED <<world, list, failures>>

-----------------------------------------------------------------------------
(* The environment.                                                        *)

Change ==
  /\ changes < MaxChanges
  /\ changes' = changes + 1

\* A validator is registered, moves, or is removed.
Register(v, endpoint) ==
  /\ Change
  /\ registry' = [u \in DOMAIN registry \union {v} |-> IF u = v THEN endpoint ELSE registry[u]]
  /\ UNCHANGED <<hosts, list, pass, walks, failures>>

Unregister(v) ==
  /\ Change
  /\ v \in DOMAIN registry
  /\ registry' = [u \in DOMAIN registry \ {v} |-> registry[u]]
  /\ UNCHANGED <<hosts, list, pass, walks, failures>>

\* A validator starts to listen at an endpoint, or whoever did stops.
Host(endpoint, v) ==
  /\ Change
  /\ hosts[endpoint] # v
  /\ hosts' = [hosts EXCEPT ![endpoint] = v]
  /\ UNCHANGED <<registry, list, pass, walks, failures>>

\* This node dies and starts again: it knows no peers.
Restart ==
  /\ Change
  /\ validators' = [v \in {} |-> NoEndpoint]
  /\ heap' = [o \in PeerObjects |-> Nobody]
  /\ items' = {}
  /\ pass' = "idle"
  /\ walks' = [w \in Walkers |-> Nobody]
  /\ UNCHANGED <<registry, hosts, failures>>

-----------------------------------------------------------------------------
WalkOn(w) == CallPeer(w) \/ Answer(w) \/ Failure(w) \/ Settle(w) \/ EndWalk(w)

Environment ==
  \/ \E v \in Validators, endpoint \in Addresses : Register(v, endpoint)
  \/ \E v \in Validators : Unregister(v)
  \/ \E endpoint \in Endpoints, v \in Validators \union {Nobody} : Host(endpoint, v)
  \/ Restart

Next ==
  \/ BeginPeriod \/ MakePeers \/ AbortPass \/ BeginCheck \/ BeginBroadcast
  \/ \E s \in Submits : BeginBroadcastSubmit(s)
  \/ \E w \in Walkers : WalkOn(w)
  \/ Environment

Spec == Init /\ [][Next]_vars

\* The clock ends a period again and again, however many jobs there are; the
\* registry answers again and again; and every call is answered or fails.
Fairness ==
  /\ SF_vars(BeginPeriod)
  /\ SF_vars(MakePeers)
  /\ WF_vars(BeginCheck)
  /\ \A w \in Walkers : WF_vars(WalkOn(w))

FairSpec == Spec /\ Fairness

-----------------------------------------------------------------------------
(* Properties.                                                             *)

TypeOK ==
  /\ registry \in Registry
  /\ hosts \in [Endpoints -> Validators \union {Nobody}]
  /\ validators \in Registry
  /\ heap \in [PeerObjects -> Peer \union {Nobody}]
  /\ items \subseteq PeerObjects
  /\ pass \in {"idle", "makePeers", "peers.check", "walk"}
  /\ walks \in [Walkers -> Walks \union {Nobody}]
  /\ changes \in Nat
  /\ failures \in Nat

\* The peers are the validators of the last answer of the registry, each once,
\* at the endpoint given there, and never this node itself: handlers ask the
\* one and calls go to the other.
ListIsRegistry ==
  /\ {heap[o].nodeId : o \in items} = DOMAIN validators \ {Me}
  /\ \A o, p \in items : heap[o].nodeId = heap[p].nodeId => o = p
  /\ \A o \in items : heap[o].endpoint = validators[heap[o].nodeId]

Made(o) == heap[o] # Nobody

\* What a walk may rely on after each await: its peers are there, even those
\* that the list has lost, and those of the pass are none that it must not call.
WalksInv ==
  /\ (pass = "walk") <=> (walks[Job] # Nobody)
  /\ \A s \in Submits : walks[s] # Nobody => walks[s].op = "broadcast"
  /\ \A w \in Walkers : walks[w] # Nobody /\ walks[w].call # Nobody =>
       walks[w].call.peer \notin walks[w].todo
  /\ \A o \in items : Made(o)
  /\ \A w \in Walkers : \A o \in HeldBy(w) : Made(o)
  /\ \A o \in HeldBy(Job) : heap[o].status # "ABNORMAL"

\* The inductive invariant.
IndInv == TypeOK /\ ListIsRegistry /\ WalksInv

\* A peer that answered under another name is ABNORMAL for good, unless a
\* submit that had picked it before fails to reach it: neither a check nor the
\* broadcast of a request clears it, and nothing makes it ACTIVE at once.
AbnormalIsKept ==
  [][\A o \in items \intersect items' :
       heap[o].status = "ABNORMAL" /\ heap'[o].status # "ABNORMAL" =>
         /\ heap'[o].status = "INACTIVE"
         /\ \E s \in Submits : o \in HeldBy(s)]_vars

Is(v, statuses) == \E o \in items : heap[o].nodeId = v /\ heap[o].status \in statuses

\* A peer that is registered where it listens is ACTIVE in the end, or was once
\* met under another name, whatever refusals, moves, late answers and stale
\* walks there have been.
HealthyPeerReturns ==
  \A v \in Validators \ {Me} :
    <>[](v \in DOMAIN registry /\ Listens(registry[v]) /\ hosts[registry[v]] = v)
      => <>[]Is(v, {"ACTIVE", "ABNORMAL"})

\* A peer where nobody listens any more is not broadcast to for ever.
SilentPeerIsDropped ==
  \A v \in Validators \ {Me} :
    <>[](v \in DOMAIN registry /\ registry[v] # NoEndpoint /\ ~Listens(registry[v]))
      => <>[]~Is(v, {"ACTIVE"})

=============================================================================
