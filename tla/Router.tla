------------------------------- MODULE Router -------------------------------
(***************************************************************************)
(* One validator node: the HTTP handlers and the periodic job of           *)
(* validator/Router.ts over the validation table and the contract.         *)
(*                                                                         *)
(* The program is single-threaded and asynchronous: what runs between two  *)
(* awaits is atomic, and at every await any other handler, timer, or the   *)
(* job may run.  So an action is a stretch of code between two awaits that *)
(* touch state; `work' is the continuation of onWork() (the Worker never   *)
(* runs two of them) and submits[s] that of a processSubmit() in flight,   *)
(* each with the snapshots it read before its last await.  A transaction   *)
(* is awaited only until it is sent: it executes later, or never.          *)
(* `presented' is history: the codes that clients brought in time.         *)
(***************************************************************************)
EXTENDS Storage, PhoneLinkCollection

CONSTANTS
  OwnRequests,   \* the ids getRequestId() of this node may draw
  PeerRequests,  \* the ids this node may hear of from other validators
  Submits,       \* slots: how many submits may be in flight at once
  Mode,          \* config.validator.authenticationMode
  Me,            \* this node's validator
  Indexes,       \* the validator indexes the contract hands out
  Registries,    \* answers of getValidators(): validator -> index
  CodeStrings,   \* submitted strings: index -> the two digits at its place
  CodeLifetime,  \* 5 * 60
  Epoch,         \* the time at which the node first starts
  InitWaiting,   \* ValidatorNode.INIT_WAITING_SECONDS
  Interval,      \* ValidatorNode.INTERVAL_SECONDS
  MaxClock,      \* bound: the clock stops here
  MaxCrashes     \* bound: crashes of the node

AuthenticationMode ==
  {"NoSMSNoCode", "NoSMSKnownCode", "YesSMSKnownCode", "YesSMSUnknownCode"}

ASSUME RouterAssumption ==
  /\ RequestIds = OwnRequests \union PeerRequests
  /\ OwnRequests \intersect PeerRequests = {}
  /\ Mode \in AuthenticationMode
  /\ Me \in Validators
  /\ Indexes \subseteq Nat
  /\ \A answer \in Registries :
       /\ DOMAIN answer \subseteq Validators
       /\ \A v \in DOMAIN answer : answer[v] \in Indexes
  /\ CodeStrings \subseteq [Indexes -> Codes \union {NoCode}]
  /\ CodeLifetime \in Nat \ {0}
  /\ Interval \in Nat \ {0}
  /\ InitWaiting \in Nat
  /\ Epoch \in Nat
  /\ MaxClock \in Nat
  /\ MaxCrashes \in Nat

VARIABLES
  clock,           \* ContractUtils.getTimeStamp()
  validation,      \* the validation table
  spent,           \* ids that no INSERT will carry any more
  requests,        \* the contract: id -> Request
  mempool,         \* transactions of this node sent and not yet executed
  validators,      \* DOMAIN of this._validators
  validatorIndex,  \* this._validatorIndex
  initialized,     \* this._initialized
  startTimeStamp,  \* this._startTimeStamp
  oldTimeStamp,    \* this._oldTimeStamp
  work,            \* the pass of onWork() in progress
  submits,         \* the processSubmit() calls in progress
  timers,          \* ids whose 3 second timer of NoSMSNoCode is pending
  presented,       \* history: <<id, code>> presented before the code expired
  crashes          \* number of crashes so far

chain == <<requests, mempool>>
node  == <<validators, validatorIndex, initialized, startTimeStamp>>
vars  == <<clock, validation, spent, chain, node, oldTimeStamp, work, submits,
           timers, presented, crashes>>

-----------------------------------------------------------------------------
Jobs == [requestId : RequestIds, data : ValidationData]

\* The places of a pass: outside the switch, and in it with a current job.
PassPC  == {"idle", "init", "select", "loop", "refresh", "cleanup"}
PhonePC == {"addRequest", "sendPhone", "updateSendCode", "markSent"}
VotePC  == {"vote", "markVoted"}
CountPC == {"canCount", "countVote", "confirm", "finish"}
JobPC   == PhonePC \union VotePC \union CountPC

Works == [pc : PassPC \union JobPC, now : Nat, jobs : SUBSET Jobs, job : Jobs \union {Absent}]

Idle == [pc |-> "idle", now |-> 0, jobs |-> {}, job |-> Absent]

\* The continuations of processSubmit(), each with what it goes on to use.
SubmitCalls ==
  [pc : {"getValidation"}, id : RequestIds, code : CodeStrings]
    \union [pc : {"checkExpiry"}, id : RequestIds, code : CodeStrings,
            row : ValidationData]
    \union [pc : {"accept", "expire"}, id : RequestIds]

Transactions == [op : {"addRequest", "voteRequest", "countVote"}, id : RequestIds]

Period(time) == time \div Interval

-----------------------------------------------------------------------------
Init ==
  /\ clock = Epoch
  /\ validation = createTables
  /\ spent = {}
  /\ requests = [id \in RequestIds |-> [status |-> "INVALID", voters |-> {}]]
  /\ mempool = {}
  /\ validators = {}
  /\ validatorIndex = -1
  /\ initialized = FALSE
  /\ startTimeStamp = Epoch
  /\ oldTimeStamp = 0
  /\ work = Idle
  /\ submits = [s \in Submits |-> Absent]
  /\ timers = {}
  /\ presented = {}
  /\ crashes = 0

-----------------------------------------------------------------------------
(* The handlers of /request and /broadcast.  A refusal changes nothing and *)
(* is not an action.                                                       *)

\* POST /request: the id is fresh, drawn until the contract calls it available.
PostRequest(id) ==
  /\ id \in OwnRequests \ spent
  /\ isAvailable(requests, id)
  /\ validation[id] = Absent
  /\ validation' = createValidation(validation, id, toValidationData("RECEIVED_REGISTER"))
  /\ spent' = spent \union {id}
  /\ UNCHANGED <<clock, chain, node, oldTimeStamp, work, submits, timers,
                 presented, crashes>>

\* POST /broadcast: accepted from a validator this node knows of.
PostBroadcast(id) ==
  /\ id \in PeerRequests \ spent
  /\ validators \ {Me} # {}
  /\ validation[id] = Absent
  /\ validation' = createValidation(validation, id, toValidationData("RECEIVED_BROADCAST"))
  /\ UNCHANGED <<clock, spent, chain, node, oldTimeStamp, work, submits, timers,
                 presented, crashes>>

-----------------------------------------------------------------------------
(* processSubmit(), reached from /submit and /broadcastSubmit.             *)

\* The code of the request has been sent and has expired by now.
Expired(id) ==
  /\ validation[id] # Absent
  /\ validation[id].sendCode # NoCode
  /\ validation[id].expire <= clock

\* A call of processSubmit() begins: a client has presented a code.
BeginSubmit(s, id, code) ==
  /\ submits[s] = Absent
  /\ submits' = [submits EXCEPT ![s] = [pc |-> "getValidation", id |-> id,
                                        code |-> code]]
  /\ presented' = IF Expired(id) THEN presented
                  ELSE presented \union {<<id, code[i]>> : i \in Indexes}
  /\ UNCHANGED <<clock, validation, spent, chain, node, oldTimeStamp, work,
                 timers, crashes>>

PostSubmit(s, id, code) == BeginSubmit(s, id, code)

\* The receiver that signed the code must be a validator this node knows of.
PostBroadcastSubmit(s, id, code) ==
  /\ validators \ {Me} # {}
  /\ BeginSubmit(s, id, code)

\* The request waits for its code.
Sent(id) == validation[id] # Absent /\ validation[id].validationStatus = "SENT"

\* The answers 410 and 420 to 422; a row in status VOTED has no answer at all.
RefuseSubmit(s) ==
  /\ submits[s] # Absent
  /\ submits[s].pc = "getValidation"
  /\ ~Sent(submits[s].id)
  /\ submits' = [submits EXCEPT ![s] = Absent]
  /\ UNCHANGED <<clock, validation, spent, chain, node, oldTimeStamp, work,
                 timers, presented, crashes>>

ReadValidation(s) ==
  /\ submits[s] # Absent
  /\ submits[s].pc = "getValidation"
  /\ Sent(submits[s].id)
  /\ submits' = [submits EXCEPT ![s] = [pc |-> "checkExpiry", id |-> @.id, code |-> @.code,
                                        row |-> validation[@.id]]]
  /\ UNCHANGED <<clock, validation, spent, chain, node, oldTimeStamp, work,
                 timers, presented, crashes>>

\* The substring at this node's place; with index -1 it is the empty string.
Slice(code) == IF validatorIndex = -1 THEN NoCode ELSE code[validatorIndex]

\* Mutant: the expiry of the code is not looked at.
CheckInAnyTime(s) ==
  /\ submits[s] # Absent
  /\ submits[s].pc = "checkExpiry"
  /\ submits' = [submits EXCEPT ![s] =
                   IF @.row.sendCode = Slice(@.code)
                   THEN [pc |-> "accept", id |-> @.id]
                   ELSE Absent]
  /\ UNCHANGED <<clock, validation, spent, chain, node, oldTimeStamp, work,
                 timers, presented, crashes>>

\* Mutant: the code is stored and not compared.
CheckAnyCode(s) ==
  /\ submits[s] # Absent
  /\ submits[s].pc = "checkExpiry"
  /\ submits[s].row.expire > clock
  /\ submits' = [submits EXCEPT ![s] = [pc |-> "accept", id |-> @.id]]
  /\ UNCHANGED <<clock, validation, spent, chain, node, oldTimeStamp, work,
                 timers, presented, crashes>>

\* In time: the slice is stored and compared with the code of the snapshot.
CheckInTime(s) ==
  /\ submits[s] # Absent
  /\ submits[s].pc = "checkExpiry"
  /\ submits[s].row.expire > clock
  /\ submits' = [submits EXCEPT ![s] =
                   IF @.row.sendCode = Slice(@.code)
                   THEN [pc |-> "accept", id |-> @.id]
                   ELSE Absent]
  /\ UNCHANGED <<clock, validation, spent, chain, node, oldTimeStamp, work,
                 timers, presented, crashes>>

CheckTooLate(s) ==
  /\ submits[s] # Absent
  /\ submits[s].pc = "checkExpiry"
  /\ submits[s].row.expire <= clock
  /\ submits' = [submits EXCEPT ![s] = [pc |-> "expire", id |-> @.id]]
  /\ UNCHANGED <<clock, validation, spent, chain, node, oldTimeStamp, work,
                 timers, presented, crashes>>

AcceptCode(s) ==
  /\ submits[s] # Absent
  /\ submits[s].pc = "accept"
  /\ validation' = updateProcessStep(validation, submits[s].id, "RECEIVED_CODE")
  /\ submits' = [submits EXCEPT ![s] = Absent]
  /\ UNCHANGED <<clock, spent, chain, node, oldTimeStamp, work, timers,
                 presented, crashes>>

WriteExpired(s) ==
  /\ submits[s] # Absent
  /\ submits[s].pc = "expire"
  /\ validation' = updateValidationStatus(validation, submits[s].id, "EXPIRED")
  /\ submits' = [submits EXCEPT ![s] = Absent]
  /\ UNCHANGED <<clock, spent, chain, node, oldTimeStamp, work, timers,
                 presented, crashes>>

\* The timer that stands for the user in NoSMSNoCode.
TimerFires(id) ==
  /\ id \in timers
  /\ timers' = timers \ {id}
  /\ validation' = updateProcessStep(validation, id, "RECEIVED_CODE")
  /\ UNCHANGED <<clock, spent, chain, node, oldTimeStamp, work, submits,
                 presented, crashes>>

-----------------------------------------------------------------------------
(* onWork(), one pass.                                                     *)

WaitForStartup ==
  /\ work.pc = "idle"
  /\ clock - startTimeStamp < InitWaiting
  /\ oldTimeStamp' = clock
  /\ UNCHANGED <<clock, validation, spent, chain, node, work, submits, timers,
                 presented, crashes>>

BeginWork ==
  /\ work.pc = "idle"
  /\ clock - startTimeStamp >= InitWaiting
  /\ work' = [work EXCEPT !.pc = IF initialized THEN "select" ELSE "init",
                          !.now = clock]
  /\ UNCHANGED <<clock, validation, spent, chain, node, oldTimeStamp, submits,
                 timers, presented, crashes>>

\* A validator that is no longer registered keeps the index it had.
MakePeers(answer) ==
  /\ validators' = DOMAIN answer
  /\ validatorIndex' = IF Me \in DOMAIN answer THEN answer[Me] ELSE validatorIndex

Initialize(answer) ==
  /\ work.pc = "init"
  /\ MakePeers(answer)
  /\ initialized' = TRUE
  /\ work' = [work EXCEPT !.pc = "select"]
  /\ UNCHANGED <<clock, validation, spent, chain, startTimeStamp, oldTimeStamp,
                 submits, timers, presented, crashes>>

SelectJobs ==
  /\ work.pc = "select"
  /\ work' = [work EXCEPT !.pc = "loop", !.jobs = getUnfinishedJob(validation)]
  /\ UNCHANGED <<clock, validation, spent, chain, node, oldTimeStamp, submits,
                 timers, presented, crashes>>

\* Where the switch over the step enters the code.
CaseOf(step) ==
  CASE step = "RECEIVED_REGISTER"  -> "addRequest"
    [] step = "RECEIVED_BROADCAST" -> "sendPhone"
    [] step = "RECEIVED_CODE"      -> "vote"
    [] OTHER                       -> "canCount"

TakeJob(job) ==
  /\ work.pc = "loop"
  /\ job \in work.jobs
  /\ work' = [work EXCEPT !.pc = CaseOf(job.data.processStep),
                          !.jobs = @ \ {job}, !.job = job]
  /\ UNCHANGED <<clock, validation, spent, chain, node, oldTimeStamp, submits,
                 timers, presented, crashes>>

\* Every error of the call is caught and logged: it is sent, or it is not.
SendTransaction(op) ==
  /\ mempool' \in {mempool, mempool \union {[op |-> op, id |-> work.job.requestId]}}
  /\ UNCHANGED requests

\* addRequest() and the broadcast to the peers.
AddRequest ==
  /\ work.pc = "addRequest"
  /\ SendTransaction("addRequest")
  /\ work' = [work EXCEPT !.pc = "sendPhone"]
  /\ UNCHANGED <<clock, validation, spent, node, oldTimeStamp, submits, timers,
                 presented, crashes>>

\* Mutant: the random number is rounded, not cut off.
getCodeRounded ==
  CASE Mode = "YesSMSUnknownCode" -> Codes \union {CodeSpace}
    [] Mode = "NoSMSNoCode"       -> {0}
    [] OTHER -> {IF validatorIndex = -1 THEN 0 ELSE validatorIndex % CodeSpace}

\* The code the generator of the mode may produce.
getCode ==
  CASE Mode = "YesSMSUnknownCode" -> Codes
    [] Mode = "NoSMSNoCode"       -> {0}
    [] OTHER -> {IF validatorIndex = -1 THEN 0 ELSE validatorIndex % CodeSpace}

\* Mutant: a code is sent whether one has been sent before or not.
SendPhoneAgain ==
  /\ work.pc = "sendPhone"
  /\ \E code \in getCode :
       work' = [work EXCEPT !.pc = "updateSendCode",
                            !.job.data.validationStatus = "SENT",
                            !.job.data.sendCode = code,
                            !.job.data.expire = clock + CodeLifetime]
  /\ UNCHANGED <<clock, validation, spent, chain, node, oldTimeStamp, submits,
                 timers, presented, crashes>>

\* processSendPhone() up to the send(), whose outcome is not looked at.
SendPhone ==
  /\ work.pc = "sendPhone"
  /\ work.job.data.validationStatus = "NONE"
  /\ \E code \in getCode :
       work' = [work EXCEPT !.pc = "updateSendCode",
                            !.job.data.validationStatus = "SENT",
                            !.job.data.sendCode = code,
                            !.job.data.expire = clock + CodeLifetime]
  /\ UNCHANGED <<clock, validation, spent, chain, node, oldTimeStamp, submits,
                 timers, presented, crashes>>

SkipSendPhone ==
  /\ work.pc = "sendPhone"
  /\ work.job.data.validationStatus # "NONE"
  /\ work' = [work EXCEPT !.pc = "markSent"]
  /\ UNCHANGED <<clock, validation, spent, chain, node, oldTimeStamp, submits,
                 timers, presented, crashes>>

WriteSendCode ==
  /\ work.pc = "updateSendCode"
  /\ validation' = updateSendCode(validation, work.job.requestId, work.job.data)
  /\ work' = [work EXCEPT !.pc = "markSent"]
  /\ UNCHANGED <<clock, spent, chain, node, oldTimeStamp, submits, timers,
                 presented, crashes>>

\* The end of a job: on to the next one.
NextJob == [work EXCEPT !.pc = "loop", !.job = Absent]

\* Mutant: only the requests of this node get a timer.
MarkSentOwnTimer ==
  /\ work.pc = "markSent"
  /\ validation' = updateProcessStep(validation, work.job.requestId, "SENT_SMS")
  /\ timers' = IF Mode = "NoSMSNoCode" /\ work.job.requestId \in OwnRequests
               THEN timers \union {work.job.requestId}
               ELSE timers
  /\ work' = NextJob
  /\ UNCHANGED <<clock, spent, chain, node, oldTimeStamp, submits, presented,
                 crashes>>

MarkSent ==
  /\ work.pc = "markSent"
  /\ validation' = updateProcessStep(validation, work.job.requestId, "SENT_SMS")
  /\ timers' = IF Mode = "NoSMSNoCode" THEN timers \union {work.job.requestId}
               ELSE timers
  /\ work' = NextJob
  /\ UNCHANGED <<clock, spent, chain, node, oldTimeStamp, submits, presented,
                 crashes>>

VoteAgreement ==
  /\ work.pc = "vote"
  /\ SendTransaction("voteRequest")
  /\ work' = [work EXCEPT !.pc = "markVoted"]
  /\ UNCHANGED <<clock, validation, spent, node, oldTimeStamp, submits, timers,
                 presented, crashes>>

MarkVoted ==
  /\ work.pc = "markVoted"
  /\ validation' = updateProcessStep(validation, work.job.requestId, "VOTED")
  /\ work' = NextJob
  /\ UNCHANGED <<clock, spent, chain, node, oldTimeStamp, submits, timers,
                 presented, crashes>>

\* Mutant: the answer 2 falls through to the confirmation.
CanCountVoteFallsThrough ==
  /\ work.pc = "canCount"
  /\ LET res == canCountVote(requests, work.job.requestId) IN
     work' = IF res = 1 THEN [work EXCEPT !.pc = "countVote"]
             ELSE [work EXCEPT !.pc = "confirm"]
  /\ UNCHANGED <<clock, validation, spent, chain, node, oldTimeStamp, submits,
                 timers, presented, crashes>>

\* Mutant: a count done by another validator is not noticed.
CanCountVoteHere ==
  /\ work.pc = "canCount"
  /\ LET res == canCountVote(requests, work.job.requestId) IN
     work' = IF res = 1 THEN [work EXCEPT !.pc = "countVote"] ELSE NextJob
  /\ UNCHANGED <<clock, validation, spent, chain, node, oldTimeStamp, submits,
                 timers, presented, crashes>>

CanCountVote ==
  /\ work.pc = "canCount"
  /\ LET res == canCountVote(requests, work.job.requestId) IN
     work' = CASE res = 1 -> [work EXCEPT !.pc = "countVote"]
               [] res = 2 -> NextJob
               [] OTHER   -> [work EXCEPT !.pc = "confirm"]
  /\ UNCHANGED <<clock, validation, spent, chain, node, oldTimeStamp, submits,
                 timers, presented, crashes>>

CountVote ==
  /\ work.pc = "countVote"
  /\ SendTransaction("countVote")
  /\ work' = [work EXCEPT !.pc = "confirm"]
  /\ UNCHANGED <<clock, validation, spent, node, oldTimeStamp, submits, timers,
                 presented, crashes>>

\* Mutant: the step is written before the status.
ConfirmAfterFinish ==
  /\ work.pc = "confirm"
  /\ validation' = updateProcessStep(validation, work.job.requestId, "FINISHED")
  /\ work' = [work EXCEPT !.pc = "finish"]
  /\ UNCHANGED <<clock, spent, chain, node, oldTimeStamp, submits, timers,
                 presented, crashes>>

Confirm ==
  /\ work.pc = "confirm"
  /\ validation' = updateValidationStatus(validation, work.job.requestId, "CONFIRMED")
  /\ work' = [work EXCEPT !.pc = "finish"]
  /\ UNCHANGED <<clock, spent, chain, node, oldTimeStamp, submits, timers,
                 presented, crashes>>

Finish ==
  /\ work.pc = "finish"
  /\ validation' = updateProcessStep(validation, work.job.requestId, "FINISHED")
  /\ work' = NextJob
  /\ UNCHANGED <<clock, spent, chain, node, oldTimeStamp, submits, timers,
                 presented, crashes>>

EndPass ==
  /\ work.pc = "loop"
  /\ work.jobs = {}
  /\ Period(oldTimeStamp) = Period(work.now)
  /\ oldTimeStamp' = work.now
  /\ work' = Idle
  /\ UNCHANGED <<clock, validation, spent, chain, node, submits, timers,
                 presented, crashes>>

BeginPeriod ==
  /\ work.pc = "loop"
  /\ work.jobs = {}
  /\ Period(oldTimeStamp) # Period(work.now)
  /\ work' = [work EXCEPT !.pc = "refresh"]
  /\ UNCHANGED <<clock, validation, spent, chain, node, oldTimeStamp, submits,
                 timers, presented, crashes>>

Refresh(answer) ==
  /\ work.pc = "refresh"
  /\ MakePeers(answer)
  /\ work' = [work EXCEPT !.pc = "cleanup"]
  /\ UNCHANGED <<clock, validation, spent, chain, initialized, startTimeStamp,
                 oldTimeStamp, submits, timers, presented, crashes>>

\* A request whose code has been sent is not broadcast again a day later.
RemoveExpired ==
  /\ work.pc = "cleanup"
  /\ validation' = removeExpiredValidation(validation, clock)
  /\ spent' = spent \union {id \in ExpiredValidations(validation, clock) :
                              validation[id].sendCode # NoCode}
  /\ oldTimeStamp' = work.now
  /\ work' = Idle
  /\ UNCHANGED <<clock, chain, node, submits, timers, presented, crashes>>

\* A call of the contract that throws: the Worker catches it, the pass is over.
AbortWork ==
  /\ work.pc \in {"init", "canCount", "refresh"}
  /\ work' = Idle
  /\ UNCHANGED <<clock, validation, spent, chain, node, oldTimeStamp, submits,
                 timers, presented, crashes>>

-----------------------------------------------------------------------------
(* The environment: the chain, the other validators, time, and crashes.    *)

Execute(tx) ==
  CASE tx.op = "addRequest"  -> addRequest(requests, tx.id)
    [] tx.op = "voteRequest" -> voteRequest(requests, tx.id, Me)
    [] OTHER                 -> countVote(requests, tx.id)

\* A transaction of this node is mined, in any order; it may revert.
Mine(tx) ==
  /\ tx \in mempool
  /\ mempool' = mempool \ {tx}
  /\ requests' = Execute(tx)
  /\ UNCHANGED <<clock, validation, spent, node, oldTimeStamp, work, submits,
                 timers, presented, crashes>>

\* A transaction of this node is lost.
Drop(tx) ==
  /\ tx \in mempool
  /\ mempool' = mempool \ {tx}
  /\ UNCHANGED <<clock, validation, spent, requests, node, oldTimeStamp, work,
                 submits, timers, presented, crashes>>

\* Transactions of other validators change the contract alone.
ByOthers(outcome) ==
  /\ requests' = outcome
  /\ requests' # requests
  /\ UNCHANGED <<clock, validation, spent, mempool, node, oldTimeStamp, work,
                 submits, timers, presented, crashes>>

OtherAdd(id)     == id \in PeerRequests /\ ByOthers(addRequest(requests, id))
OtherVote(v, id) == v # Me /\ ByOthers(voteRequest(requests, id, v))
OtherCount(id)   == ByOthers(countVote(requests, id))

Tick ==
  /\ clock < MaxClock
  /\ clock' = clock + 1
  /\ UNCHANGED <<validation, spent, chain, node, oldTimeStamp, work, submits,
                 timers, presented, crashes>>

\* The process dies and starts again; the database file and the chain remain.
Crash ==
  /\ crashes < MaxCrashes
  /\ clock + InitWaiting <= MaxClock
  /\ crashes' = crashes + 1
  /\ validators' = {}
  /\ validatorIndex' = -1
  /\ initialized' = FALSE
  /\ startTimeStamp' = clock
  /\ oldTimeStamp' = 0
  /\ work' = Idle
  /\ submits' = [s \in Submits |-> Absent]
  /\ timers' = {}
  /\ UNCHANGED <<clock, validation, spent, chain, presented>>

-----------------------------------------------------------------------------
ProcessSubmit(s) ==
  \/ RefuseSubmit(s)
  \/ ReadValidation(s)
  \/ CheckInTime(s)
  \/ CheckTooLate(s)
  \/ AcceptCode(s)
  \/ WriteExpired(s)

OnWork ==
  \/ WaitForStartup
  \/ BeginWork
  \/ \E answer \in Registries : Initialize(answer)
  \/ SelectJobs
  \/ \E job \in work.jobs : TakeJob(job)
  \/ AddRequest
  \/ SendPhone
  \/ SkipSendPhone
  \/ WriteSendCode
  \/ MarkSent
  \/ VoteAgreement
  \/ MarkVoted
  \/ CanCountVote
  \/ CountVote
  \/ Confirm
  \/ Finish
  \/ EndPass
  \/ BeginPeriod
  \/ \E answer \in Registries : Refresh(answer)
  \/ RemoveExpired
  \/ AbortWork

Handlers ==
  \/ \E id \in RequestIds : PostRequest(id) \/ PostBroadcast(id) \/ TimerFires(id)
  \/ \E s \in Submits, id \in RequestIds, code \in CodeStrings :
       PostSubmit(s, id, code) \/ PostBroadcastSubmit(s, id, code)
  \/ \E s \in Submits : ProcessSubmit(s)

Environment ==
  \/ \E tx \in mempool : Mine(tx) \/ Drop(tx)
  \/ \E id \in RequestIds : OtherAdd(id) \/ OtherCount(id)
  \/ \E v \in Validators, id \in RequestIds : OtherVote(v, id)
  \/ Tick
  \/ Crash

Next == OnWork \/ Handlers \/ Environment

Spec == Init /\ [][Next]_vars

-----------------------------------------------------------------------------
(* Fairness.  The Worker starts a pass every second and Node resumes what  *)
(* has been awaited, if it settles: onWork(), every submit and every timer *)
(* go on.  A call of the contract may throw, but not every time.  Nothing  *)
(* is asked of clients, of the other validators, or of the chain's         *)
(* transactions.                                                           *)

Fairness ==
  /\ WF_vars(OnWork)
  /\ SF_vars(\E answer \in Registries : Initialize(answer))
  /\ SF_vars(CanCountVote)
  /\ SF_vars(\E answer \in Registries : Refresh(answer))
  /\ \A s \in Submits : WF_vars(ProcessSubmit(s))
  /\ \A id \in RequestIds : WF_vars(TimerFires(id))
  /\ WF_vars(Tick)

FairSpec == Spec /\ Fairness

-----------------------------------------------------------------------------
(* Properties.                                                             *)

\* The type of every variable; in particular the codes the generator draws
\* are codes a client can type, and each await resumes with a row it read.
TypeOK ==
  /\ clock \in Nat
  /\ validation \in Tables
  /\ spent \subseteq RequestIds
  /\ requests \in [RequestIds -> Request]
  /\ mempool \subseteq Transactions
  /\ validators \subseteq Validators
  /\ validatorIndex \in Indexes \union {-1}
  /\ initialized \in BOOLEAN
  /\ startTimeStamp \in Nat
  /\ oldTimeStamp \in Nat
  /\ work \in Works
  /\ IF work.pc \in JobPC THEN work.job \in Jobs ELSE work.job = Absent
  /\ submits \in [Submits -> SubmitCalls \union {Absent}]
  /\ timers \subseteq RequestIds
  /\ presented \subseteq RequestIds \X (Codes \union {NoCode})
  /\ crashes \in Nat

Step(id) == IF validation[id] = Absent THEN "NONE" ELSE validation[id].processStep

Expiry(id) == IF validation[id] = Absent THEN 0 ELSE validation[id].expire

\* A request moves on to the vote only if a client presented the very code
\* this node sent for it, before that code expired: whatever the job, other
\* submits and a restart did between the checks of processSubmit() and its
\* writes.  (The timers of NoSMSNoCode stand for the client.)
CodeProven ==
  Mode # "NoSMSNoCode" =>
    \A id \in RequestIds :
      Step(id) \in {"RECEIVED_CODE", "VOTED", "FINISHED"} =>
        <<id, validation[id].sendCode>> \in presented

\* A row is confirmed or finished only if a quorum of validators has voted
\* for its request: the counting transaction is not awaited and may be lost,
\* and a stale submit may reopen the row, but the agreement is a fact.
FinishedMeansAgreed ==
  \A id \in RequestIds :
    \/ Step(id) = "FINISHED"
    \/ validation[id] # Absent /\ validation[id].validationStatus = "CONFIRMED"
    => Agreed(requests, id)

\* A finished row takes no further code: it is confirmed, or expired by a
\* submit that had read it before.
FinishedIsClosed ==
  \A id \in RequestIds :
    Step(id) = "FINISHED" =>
      validation[id].validationStatus \in {"CONFIRMED", "EXPIRED"}

\* While its row is kept, a request keeps the code it was sent and the expiry
\* of that code: a pass that a crash has cut short does not send it another.
CodeStable ==
  [][\A id \in RequestIds :
       validation[id] # Absent /\ validation'[id] # Absent
       /\ validation[id].sendCode # NoCode =>
         /\ validation'[id].sendCode = validation[id].sendCode
         /\ validation'[id].expire = validation[id].expire]_vars

\* This node sends its vote for a request only while it keeps the row and its
\* code was presented in time.
VoteNeedsCode ==
  [][Mode # "NoSMSNoCode" =>
       \A id \in RequestIds :
         [op |-> "voteRequest", id |-> id] \in mempool' \ mempool =>
           /\ validation[id] # Absent
           /\ <<id, validation[id].sendCode>> \in presented]_vars

\* No request waits for the job for ever: registered and broadcast requests
\* and accepted codes are taken on, or their rows are removed, though a call
\* for one request that throws ends the pass for all.
JobsDrain ==
  \A id \in RequestIds :
    \A step \in {"RECEIVED_REGISTER", "RECEIVED_BROADCAST", "RECEIVED_CODE"} :
      Step(id) = step ~> Step(id) # step

\* A request this node has voted for is finished here once a quorum agrees,
\* even if this node's own transactions are lost or others do the counting.
\* Until its code expires, submits may reopen the row again and again: the
\* property is about the codes that expire before the clock stops.
QuorumLeadsToFinished ==
  \A id \in RequestIds :
    Step(id) = "VOTED" /\ Agreed(requests, id) /\ Expiry(id) <= MaxClock
      ~> Step(id) = "FINISHED" \/ validation[id] = Absent

\* In NoSMSNoCode no client is needed: a request marked as sent is accepted by
\* its timer and voted for, unless its row is removed first.
TimerStandsIn ==
  Mode = "NoSMSNoCode" =>
    \A id \in RequestIds :
      Step(id) = "SENT_SMS"
        ~> Step(id) \in {"VOTED", "FINISHED"} \/ validation[id] = Absent

\* types/index.ts:77 says of the step RECEIVED_CODE that it leads to the vote.
ReceivedCodeIsVoted ==
  \A id \in RequestIds :
    Step(id) = "RECEIVED_CODE" ~> Step(id) \in {"VOTED", "FINISHED"}

\* types/index.ts:74 says of the step RECEIVED_REGISTER that it leads to the
\* registration, after which the code is sent.
RegisterIsSent ==
  \A id \in RequestIds :
    Step(id) = "RECEIVED_REGISTER" ~> Step(id) \notin {"RECEIVED_REGISTER", "NONE"}

=============================================================================
