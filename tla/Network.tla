------------------------------ MODULE Network ------------------------------
(***************************************************************************)
(* All validator nodes together, with the calls they make of each other,   *)
(* the contract, and the clients.                                          *)
(*                                                                         *)
(* What a node does on its own between two calls is one action here;       *)
(* Router takes it apart.  The subject is what happens between nodes: a    *)
(* request is broadcast once, to the peers that are ACTIVE at the moment,  *)
(* and a submit to those that are ACTIVE when it begins, one after the     *)
(* other; a call may be lost, or its answer, may be refused, or may arrive *)
(* after its caller has died; and a refusal or an error makes the peer     *)
(* INACTIVE until the next check.  Indexes do not change here: a submitted *)
(* string gives a code to each validator.                                  *)
(***************************************************************************)
EXTENDS Storage, PhoneLinkCollection

CONSTANTS
  Nobody,        \* no node is being called
  CodeStrings,   \* strings that clients may submit: validator -> code
  CodeLifetime,  \* 5 * 60
  Epoch,         \* the time at which the network starts
  MaxClock,      \* bound: the clock stops here
  MaxSubmits,    \* bound: submits of all clients together
  MaxCrashes,    \* bound: crashes of all nodes together
  MaxFaults      \* bound: calls, answers and transactions lost, checks failed

ASSUME NetworkAssumption ==
  /\ Nobody \notin Validators
  /\ CodeStrings \subseteq [Validators -> Codes \union {NoCode}]
  /\ CodeLifetime \in Nat \ {0}
  /\ Epoch \in Nat
  /\ MaxClock \in Nat
  /\ MaxSubmits \in Nat
  /\ MaxCrashes \in Nat
  /\ MaxFaults \in Nat

VARIABLES
  clock,       \* the time, the same for all
  validation,  \* node -> its validation table
  requests,    \* the contract
  mempool,     \* transactions sent and not yet executed
  known,       \* the nodes that have read the registry since they started
  active,      \* node -> its peers in status ACTIVE
  work,        \* node -> the job of onWork() in progress
  submits,     \* node -> the postSubmit() in progress
  wire,        \* calls on their way
  tries,       \* number of submits so far
  crashes,     \* number of crashes so far
  faults,      \* number of faults so far
  posted,      \* the ids that clients have been given
  texted,      \* history: the codes sent by SMS, and when each expires
  presented    \* history: the codes that clients brought, and when

stored  == <<validation, requests, mempool>>
peers   == <<known, active>>
bounds  == <<tries, crashes, faults>>
history == <<posted, texted, presented>>
vars == <<clock, stored, peers, work, submits, wire, bounds, history>>

-----------------------------------------------------------------------------
Works ==
  [pc   : {"idle", "broadcast", "sendPhone", "updateSendCode", "markSent"},
   id   : RequestIds \union {Absent},
   data : ValidationData \union {Absent},
   todo : SUBSET Validators,
   to   : Validators \union {Nobody}]

Idle == [pc |-> "idle", id |-> Absent, data |-> Absent, todo |-> {}, to |-> Nobody]

SubmitCalls ==
  [id : RequestIds, code : CodeStrings, todo : SUBSET Validators,
   to : Validators \union {Nobody}]

ASSUME AbsentCallAssumption == Absent \notin SubmitCalls

\* A call, and whether somebody still waits for its answer.
Messages ==
  [op : {"broadcast"}, from : Validators, waits : BOOLEAN, to : Validators,
   id : RequestIds]
    \union [op : {"broadcastSubmit"}, from : Validators, waits : BOOLEAN, to : Validators,
            id : RequestIds, code : CodeStrings]

Texts   == [from : Validators, id : RequestIds, code : Codes, expire : Nat]
Answers == [to : Validators, id : RequestIds, code : Codes \union {NoCode}, time : Nat]

\* The text message with the code of a row.
Text(n, id, data) ==
  [from |-> n, id |-> id, code |-> data.sendCode, expire |-> data.expire]

Transactions ==
  [op : {"addRequest", "voteRequest", "countVote"}, id : RequestIds, from : Validators]

Init ==
  /\ clock = Epoch
  /\ validation = [n \in Validators |-> createTables]
  /\ requests = [id \in RequestIds |-> [status |-> "INVALID", voters |-> {}]]
  /\ mempool = {}
  /\ known = {}
  /\ active = [n \in Validators |-> {}]
  /\ work = [n \in Validators |-> Idle]
  /\ submits = [n \in Validators |-> Absent]
  /\ wire = {}
  /\ tries = 0
  /\ crashes = 0
  /\ faults = 0
  /\ posted = {}
  /\ texted = {}
  /\ presented = {}

NoFault == UNCHANGED bounds

Fault ==
  /\ faults < MaxFaults
  /\ faults' = faults + 1
  /\ UNCHANGED <<tries, crashes>>

-----------------------------------------------------------------------------
(* Clients.                                                                *)

PostRequest(n, id) ==
  /\ id \notin posted
  /\ posted' = posted \union {id}
  /\ validation' = [validation EXCEPT ![n] =
                      createValidation(@, id, toValidationData("RECEIVED_REGISTER"))]
  /\ UNCHANGED <<clock, requests, mempool, peers, work, submits, wire, bounds,
                 texted, presented>>

\* postSubmit() up to the copy of the list of ACTIVE peers.
PostSubmit(n, id, code) ==
  /\ id \in posted
  /\ tries < MaxSubmits
  /\ tries' = tries + 1
  /\ submits[n] = Absent
  /\ submits' = [submits EXCEPT ![n] = [id |-> id, code |-> code, todo |-> active[n],
                                        to |-> Nobody]]
  /\ presented' = presented \union
                    {[to |-> v, id |-> id, code |-> code[v], time |-> clock] : v \in Validators}
  /\ UNCHANGED <<clock, stored, peers, work, wire, crashes, faults, posted, texted>>

-----------------------------------------------------------------------------
(* Handlers.                                                               *)

\* Mutant: the expiry of the code is not looked at.
processSubmitLate(n, id, code) ==
  LET row == validation[n][id] IN
  IF row = Absent \/ row.validationStatus # "SENT"
  THEN [table |-> validation[n], ok |-> FALSE]
  ELSE IF n \in known /\ row.sendCode = code[n]
  THEN [table |-> updateProcessStep(validation[n], id, "RECEIVED_CODE"), ok |-> TRUE]
  ELSE [table |-> validation[n], ok |-> FALSE]

\* Mutant: a code is taken but once.
processSubmitOnce(n, id, code) ==
  LET row == validation[n][id] IN
  IF row = Absent \/ row.validationStatus # "SENT" \/ row.processStep # "SENT_SMS"
  THEN [table |-> validation[n], ok |-> FALSE]
  ELSE IF row.expire <= clock
  THEN [table |-> updateValidationStatus(validation[n], id, "EXPIRED"), ok |-> FALSE]
  ELSE IF n \in known /\ row.sendCode = code[n]
  THEN [table |-> updateProcessStep(validation[n], id, "RECEIVED_CODE"), ok |-> TRUE]
  ELSE [table |-> validation[n], ok |-> FALSE]

\* What processSubmit() leaves of the table, and whether it answers 200.  A
\* node that does not know its index takes no code.
processSubmit(n, id, code) ==
  LET row == validation[n][id] IN
  IF row = Absent \/ row.validationStatus # "SENT"
  THEN [table |-> validation[n], ok |-> FALSE]
  ELSE IF row.expire <= clock
  THEN [table |-> updateValidationStatus(validation[n], id, "EXPIRED"), ok |-> FALSE]
  ELSE IF n \in known /\ row.sendCode = code[n]
  THEN [table |-> updateProcessStep(validation[n], id, "RECEIVED_CODE"), ok |-> TRUE]
  ELSE [table |-> validation[n], ok |-> FALSE]

\* postBroadcast(): refused by a node that does not know the receiver (402),
\* or has the request already (800).
postBroadcast(n, id) ==
  IF n \in known /\ validation[n][id] = Absent
  THEN [table |-> createValidation(validation[n], id, toValidationData("RECEIVED_BROADCAST")),
        ok |-> TRUE]
  ELSE [table |-> validation[n], ok |-> FALSE]

postBroadcastSubmit(n, id, code) ==
  IF n \in known THEN processSubmit(n, id, code) ELSE [table |-> validation[n], ok |-> FALSE]

Handle(m) ==
  IF m.op = "broadcast" THEN postBroadcast(m.to, m.id)
  ELSE postBroadcastSubmit(m.to, m.id, m.code)

\* Mutant: the first call that is not answered with a 200 ends the walk.
ReturnStops(m, ok) ==
  IF ~m.waits
  THEN UNCHANGED <<work, submits, active>>
  ELSE /\ active' = IF ok THEN active ELSE [active EXCEPT ![m.from] = @ \ {m.to}]
       /\ IF m.op = "broadcast"
          THEN work' = [work EXCEPT ![m.from].to = Nobody] /\ UNCHANGED submits
          ELSE /\ submits' = [submits EXCEPT ![m.from].to = Nobody,
                                            ![m.from].todo = IF ok THEN @ ELSE {}]
               /\ UNCHANGED work

\* The call returns, if its caller still lives: anything but a 200 makes the
\* peer INACTIVE.
Return(m, ok) ==
  IF ~m.waits
  THEN UNCHANGED <<work, submits, active>>
  ELSE /\ active' = IF ok THEN active ELSE [active EXCEPT ![m.from] = @ \ {m.to}]
       /\ IF m.op = "broadcast"
          THEN work' = [work EXCEPT ![m.from].to = Nobody] /\ UNCHANGED submits
          ELSE submits' = [submits EXCEPT ![m.from].to = Nobody] /\ UNCHANGED work

\* A call arrives and is answered; the answer may be lost.
Deliver(m) ==
  /\ m \in wire
  /\ wire' = wire \ {m}
  /\ validation' = [validation EXCEPT ![m.to] = Handle(m).table]
  /\ \/ NoFault /\ Return(m, Handle(m).ok)
     \/ Fault /\ Return(m, FALSE)
  /\ UNCHANGED <<clock, requests, mempool, known, history>>

\* A call is lost.
Lose(m) ==
  /\ m \in wire
  /\ Fault
  /\ wire' = wire \ {m}
  /\ Return(m, FALSE)
  /\ UNCHANGED <<clock, stored, known, history>>

-----------------------------------------------------------------------------
(* The walks of a submit and of the broadcast of a request.                *)

SendSubmit(n) ==
  /\ submits[n] # Absent
  /\ submits[n].to = Nobody
  /\ \E v \in submits[n].todo :
       /\ submits' = [submits EXCEPT ![n].todo = @ \ {v}, ![n].to = v]
       /\ wire' = wire \union {[op |-> "broadcastSubmit", from |-> n, waits |-> TRUE,
                                to |-> v, id |-> submits[n].id, code |-> submits[n].code]}
  /\ UNCHANGED <<clock, stored, peers, work, bounds, history>>

\* The receiver itself comes last.
EndSubmit(n) ==
  /\ submits[n] # Absent
  /\ submits[n].to = Nobody
  /\ submits[n].todo = {}
  /\ validation' = [validation EXCEPT ![n] =
                      processSubmit(n, submits[n].id, submits[n].code).table]
  /\ submits' = [submits EXCEPT ![n] = Absent]
  /\ UNCHANGED <<clock, requests, mempool, peers, work, wire, bounds, history>>

SendBroadcast(n) ==
  /\ work[n].pc = "broadcast"
  /\ work[n].to = Nobody
  /\ \E v \in work[n].todo :
       /\ work' = [work EXCEPT ![n].todo = @ \ {v}, ![n].to = v]
       /\ wire' = wire \union {[op |-> "broadcast", from |-> n, waits |-> TRUE, to |-> v,
                                id |-> work[n].id]}
  /\ UNCHANGED <<clock, stored, peers, submits, bounds, history>>

EndBroadcast(n) ==
  /\ work[n].pc = "broadcast"
  /\ work[n].to = Nobody
  /\ work[n].todo = {}
  /\ work' = [work EXCEPT ![n].pc = "sendPhone"]
  /\ UNCHANGED <<clock, stored, peers, submits, wire, bounds, history>>

-----------------------------------------------------------------------------
(* The job of each node.                                                   *)

\* A transaction is sent, or its error is logged.
Send(n, op, id) ==
  \/ NoFault /\ mempool' = mempool \union {[op |-> op, id |-> id, from |-> n]}
  \/ Fault /\ UNCHANGED mempool

\* The job of this row is next.
Takes(n, id, step) ==
  /\ n \in known
  /\ work[n] = Idle
  /\ validation[n][id] # Absent
  /\ validation[n][id].processStep = step

Register(n, id) ==
  /\ Takes(n, id, "RECEIVED_REGISTER")
  /\ Send(n, "addRequest", id)
  /\ work' = [work EXCEPT ![n] = [pc |-> "broadcast", id |-> id, data |-> validation[n][id],
                                  todo |-> active[n], to |-> Nobody]]
  /\ UNCHANGED <<clock, validation, requests, peers, submits, wire, history>>

TakeBroadcast(n, id) ==
  /\ Takes(n, id, "RECEIVED_BROADCAST")
  /\ work' = [work EXCEPT ![n] = [pc |-> "sendPhone", id |-> id, data |-> validation[n][id],
                                  todo |-> {}, to |-> Nobody]]
  /\ UNCHANGED <<clock, stored, peers, submits, wire, bounds, history>>

\* Mutant: a code is sent whether one has been sent before or not.
SendPhoneAgain(n) ==
  /\ work[n].pc = "sendPhone"
  /\ \E code \in Codes :
       /\ texted' = texted \union {[from |-> n, id |-> work[n].id, code |-> code,
                                    expire |-> clock + CodeLifetime]}
       /\ work' = [work EXCEPT ![n].pc = "updateSendCode",
                               ![n].data.validationStatus = "SENT",
                               ![n].data.sendCode = code,
                               ![n].data.expire = clock + CodeLifetime]
  /\ UNCHANGED <<clock, stored, peers, submits, wire, bounds, posted, presented>>

\* processSendPhone() up to the SMS.
SendPhone(n) ==
  /\ work[n].pc = "sendPhone"
  /\ IF work[n].data.validationStatus = "NONE"
     THEN \E code \in Codes :
            /\ texted' = texted \union {[from |-> n, id |-> work[n].id, code |-> code,
                                         expire |-> clock + CodeLifetime]}
            /\ work' = [work EXCEPT ![n].pc = "updateSendCode",
                                    ![n].data.validationStatus = "SENT",
                                    ![n].data.sendCode = code,
                                    ![n].data.expire = clock + CodeLifetime]
     ELSE work' = [work EXCEPT ![n].pc = "markSent"] /\ UNCHANGED texted
  /\ UNCHANGED <<clock, stored, peers, submits, wire, bounds, posted, presented>>

\* Mutant: the code that is stored is drawn again.
WriteSendCodeAnew(n) ==
  /\ work[n].pc = "updateSendCode"
  /\ \E code \in Codes :
       validation' = [validation EXCEPT ![n] =
                        updateSendCode(@, work[n].id, [work[n].data EXCEPT !.sendCode = code])]
  /\ work' = [work EXCEPT ![n].pc = "markSent"]
  /\ UNCHANGED <<clock, requests, mempool, peers, submits, wire, bounds, history>>

WriteSendCode(n) ==
  /\ work[n].pc = "updateSendCode"
  /\ validation' = [validation EXCEPT ![n] = updateSendCode(@, work[n].id, work[n].data)]
  /\ work' = [work EXCEPT ![n].pc = "markSent"]
  /\ UNCHANGED <<clock, requests, mempool, peers, submits, wire, bounds, history>>

MarkSent(n) ==
  /\ work[n].pc = "markSent"
  /\ validation' = [validation EXCEPT ![n] = updateProcessStep(@, work[n].id, "SENT_SMS")]
  /\ work' = [work EXCEPT ![n] = Idle]
  /\ UNCHANGED <<clock, requests, mempool, peers, submits, wire, bounds, history>>

\* Mutant: the vote does not wait for the code.
VoteAtOnce(n, id) ==
  /\ Takes(n, id, "SENT_SMS")
  /\ Send(n, "voteRequest", id)
  /\ validation' = [validation EXCEPT ![n] = updateProcessStep(@, id, "VOTED")]
  /\ UNCHANGED <<clock, requests, peers, work, submits, wire, history>>

\* The vote and the step VOTED.
Vote(n, id) ==
  /\ Takes(n, id, "RECEIVED_CODE")
  /\ Send(n, "voteRequest", id)
  /\ validation' = [validation EXCEPT ![n] = updateProcessStep(@, id, "VOTED")]
  /\ UNCHANGED <<clock, requests, peers, work, submits, wire, history>>

\* Mutant: the answer 2 falls through to the confirmation.
CountFallsThrough(n, id) ==
  /\ Takes(n, id, "VOTED")
  /\ IF canCountVote(requests, id) = 1 THEN Send(n, "countVote", id)
     ELSE NoFault /\ UNCHANGED mempool
  /\ validation' = [validation EXCEPT ![n] =
       updateProcessStep(updateValidationStatus(@, id, "CONFIRMED"), id, "FINISHED")]
  /\ UNCHANGED <<clock, requests, peers, work, submits, wire, history>>

\* Counting is possible, or done: the row is confirmed and finished.
Count(n, id) ==
  /\ Takes(n, id, "VOTED")
  /\ canCountVote(requests, id) # 2
  /\ IF canCountVote(requests, id) = 1 THEN Send(n, "countVote", id)
     ELSE NoFault /\ UNCHANGED mempool
  /\ validation' = [validation EXCEPT ![n] =
       updateProcessStep(updateValidationStatus(@, id, "CONFIRMED"), id, "FINISHED")]
  /\ UNCHANGED <<clock, requests, peers, work, submits, wire, history>>

\* peers.check(): every node answers, but for a fault.
Check(n) ==
  \/ NoFault /\ active' = [active EXCEPT ![n] = Validators \ {n}]
  \/ Fault /\ \E v \in Validators : active' = [active EXCEPT ![n] = Validators \ {n, v}]

StartUp(n) ==
  /\ n \notin known
  /\ known' = known \union {n}
  /\ Check(n)
  /\ UNCHANGED <<clock, stored, work, submits, wire, history>>

\* The end of a period: the peers are checked, and rows removed.
EndPeriod(n) ==
  /\ n \in known
  /\ work[n] = Idle
  /\ Check(n)
  /\ validation' = [validation EXCEPT ![n] = removeExpiredValidation(@, clock)]
  /\ UNCHANGED <<clock, requests, mempool, known, work, submits, wire, history>>

-----------------------------------------------------------------------------
(* The environment.                                                        *)

Execute(tx) ==
  CASE tx.op = "addRequest"  -> addRequest(requests, tx.id)
    [] tx.op = "voteRequest" -> voteRequest(requests, tx.id, tx.from)
    [] OTHER                 -> countVote(requests, tx.id)

Mine(tx) ==
  /\ tx \in mempool
  /\ mempool' = mempool \ {tx}
  /\ requests' = Execute(tx)
  /\ UNCHANGED <<clock, validation, peers, work, submits, wire, bounds, history>>

Drop(tx) ==
  /\ tx \in mempool
  /\ Fault
  /\ mempool' = mempool \ {tx}
  /\ UNCHANGED <<clock, validation, requests, peers, work, submits, wire, history>>

Tick ==
  /\ clock < MaxClock
  /\ clock' = clock + 1
  /\ UNCHANGED <<stored, peers, work, submits, wire, bounds, history>>

\* Nobody waits for the answer to a call of a node that has died.
Orphan(m) == [m EXCEPT !.waits = FALSE]

\* A node dies and starts again.  The calls it was about to answer fail; those
\* it has made go on without it (two that are alike count as one).
Crash(n) ==
  LET calls  == {m \in wire : m.to = n /\ m.waits}
      failed(op) == {m.from : m \in {c \in calls : c.op = op}}
  IN
  /\ crashes < MaxCrashes
  /\ crashes' = crashes + 1
  /\ known' = known \ {n}
  /\ wire' = {IF m.from = n THEN Orphan(m) ELSE m : m \in {c \in wire : c.to # n}}
  /\ active' = [v \in Validators |->
                  IF v = n THEN {}
                  ELSE IF v \in {m.from : m \in calls} THEN active[v] \ {n} ELSE active[v]]
  /\ work' = [v \in Validators |->
                IF v = n THEN Idle
                ELSE IF v \in failed("broadcast") THEN [work[v] EXCEPT !.to = Nobody]
                ELSE work[v]]
  /\ submits' = [v \in Validators |->
                   IF v = n THEN Absent
                   ELSE IF v \in failed("broadcastSubmit")
                   THEN [submits[v] EXCEPT !.to = Nobody] ELSE submits[v]]
  /\ UNCHANGED <<clock, stored, tries, faults, history>>

-----------------------------------------------------------------------------
JobStep(n) ==
  \/ \E id \in RequestIds : Register(n, id) \/ TakeBroadcast(n, id)
  \/ SendBroadcast(n) \/ EndBroadcast(n)
  \/ SendPhone(n) \/ WriteSendCode(n) \/ MarkSent(n)

Node(n) ==
  \/ JobStep(n)
  \/ \E id \in RequestIds : Vote(n, id) \/ Count(n, id)
  \/ StartUp(n) \/ EndPeriod(n)
  \/ SendSubmit(n) \/ EndSubmit(n)

Clients ==
  \E n \in Validators, id \in RequestIds :
    PostRequest(n, id) \/ \E code \in CodeStrings : PostSubmit(n, id, code)

Environment ==
  \/ \E m \in wire : Deliver(m) \/ Lose(m)
  \/ \E tx \in mempool : Mine(tx) \/ Drop(tx)
  \/ Tick
  \/ \E n \in Validators : Crash(n)

Next == Clients \/ Environment \/ \E n \in Validators : Node(n)

Spec == Init /\ [][Next]_vars

-----------------------------------------------------------------------------
(* Fairness.  Each node goes on with what it has begun and reads its table *)
(* every second; a call arrives or fails, a transaction is mined or lost.  *)
(* Nothing is asked of clients.                                            *)

Fairness ==
  /\ \A n \in Validators :
       /\ WF_vars(StartUp(n))
       /\ WF_vars(JobStep(n))
       /\ WF_vars(SendSubmit(n) \/ EndSubmit(n))
       /\ \A id \in RequestIds : WF_vars(Vote(n, id)) /\ WF_vars(Count(n, id))
  /\ \A v \in Validators : WF_vars(\E m \in wire : m.to = v /\ (Deliver(m) \/ Lose(m)))
  /\ \A id \in RequestIds : WF_vars(\E tx \in mempool : tx.id = id /\ (Mine(tx) \/ Drop(tx)))

FairSpec == Spec /\ Fairness

-----------------------------------------------------------------------------
(* Properties.                                                             *)

\* The type of every variable; a node waits for at most the call of its walk.
TypeOK ==
  /\ clock \in Nat
  /\ validation \in [Validators -> Tables]
  /\ requests \in [RequestIds -> Request]
  /\ mempool \subseteq Transactions
  /\ known \subseteq Validators
  /\ active \in [Validators -> SUBSET Validators]
  /\ work \in [Validators -> Works]
  /\ submits \in [Validators -> SubmitCalls \union {Absent}]
  /\ wire \subseteq Messages
  /\ tries \in Nat
  /\ crashes \in Nat
  /\ faults \in Nat
  /\ posted \subseteq RequestIds
  /\ texted \subseteq Texts
  /\ presented \subseteq Answers

\* A client brought v the code it had texted, before that code expired.
InTime(v, id, code) ==
  \E t \in texted, a \in presented :
    /\ t.from = v /\ t.id = id /\ t.code = code
    /\ a.to = v /\ a.id = id /\ a.code = code
    /\ a.time < t.expire

\* The validators that sent the phone a code which came back in time.
Proven(id) == {v \in Validators : \E code \in Codes : InTime(v, id, code)}

\* A row: its code was sent, and a step past the code needs that very code to
\* have been brought back in time.
RowProven(n, id, row) ==
  /\ row.sendCode # NoCode => Text(n, id, row) \in texted
  /\ row.validationStatus = "NONE" => row.sendCode = NoCode
  /\ row.validationStatus = "SENT" => row.sendCode # NoCode
  /\ row.processStep \in {"RECEIVED_CODE", "VOTED", "FINISHED"} =>
       row.sendCode # NoCode /\ InTime(n, id, row.sendCode)

RowsProven ==
  \A n \in Validators, id \in RequestIds :
    validation[n][id] # Absent => RowProven(n, id, validation[n][id])

\* What a job has yet to write.
WorkTexted ==
  \A n \in Validators :
    work[n].pc # "idle" =>
      /\ work[n].id \in RequestIds
      /\ work[n].data \in ValidationData
      /\ work[n].pc = "updateSendCode" =>
           /\ work[n].data.validationStatus = "SENT"
           /\ work[n].data.sendCode \in Codes
           /\ Text(n, work[n].id, work[n].data) \in texted

\* The job is about to text a code, or to write the one it has texted.
Texting(n) ==
  \/ work[n].pc \in {"broadcast", "sendPhone"} /\ work[n].data.validationStatus = "NONE"
  \/ work[n].pc = "updateSendCode"

\* While it is, the row has no code that the job would replace, although the
\* snapshot that the job goes by was taken several awaits ago.
SnapshotHolds ==
  \A n \in Validators :
    Texting(n) /\ validation[n][work[n].id] # Absent =>
      validation[n][work[n].id].sendCode = NoCode

\* A client has brought v the code.
Brought(v, id, code) ==
  \E a \in presented : a.to = v /\ a.id = id /\ a.code = code /\ a.time <= clock

\* What a submit has yet to compare, at its receiver and at the peers.
SubmitsPresented ==
  /\ \A n \in Validators :
       submits[n] # Absent =>
         \A v \in Validators : Brought(v, submits[n].id, submits[n].code[v])
  /\ \A m \in wire :
       m.op = "broadcastSubmit" =>
         \A v \in Validators : Brought(v, m.id, m.code[v])

\* A call that is waited for is the one its caller's walk has come to.
Waiting ==
  \A m \in wire :
    m.waits =>
      IF m.op = "broadcast"
      THEN /\ work[m.from].pc = "broadcast"
           /\ work[m.from].to = m.to
           /\ work[m.from].id = m.id
      ELSE /\ submits[m.from] # Absent
           /\ submits[m.from].to = m.to
           /\ submits[m.from].id = m.id
           /\ submits[m.from].code = m.code

\* The votes, sent and executed.
VotesProven ==
  /\ \A tx \in mempool : tx.op = "voteRequest" => tx.from \in Proven(tx.id)
  /\ \A id \in RequestIds :
       /\ requests[id].voters \subseteq Proven(id)
       /\ requests[id].status = "COUNTED" => Agreed(requests, id)

\* Every row, call, transaction and vote goes back to codes that were sent and
\* came back in time, and so does whatever a node has yet to write after an
\* await.
IndInv ==
  /\ TypeOK
  /\ RowsProven
  /\ WorkTexted
  /\ SnapshotHolds
  /\ SubmitsPresented
  /\ Waiting
  /\ VotesProven

\* A phone number is linked only if every member of a quorum has texted it a
\* code that a client brought back before it expired: whichever node was
\* asked, whichever nodes missed the request or its submit, and whatever was
\* sent again after a crash.
LinkNeedsCodes ==
  \A id \in RequestIds :
    requests[id].status = "COUNTED" => \E q \in Quorums : q \subseteq Proven(id)

Late(n, id) == validation[n][id] # Absent /\ validation[n][id].expire <= clock

\* A submit that has just begun at n, in which each member of q would find its
\* code, and each is in the list that n walks or is n itself.  A row that the
\* job would send again, after a crash, does not keep the code it is given.
Covers(n, id, q) ==
  /\ submits[n] # Absent
  /\ submits[n].id = id
  /\ submits[n].to = Nobody
  /\ \A v \in q :
       /\ v \in submits[n].todo \union {n}
       /\ v \in known
       /\ work[v].id # id
       /\ validation[v][id] # Absent
       /\ validation[v][id].validationStatus = "SENT"
       /\ validation[v][id].processStep \notin {"RECEIVED_REGISTER", "RECEIVED_BROADCAST"}
       /\ validation[v][id].sendCode = submits[n].code[v]

\* Once a registered request is submitted to a node that walks to a quorum,
\* the link is made, or one of the codes expires: although the other nodes
\* may refuse the submit, the same nodes may walk to each other for another,
\* a vote sent before may have been lost, and rows voted for are reopened.
GoodSubmitLinks ==
  \A n \in Validators, id \in RequestIds, q \in Quorums :
    /\ Covers(n, id, q)
    /\ requests[id].status = "REQUESTED"
    /\ faults = MaxFaults
    /\ crashes = MaxCrashes
    ~> requests[id].status = "COUNTED" \/ \E v \in q : Late(v, id)

=============================================================================
