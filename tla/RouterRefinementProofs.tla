----------------------- MODULE RouterRefinementProofs -----------------------
(***************************************************************************)
(* Router implements Request, for every value of its constants: the        *)
(* initial states map to the initial state, and every step to a step of    *)
(* the promise or to none.                                                 *)
(***************************************************************************)
EXTENDS RouterRefinement, RouterProofs

mapped == <<TextsNow, presented, BallotsNow, VotersNow, ClosedNow>>

Kept == [Promise!Next]_mapped

-----------------------------------------------------------------------------
(* What the promise sees of a state.                                       *)

\* A row is known to the promise, texted once it has its code, and late once
\* that code has expired.
LEMMA SeenRow ==
  ASSUME TypeOK, NEW id \in RequestIds
  PROVE  /\ Promise!Known(id) <=> validation[id] # Absent
         /\ Promise!Texted(id) <=> validation[id] # Absent /\ validation[id].sendCode # NoCode
         /\ Promise!Late(id) <=> Expired(id)
         /\ Promise!Proven(id) <=>
              /\ validation[id] # Absent
              /\ validation[id].sendCode # NoCode
              /\ Mode # "NoSMSNoCode" => <<id, validation[id].sendCode>> \in presented
<1>1. TextsNow[id] = TextOf(id)
  BY DEF TextsNow
<1>2. validation[id] # Absent =>
        /\ TextOf(id) # Absent
        /\ TextOf(id).code = validation[id].sendCode
        /\ TextOf(id).late = (validation[id].sendCode # NoCode /\ validation[id].expire <= clock)
  <2> DEFINE late == validation[id].sendCode # NoCode /\ validation[id].expire <= clock
  <2>1. SUFFICES ASSUME validation[id] # Absent
                 PROVE  TextOf(id) # Absent /\ TextOf(id).code = validation[id].sendCode
                        /\ TextOf(id).late = late
    OBVIOUS
  <2>2. TextOf(id) = [code |-> validation[id].sendCode, late |-> late]
    BY <2>1 DEF TextOf
  <2>3. validation[id].sendCode \in Codes \union {NoCode}
    BY <2>1 DEF TypeOK, Tables, ValidationData
  <2>4. late \in BOOLEAN
    OBVIOUS
  <2> HIDE DEF late
  <2> QED
    BY <2>2, <2>3, <2>4, AbsentTextAssumption
<1>3. Promise!Known(id) <=> validation[id] # Absent
  BY <1>1, <1>2 DEF Promise!Known, TextOf
<1>4. Promise!Texted(id) <=> validation[id] # Absent /\ validation[id].sendCode # NoCode
  BY <1>1, <1>2, <1>3 DEF Promise!Texted
<1>5. Promise!Late(id) <=> Expired(id)
  BY <1>1, <1>2, <1>4 DEF Promise!Late, Expired
<1> QED
  BY <1>1, <1>2, <1>3, <1>4, <1>5 DEF Promise!Proven

\* The promise sees the votes of the contract.
LEMMA SeenVotes ==
  ASSUME NEW id \in RequestIds
  PROVE  Promise!Agreed(id) <=> Agreed(requests, id)
BY DEF Promise!Agreed, VotersNow, Agreed

\* A row that waits for no other code has been proven.
LEMMA FinishedIsProven ==
  ASSUME TypeOK, IndInv, NEW id \in ClosedNow
  PROVE  Promise!Proven(id)
<1>1. /\ id \in RequestIds
      /\ validation[id] # Absent
      /\ validation[id].processStep = "FINISHED"
  BY DEF ClosedNow, Step
<1>2. validation[id].sendCode # NoCode
  BY <1>1 DEF IndInv, RowInv
<1>3. Mode # "NoSMSNoCode" => <<id, validation[id].sendCode>> \in presented
  BY <1>1 DEF IndInv, CodeProven, Step
<1> QED
  BY <1>1, <1>2, <1>3, SeenRow

\* A job whose snapshot says that its code was received has been proven.
LEMMA CurrentIsProven ==
  ASSUME TypeOK, NEW job \in Jobs, Current(job),
         job.data.processStep \in {"RECEIVED_CODE", "VOTED"}
  PROVE  Promise!Proven(job.requestId)
BY SeenRow DEF Current, Proven, Jobs

-----------------------------------------------------------------------------
(* What it sees of the statements on the table.                            *)

LEMMA SameSight ==
  /\ UNCHANGED <<validation, clock>> => UNCHANGED <<TextsNow, ClosedNow>>
  /\ UNCHANGED requests => UNCHANGED VotersNow
  /\ UNCHANGED mempool => UNCHANGED BallotsNow
BY DEF TextsNow, TextOf, ClosedNow, Step, VotersNow, BallotsNow

\* To write a step of a row may close it or open it again, and no more.
LEMMA SeenStep ==
  ASSUME TypeOK, NEW id \in RequestIds, NEW step \in ProcessStep,
         validation' = updateProcessStep(validation, id, step), UNCHANGED clock
  PROVE  /\ UNCHANGED TextsNow
         /\ ClosedNow' = IF step = "FINISHED" /\ validation[id] # Absent
                         THEN ClosedNow \union {id} ELSE ClosedNow \ {id}
<1>1. /\ \A i \in RequestIds : (validation'[i] = Absent) <=> (validation[i] = Absent)
      /\ \A i \in RequestIds \ {id} : validation'[i] = validation[i]
      /\ validation[id] # Absent =>
           /\ validation'[id].sendCode = validation[id].sendCode
           /\ validation'[id].expire = validation[id].expire
           /\ validation'[id].processStep = step
  BY UpdateStep DEF TypeOK
<1>2. \A i \in RequestIds : TextOf(i)' = TextOf(i)
  BY <1>1 DEF TextOf
<1>3. \A i \in RequestIds \ {id} : Step(i)' = Step(i)
  BY <1>1 DEF Step
<1>4. Step(id)' = IF validation[id] = Absent THEN "NONE" ELSE step
  BY <1>1 DEF Step
<1> QED
  BY <1>2, <1>3, <1>4 DEF TextsNow, ClosedNow

\* To write a status changes nothing that it sees.
LEMMA SeenStatus ==
  ASSUME TypeOK, NEW id \in RequestIds, NEW status \in PhoneValidationStatus,
         validation' = updateValidationStatus(validation, id, status), UNCHANGED clock
  PROVE  UNCHANGED <<TextsNow, ClosedNow>>
<1>1. /\ \A i \in RequestIds : (validation'[i] = Absent) <=> (validation[i] = Absent)
      /\ \A i \in RequestIds \ {id} : validation'[i] = validation[i]
      /\ validation[id] # Absent =>
           /\ validation'[id].sendCode = validation[id].sendCode
           /\ validation'[id].expire = validation[id].expire
           /\ validation'[id].processStep = validation[id].processStep
  BY UpdateStatus DEF TypeOK
<1>2. \A i \in RequestIds : TextOf(i)' = TextOf(i) /\ Step(i)' = Step(i)
  BY <1>1 DEF TextOf, Step
<1> QED
  BY <1>2 DEF TextsNow, ClosedNow

\* A new row is a new request.
LEMMA SeenInsert ==
  ASSUME TypeOK, NEW id \in RequestIds, InsertRow(id), UNCHANGED <<clock, presented, chain>>
  PROVE  Promise!Store(id)
<1>1. PICK step \in {"RECEIVED_REGISTER", "RECEIVED_BROADCAST"} :
        validation' = createValidation(validation, id, toValidationData(step))
  BY DEF InsertRow
<1>2. step \in ProcessStep
  BY DEF ProcessStep
<1>3. /\ \A i \in RequestIds \ {id} : validation'[i] = validation[i]
      /\ validation'[id] = toValidationData(step)
  BY <1>1 DEF createValidation, TypeOK, Tables
<1>4. TextOf(id)' = Promise!Untexted
  BY <1>2, <1>3, NewRow DEF TextOf, Promise!Untexted
<1>5. Step(id)' # "FINISHED" /\ Step(id) # "FINISHED"
  BY <1>2, <1>3, NewRow DEF Step, InsertRow
<1>6. \A i \in RequestIds \ {id} : TextOf(i)' = TextOf(i) /\ Step(i)' = Step(i)
  BY <1>3 DEF TextOf, Step
<1>7. TextsNow' = [TextsNow EXCEPT ![id] = Promise!Untexted]
  BY <1>4, <1>6 DEF TextsNow
<1>8. UNCHANGED ClosedNow
  BY <1>5, <1>6 DEF ClosedNow
<1>9. UNCHANGED <<VotersNow, BallotsNow>>
  BY SameSight DEF chain
<1>10. ~Promise!Known(id)
  BY SeenRow DEF InsertRow
<1> QED
  BY <1>7, <1>8, <1>9, <1>10 DEF Promise!Store

-----------------------------------------------------------------------------
(* The steps.                                                              *)

LEMMA KeptIfSame ==
  ASSUME UNCHANGED <<validation, clock, requests, mempool, presented>>
  PROVE  Kept
BY SameSight DEF Kept, mapped

\* A step of a row that is not its last may open it for another look.
LEMMA KeptByStep ==
  ASSUME TypeOK, IndInv, NEW id \in RequestIds, NEW step \in ProcessStep \ {"FINISHED"},
         validation' = updateProcessStep(validation, id, step),
         UNCHANGED <<clock, requests, mempool, presented>>
  PROVE  Kept
<1>1. UNCHANGED TextsNow /\ ClosedNow' = ClosedNow \ {id}
  BY SeenStep
<1>2. UNCHANGED <<VotersNow, BallotsNow>>
  BY SameSight
<1>3. CASE id \in ClosedNow
  <2>1. Promise!Reopen(id)
    BY <1>1, <1>2, <1>3, FinishedIsProven DEF Promise!Reopen
  <2> QED
    BY <2>1 DEF Kept, Promise!Next
<1>4. CASE id \notin ClosedNow
  <2>1. UNCHANGED ClosedNow
    BY <1>1, <1>4
  <2> QED
    BY <1>1, <1>2, <2>1 DEF Kept, mapped
<1> QED
  BY <1>3, <1>4

LEMMA KeptByHandlers ==
  ASSUME TypeOK, IndInv, Handlers
  PROVE  Kept
<1>1. ASSUME NEW id \in RequestIds, PostRequest(id) \/ PostBroadcast(id) PROVE Kept
  <2>1. InsertRow(id) /\ UNCHANGED <<clock, presented, chain>>
    BY <1>1 DEF PostRequest, PostBroadcast, InsertRow
  <2>2. Promise!Store(id)
    BY <2>1, SeenInsert
  <2> QED
    BY <2>2 DEF Kept, Promise!Next
<1>2. ASSUME NEW id \in RequestIds, TimerFires(id) PROVE Kept
  BY <1>2, KeptByStep DEF TimerFires, ProcessStep, chain
<1>3. ASSUME NEW s \in Submits, NEW id \in RequestIds, NEW code \in CodeStrings,
             BeginSubmit(s, id, code)
      PROVE  Kept
  <2> DEFINE brought == {code[i] : i \in Indexes}
  <2>1. UNCHANGED <<TextsNow, ClosedNow, VotersNow, BallotsNow>>
    BY <1>3, SameSight DEF BeginSubmit, chain
  <2>2. CASE Expired(id)
    BY <1>3, <2>1, <2>2 DEF BeginSubmit, Kept, mapped
  <2>3. CASE ~Expired(id)
    <3>1. presented' = presented \union {<<id, c>> : c \in brought}
      BY <1>3, <2>3 DEF BeginSubmit
    <3>2. Promise!Present(id, brought)
      BY <2>1, <2>3, <3>1, SeenRow DEF Promise!Present
    <3>3. brought \in SUBSET (Codes \union {NoCode})
      BY RouterAssumption
    <3> HIDE DEF brought
    <3> QED
      BY <3>2, <3>3 DEF Kept, Promise!Next
  <2> QED
    BY <2>2, <2>3
<1>4. ASSUME NEW s \in Submits, ProcessSubmit(s) PROVE Kept
  <2>1. CASE RefuseSubmit(s) \/ ReadValidation(s) \/ CheckInTime(s) \/ CheckTooLate(s)
    BY <2>1, KeptIfSame DEF RefuseSubmit, ReadValidation, CheckInTime, CheckTooLate, chain
  <2>2. CASE AcceptCode(s)
    <3>1. submits[s].id \in RequestIds
      BY <2>2 DEF AcceptCode, TypeOK, SubmitCalls
    <3> QED
      BY <2>2, <3>1, KeptByStep DEF AcceptCode, ProcessStep, chain
  <2>3. CASE WriteExpired(s)
    <3>1. submits[s].id \in RequestIds
      BY <2>3 DEF WriteExpired, TypeOK, SubmitCalls
    <3>2. UNCHANGED <<TextsNow, ClosedNow>>
      BY <2>3, <3>1, SeenStatus DEF WriteExpired, PhoneValidationStatus
    <3> QED
      BY <2>3, <3>2, SameSight DEF WriteExpired, chain, Kept, mapped
  <2> QED
    BY <1>4, <2>1, <2>2, <2>3 DEF ProcessSubmit
<1> QED
  BY <1>1, <1>2, <1>3, <1>4 DEF Handlers, PostSubmit, PostBroadcastSubmit

\* A transaction that is no vote is nothing to the promise.
LEMMA OtherTransaction ==
  ASSUME TypeOK, work.pc \in JobPC, SendTransaction("addRequest") \/ SendTransaction("countVote"),
         UNCHANGED <<validation, clock, presented>>
  PROVE  Kept
<1>1. UNCHANGED BallotsNow
  BY DEF SendTransaction, BallotsNow
<1> QED
  BY <1>1, SameSight DEF SendTransaction, Kept, mapped

LEMMA KeptByVote ==
  ASSUME TypeOK, IndInv, VoteAgreement
  PROVE  Kept
<1> DEFINE id == work.job.requestId
<1>1. /\ work.job \in Jobs /\ id \in RequestIds
      /\ Current(work.job)
      /\ work.job.data.processStep = "RECEIVED_CODE"
  BY DEF VoteAgreement, TypeOK, Jobs, JobPC, VotePC, IndInv, SnapshotInv, PassInv
<1>2. Promise!Proven(id)
  BY <1>1, CurrentIsProven
<1>3. UNCHANGED <<TextsNow, ClosedNow, VotersNow, presented>>
  BY SameSight DEF VoteAgreement, SendTransaction
<1>4. BallotsNow' = BallotsNow \/ BallotsNow' = BallotsNow \union {id}
  BY <1>1 DEF VoteAgreement, SendTransaction, BallotsNow
<1>5. BallotsNow' = BallotsNow \union {id} => Promise!Vote(id)
  BY <1>2, <1>3 DEF Promise!Vote
<1> QED
  BY <1>1, <1>3, <1>4, <1>5 DEF Kept, mapped, Promise!Next

LEMMA KeptByFinish ==
  ASSUME TypeOK, IndInv, Finish
  PROVE  Kept
<1> DEFINE id == work.job.requestId
<1>1. /\ work.job \in Jobs /\ id \in RequestIds
      /\ Current(work.job)
      /\ work.job.data.processStep = "VOTED"
      /\ Agreed(requests, id)
  BY DEF Finish, TypeOK, Jobs, JobPC, CountPC, IndInv, SnapshotInv, PassInv, AgreementInv
<1>2. Promise!Proven(id) /\ Promise!Agreed(id)
  BY <1>1, CurrentIsProven, SeenVotes
<1>3. UNCHANGED TextsNow /\ ClosedNow' = ClosedNow \union {id}
  BY <1>1, SeenStep DEF Finish, ProcessStep, Current
<1>4. UNCHANGED <<VotersNow, BallotsNow, presented>>
  BY SameSight DEF Finish, chain
<1>5. Promise!Close(id)
  BY <1>2, <1>3, <1>4 DEF Promise!Close
<1> QED
  BY <1>1, <1>5 DEF Kept, Promise!Next

LEMMA KeptByCode ==
  ASSUME TypeOK, IndInv, WriteSendCode
  PROVE  Kept
<1>0. PICK id \in RequestIds : id = work.job.requestId
  BY DEF WriteSendCode, TypeOK, Jobs, JobPC, PhonePC
<1> DEFINE code == work.job.data.sendCode
           late == work.job.data.expire <= clock
           text == [code |-> code, late |-> late]
<1>1. /\ id \in RequestIds /\ work.job.data \in ValidationData
      /\ validation[id] # Absent /\ validation[id].sendCode = NoCode
      /\ code # NoCode
  BY <1>0 DEF WriteSendCode, TypeOK, Jobs, JobPC, PhonePC, IndInv, SnapshotInv
<1>2. code \in Codes /\ late \in BOOLEAN
  BY <1>1 DEF ValidationData
<1>3. /\ \A i \in RequestIds \ {id} : validation'[i] = validation[i]
      /\ validation'[id] # Absent
      /\ validation'[id].sendCode = code
      /\ validation'[id].expire = work.job.data.expire
      /\ validation'[id].processStep = validation[id].processStep
  BY <1>0, <1>1, UpdateCode, AbsentAssumption DEF WriteSendCode, TypeOK
<1>4. UNCHANGED <<clock, requests, mempool, presented>>
  BY DEF WriteSendCode, chain
<1>5. TextOf(id)' = text
  <2> DEFINE lateNow == validation'[id].sendCode # NoCode /\ validation'[id].expire <= clock'
  <2>1. TextOf(id)' = [code |-> validation'[id].sendCode, late |-> lateNow]
    BY <1>3 DEF TextOf
  <2>2. lateNow <=> late
    BY <1>1, <1>3, <1>4
  <2> HIDE DEF lateNow, late
  <2> QED
    BY <1>3, <2>1, <2>2
<1>6. \A i \in RequestIds \ {id} : TextOf(i)' = TextOf(i) /\ Step(i)' = Step(i)
  BY <1>3, <1>4 DEF TextOf, Step
<1>7. TextsNow' = [TextsNow EXCEPT ![id] = text]
  <2> HIDE DEF text
  <2> QED
    BY <1>1, <1>5, <1>6 DEF TextsNow
<1>8. UNCHANGED ClosedNow
  BY <1>1, <1>3, <1>6 DEF ClosedNow, Step
<1>9. Promise!Known(id) /\ ~Promise!Texted(id)
  BY <1>1, SeenRow
<1>10. Promise!SendCode(id, code, late)
  BY <1>4, <1>7, <1>8, <1>9, SameSight DEF Promise!SendCode
<1> HIDE DEF code, late, text
<1> QED
  BY <1>1, <1>2, <1>10 DEF Kept, Promise!Next

LEMMA KeptByRemoval ==
  ASSUME TypeOK, RemoveExpired
  PROVE  Kept
<1> DEFINE ids == ExpiredValidations(validation, clock)
<1>1. ids \in SUBSET RequestIds
  BY DEF ExpiredValidations
<1>2. \A id \in ids : Promise!Known(id) /\ (Promise!Texted(id) => Promise!Late(id))
  <2>1. SUFFICES ASSUME NEW id \in ids
                 PROVE  Promise!Known(id) /\ (Promise!Texted(id) => Promise!Late(id))
    OBVIOUS
  <2>2. id \in RequestIds /\ validation[id] # Absent /\ validation[id].expire + Retention < clock
    BY DEF ExpiredValidations
  <2>3. validation[id].expire <= clock
    BY <2>2, StorageAssumption DEF TypeOK, Tables, ValidationData
  <2> QED
    BY <2>2, <2>3, SeenRow DEF Expired
<1>3. validation' = [id \in RequestIds |-> IF id \in ids THEN Absent ELSE validation[id]]
      /\ UNCHANGED <<clock, requests, mempool, presented>>
  BY DEF RemoveExpired, removeExpiredValidation, chain
<1> HIDE DEF ids
<1>4. \A id \in RequestIds :
        /\ TextOf(id)' = IF id \in ids THEN Absent ELSE TextOf(id)
        /\ Step(id)' = IF id \in ids THEN "NONE" ELSE Step(id)
  BY <1>3 DEF TextOf, Step
<1>5. TextsNow' = [id \in RequestIds |-> IF id \in ids THEN Absent ELSE TextsNow[id]]
  BY <1>4 DEF TextsNow
<1>6. ClosedNow' = ClosedNow \ ids
  BY <1>4 DEF ClosedNow
<1>7. Promise!Forget(ids)
  BY <1>2, <1>3, <1>5, <1>6, SameSight DEF Promise!Forget
<1> QED
  BY <1>1, <1>7 DEF Kept, Promise!Next

LEMMA KeptByOnWork ==
  ASSUME TypeOK, IndInv, OnWork
  PROVE  Kept
<1> USE DEF JobPC, PhonePC, VotePC, CountPC
<1>1. ASSUME NEW answer \in Registries, Initialize(answer) \/ Refresh(answer) PROVE Kept
  BY <1>1, KeptIfSame DEF Initialize, Refresh, chain
<1>2. ASSUME NEW job \in work.jobs, TakeJob(job) PROVE Kept
  BY <1>2, KeptIfSame DEF TakeJob, chain
<1>3. CASE \/ WaitForStartup \/ BeginWork \/ SelectJobs \/ SendPhone \/ SkipSendPhone
           \/ CanCountVote \/ EndPass \/ BeginPeriod \/ AbortWork
  BY <1>3, KeptIfSame
  DEF WaitForStartup, BeginWork, SelectJobs, SendPhone, SkipSendPhone, CanCountVote, EndPass,
      BeginPeriod, AbortWork, chain
<1>4. CASE AddRequest \/ CountVote
  BY <1>4, OtherTransaction DEF AddRequest, CountVote
<1>5. MarkSent \/ MarkVoted \/ Confirm => work.job.requestId \in RequestIds
  BY DEF MarkSent, MarkVoted, Confirm, TypeOK, Jobs
<1>6. CASE MarkSent
  BY <1>5, <1>6, KeptByStep DEF MarkSent, ProcessStep, chain
<1>7. CASE MarkVoted
  BY <1>5, <1>7, KeptByStep DEF MarkVoted, ProcessStep, chain
<1>8. CASE Confirm
  <2>1. UNCHANGED <<TextsNow, ClosedNow>>
    BY <1>5, <1>8, SeenStatus DEF Confirm, PhoneValidationStatus
  <2> QED
    BY <1>8, <2>1, SameSight DEF Confirm, chain, Kept, mapped
<1> QED
  BY <1>1, <1>2, <1>3, <1>4, <1>6, <1>7, <1>8, KeptByVote, KeptByFinish, KeptByCode, KeptByRemoval
  DEF OnWork

-----------------------------------------------------------------------------
(* The environment.                                                        *)

\* What a transaction of this node does to the votes, when it is mined.
LEMMA SeenExecution ==
  ASSUME TypeOK, NEW id \in RequestIds, NEW v
  PROVE  /\ requests' = addRequest(requests, id) => UNCHANGED VotersNow
         /\ requests' = countVote(requests, id) => UNCHANGED VotersNow
         /\ requests' = voteRequest(requests, id, v) =>
              VotersNow' \in {VotersNow, [VotersNow EXCEPT ![id] = @ \union {v}]}
<1> DEFINE Same(new, i) == new[i].voters = requests[i].voters
<1>1. ASSUME NEW i \in RequestIds
      PROVE  Same(addRequest(requests, id), i) /\ Same(countVote(requests, id), i)
  BY DEF addRequest, countVote, TypeOK, Request
<1>2. \/ voteRequest(requests, id, v) = requests
      \/ voteRequest(requests, id, v) = [requests EXCEPT ![id].voters = @ \union {v}]
  BY DEF voteRequest
<1>3. ASSUME requests' = [requests EXCEPT ![id].voters = @ \union {v}]
      PROVE  VotersNow' = [VotersNow EXCEPT ![id] = @ \union {v}]
  <2>1. \A i \in RequestIds :
          requests'[i].voters = IF i = id THEN requests[i].voters \union {v}
                                ELSE requests[i].voters
    BY <1>3 DEF TypeOK, Request
  <2> QED
    BY <2>1 DEF VotersNow
<1>4. requests' = addRequest(requests, id) \/ requests' = countVote(requests, id)
        => UNCHANGED VotersNow
  BY <1>1 DEF VotersNow
<1> QED
  BY <1>2, <1>3, <1>4, SameSight

LEMMA KeptByDelivery ==
  ASSUME TypeOK, NEW tx \in mempool, Mine(tx) \/ Drop(tx)
  PROVE  Kept
<1>1. tx \in Transactions /\ tx.id \in RequestIds
  BY DEF TypeOK, Transactions
<1>2. UNCHANGED <<TextsNow, ClosedNow, presented>>
  BY SameSight DEF Mine, Drop
<1>3. mempool' = mempool \ {tx}
  BY DEF Mine, Drop
<1>4. CASE tx.op = "voteRequest"
  <2>1. tx = [op |-> "voteRequest", id |-> tx.id]
    BY <1>1, <1>4 DEF Transactions
  <2>2. tx.id \in BallotsNow /\ BallotsNow' = BallotsNow \ {tx.id}
    BY <1>1, <1>3, <2>1 DEF BallotsNow
  <2>3. requests' = requests \/ requests' = voteRequest(requests, tx.id, Me)
    BY <1>4 DEF Mine, Drop, Execute
  <2>4. VotersNow' \in {VotersNow, [VotersNow EXCEPT ![tx.id] = @ \union {Me}]}
    BY <1>1, <2>3, SeenExecution, SameSight
  <2>5. Promise!Deliver(tx.id)
    BY <1>2, <2>2, <2>4 DEF Promise!Deliver
  <2> QED
    BY <1>1, <2>5 DEF Kept, Promise!Next
<1>5. CASE tx.op # "voteRequest"
  <2>1. UNCHANGED BallotsNow
    BY <1>3, <1>5 DEF BallotsNow
  <2>2. UNCHANGED VotersNow
    BY <1>1, <1>5, SeenExecution, SameSight DEF Mine, Drop, Execute, Transactions
  <2> QED
    BY <1>2, <2>1, <2>2 DEF Kept, mapped
<1> QED
  BY <1>4, <1>5

LEMMA KeptByOthers ==
  ASSUME TypeOK, NEW id \in RequestIds, NEW v \in Validators,
         OtherAdd(id) \/ OtherCount(id) \/ OtherVote(v, id)
  PROVE  Kept
<1>1. UNCHANGED <<TextsNow, ClosedNow, BallotsNow, presented>>
  BY SameSight DEF OtherAdd, OtherCount, OtherVote, ByOthers
<1>2. UNCHANGED VotersNow \/ (v # Me /\ VotersNow' = [VotersNow EXCEPT ![id] = @ \union {v}])
  BY SeenExecution DEF OtherAdd, OtherCount, OtherVote, ByOthers
<1>3. v # Me /\ VotersNow' = [VotersNow EXCEPT ![id] = @ \union {v}]
        => Promise!VoteByOther(id, v)
  BY <1>1 DEF Promise!VoteByOther
<1> QED
  BY <1>1, <1>2, <1>3 DEF Kept, mapped, Promise!Next

LEMMA KeptByTime ==
  ASSUME TypeOK, Tick
  PROVE  Kept
<1> DEFINE ids == {id \in RequestIds :
                     /\ validation[id] # Absent
                     /\ validation[id].sendCode # NoCode
                     /\ validation[id].expire <= clock + 1}
<1>1. ids \in SUBSET RequestIds /\ \A id \in ids : Promise!Texted(id)
  BY SeenRow
<1>2. clock' = clock + 1 /\ UNCHANGED <<validation, requests, mempool, presented>>
  BY DEF Tick, chain
<1>3. ASSUME NEW id \in RequestIds
      PROVE  TextOf(id)' = IF id \in ids THEN [TextOf(id) EXCEPT !.late = TRUE] ELSE TextOf(id)
  <2>1. CASE validation[id] = Absent
    BY <1>2, <2>1 DEF TextOf
  <2>2. CASE validation[id] # Absent
    <3>1. validation[id].expire \in Nat /\ clock \in Nat
      BY <2>2 DEF TypeOK, Tables, ValidationData
    <3>2. CASE id \in ids
      BY <1>2, <2>2, <3>1, <3>2 DEF TextOf
    <3>3. CASE id \notin ids
      BY <1>2, <2>2, <3>1, <3>3 DEF TextOf
    <3> QED
      BY <3>2, <3>3
  <2> QED
    BY <2>1, <2>2
<1> HIDE DEF ids
<1>4. TextsNow' = [id \in RequestIds |->
                     IF id \in ids THEN [TextsNow[id] EXCEPT !.late = TRUE] ELSE TextsNow[id]]
  BY <1>3 DEF TextsNow
<1>5. UNCHANGED <<ClosedNow, VotersNow, BallotsNow>>
  BY <1>2, SameSight DEF ClosedNow, Step
<1>6. Promise!Lapse(ids)
  BY <1>1, <1>2, <1>4, <1>5 DEF Promise!Lapse
<1> QED
  BY <1>1, <1>6 DEF Kept, Promise!Next

LEMMA KeptByEnvironment ==
  ASSUME TypeOK, Environment
  PROVE  Kept
<1>1. CASE Crash
  BY <1>1, KeptIfSame DEF Crash, chain
<1>2. Me \in Validators
  BY RouterAssumption
<1> QED
  BY <1>1, <1>2, KeptByDelivery, KeptByOthers, KeptByTime DEF Environment

\* Every step of a node, whatever is interleaved with it or cut short by a
\* crash, is a step of the promise or is not seen by it.
LEMMA StepKeepsPromise == TypeOK /\ IndInv /\ [Next]_vars => Kept
<1> SUFFICES ASSUME TypeOK, IndInv, [Next]_vars PROVE Kept
  OBVIOUS
<1>1. CASE UNCHANGED vars
  BY <1>1, KeptIfSame DEF vars, chain
<1> QED
  BY <1>1, KeptByHandlers, KeptByOnWork, KeptByEnvironment DEF Next

LEMMA InitKeepsPromise == Init => Promise!Init
<1> SUFFICES ASSUME Init PROVE Promise!Init
  OBVIOUS
<1>1. \A id \in RequestIds : TextOf(id) = Absent /\ Step(id) = "NONE"
  BY DEF Init, createTables, TextOf, Step
<1>2. \A id \in RequestIds : requests[id].voters = {}
  BY DEF Init
<1> QED
  BY <1>1, <1>2
  DEF Init, Promise!Init, TextsNow, ClosedNow, BallotsNow, VotersNow

\* A validator node keeps the promise of Request: one code per request, a vote
\* or a closing only on that code brought in time, whatever its passes, its
\* awaits and its restarts do.
THEOREM RouterKeepsPromise == Spec => KeepsPromise
<1>1. TypeOK /\ IndInv /\ [Next]_vars => [Promise!Next]_(Promise!request)
  BY StepKeepsPromise DEF Kept, mapped, Promise!request
<1>2. Spec => []TypeOK /\ []IndInv
  BY TypeCorrect, Invariance
<1> QED
  BY <1>1, <1>2, InitKeepsPromise, PTL DEF Spec, KeepsPromise, Promise!Spec

=============================================================================
