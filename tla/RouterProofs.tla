---------------------------- MODULE RouterProofs ----------------------------
(***************************************************************************)
(* Proofs about Router, for every value of its constants: the types, and   *)
(* the safety properties through the inductive invariant of RouterInv.     *)
(***************************************************************************)
EXTENDS RouterInv, StorageProofs, TLAPS

-----------------------------------------------------------------------------
(* Types.                                                                  *)

LEMMA InitialType == Init => TypeOK
<1> SUFFICES ASSUME Init PROVE TypeOK
  OBVIOUS
<1>1. createTables \in Tables
  BY DEF createTables, Tables
<1>2. work \in Works
  BY DEF Init, Idle, Works, PassPC
<1> QED
  BY <1>1, <1>2, RouterAssumption
  DEF Init, Idle, TypeOK, Request, RequestStatus, JobPC, PhonePC, VotePC, CountPC

\* Every step keeps every variable in its type.
LEMMA NextType == TypeOK /\ [Next]_vars => TypeOK'
<1> SUFFICES ASSUME TypeOK, [Next]_vars PROVE TypeOK'
  OBVIOUS
<1> USE DEF chain, node
<1>1. ASSUME NEW id \in RequestIds, PostRequest(id) PROVE TypeOK'
  BY <1>1, NewRow DEF PostRequest, TypeOK, createValidation, Tables, ProcessStep
<1>2. ASSUME NEW id \in RequestIds, PostBroadcast(id) PROVE TypeOK'
  BY <1>2, NewRow DEF PostBroadcast, TypeOK, createValidation, Tables, ProcessStep
<1>3. ASSUME NEW id \in RequestIds, TimerFires(id) PROVE TypeOK'
  <2>1. validation' \in Tables
    BY <1>3, UpdateStep DEF TimerFires, TypeOK, ProcessStep
  <2> QED
    BY <1>3, <2>1 DEF TimerFires, TypeOK
<1>4. ASSUME NEW s \in Submits, NEW id \in RequestIds, NEW code \in CodeStrings,
             BeginSubmit(s, id, code)
      PROVE  TypeOK'
  <2>1. \A i \in Indexes : code[i] \in Codes \union {NoCode}
    BY RouterAssumption
  <2>2. presented' \subseteq RequestIds \X (Codes \union {NoCode})
    BY <1>4, <2>1 DEF BeginSubmit, TypeOK
  <2>3. submits' \in [Submits -> SubmitCalls \union {Absent}]
    BY <1>4 DEF BeginSubmit, TypeOK, SubmitCalls
  <2> QED
    BY <1>4, <2>2, <2>3 DEF BeginSubmit, TypeOK
<1>5. ASSUME NEW s \in Submits, ProcessSubmit(s) PROVE TypeOK'
  <2>1. CASE RefuseSubmit(s)
    BY <2>1 DEF RefuseSubmit, TypeOK
  <2>2. CASE ReadValidation(s)
    <3>1. /\ submits[s].id \in RequestIds
          /\ submits[s].code \in CodeStrings
      BY <2>2 DEF ReadValidation, TypeOK, SubmitCalls
    <3>2. validation[submits[s].id] \in ValidationData
      BY <2>2, <3>1 DEF ReadValidation, Sent, TypeOK, Tables
    <3>3. submits' \in [Submits -> SubmitCalls \union {Absent}]
      BY <2>2, <3>1, <3>2 DEF ReadValidation, TypeOK, SubmitCalls
    <3> QED
      BY <2>2, <3>3 DEF ReadValidation, TypeOK
  <2>3. CASE CheckInTime(s)
    <3>1. submits[s].id \in RequestIds
      BY <2>3 DEF CheckInTime, TypeOK, SubmitCalls
    <3>2. submits' \in [Submits -> SubmitCalls \union {Absent}]
      BY <2>3, <3>1 DEF CheckInTime, TypeOK, SubmitCalls
    <3> QED
      BY <2>3, <3>2 DEF CheckInTime, TypeOK
  <2>4. CASE CheckTooLate(s)
    <3>1. submits[s].id \in RequestIds
      BY <2>4 DEF CheckTooLate, TypeOK, SubmitCalls
    <3>2. submits' \in [Submits -> SubmitCalls \union {Absent}]
      BY <2>4, <3>1 DEF CheckTooLate, TypeOK, SubmitCalls
    <3> QED
      BY <2>4, <3>2 DEF CheckTooLate, TypeOK
  <2>5. CASE AcceptCode(s)
    <3>1. submits[s].id \in RequestIds
      BY <2>5 DEF AcceptCode, TypeOK, SubmitCalls
    <3>2. validation' \in Tables
      BY <2>5, <3>1, UpdateStep DEF AcceptCode, TypeOK, ProcessStep
    <3> QED
      BY <2>5, <3>2 DEF AcceptCode, TypeOK
  <2>6. CASE WriteExpired(s)
    <3>1. submits[s].id \in RequestIds
      BY <2>6 DEF WriteExpired, TypeOK, SubmitCalls
    <3>2. validation' \in Tables
      BY <2>6, <3>1, UpdateStatus DEF WriteExpired, TypeOK, PhoneValidationStatus
    <3> QED
      BY <2>6, <3>2 DEF WriteExpired, TypeOK
  <2> QED
    BY <1>5, <2>1, <2>2, <2>3, <2>4, <2>5, <2>6 DEF ProcessSubmit
<1>6. CASE OnWork
  <2> USE DEF PassPC, JobPC, PhonePC, VotePC, CountPC
  <2>1. CASE WaitForStartup
    BY <2>1 DEF WaitForStartup, TypeOK
  <2>2. CASE BeginWork
    BY <2>2 DEF BeginWork, TypeOK, Works
  <2>3. ASSUME NEW answer \in Registries, MakePeers(answer)
        PROVE  /\ validators' \subseteq Validators
               /\ validatorIndex' \in Indexes \union {-1}
    BY <2>3, RouterAssumption DEF MakePeers, TypeOK
  <2>4. ASSUME NEW answer \in Registries, Initialize(answer) PROVE TypeOK'
    BY <2>3, <2>4 DEF Initialize, TypeOK, Works
  <2>5. CASE SelectJobs
    <3>1. getUnfinishedJob(validation) \subseteq Jobs
      BY DEF getUnfinishedJob, Jobs, TypeOK, Tables
    <3> QED
      BY <2>5, <3>1 DEF SelectJobs, TypeOK, Works
  <2>6. ASSUME NEW job \in work.jobs, TakeJob(job) PROVE TypeOK'
    <3>1. CaseOf(job.data.processStep) \in JobPC
      BY DEF CaseOf
    <3>2. job \in Jobs
      BY DEF TypeOK, Works
    <3>3. work' = [work EXCEPT !.pc = CaseOf(job.data.processStep),
                               !.jobs = @ \ {job}, !.job = job]
      BY <2>6 DEF TakeJob
    <3>4. work' \in Works /\ work'.pc \in JobPC /\ work'.job \in Jobs
      BY <3>1, <3>2, <3>3 DEF TypeOK, Works
    <3> QED
      BY <2>6, <3>4 DEF TakeJob, TypeOK
  <2>7. ASSUME work.pc \in JobPC,
               NEW op \in {"addRequest", "voteRequest", "countVote"}, SendTransaction(op)
        PROVE  mempool' \subseteq Transactions /\ UNCHANGED requests
    BY <2>7 DEF SendTransaction, TypeOK, Transactions, Jobs
  <2>8. CASE AddRequest
    BY <2>7, <2>8 DEF AddRequest, TypeOK, Works
  <2>9. CASE VoteAgreement
    BY <2>7, <2>9 DEF VoteAgreement, TypeOK, Works
  <2>10. CASE CountVote
    BY <2>7, <2>10 DEF CountVote, TypeOK, Works
  <2>11. CASE SendPhone
    <3>1. getCode \subseteq Codes
      BY RouterAssumption, StorageAssumption DEF getCode, Codes, TypeOK
    <3>2. PICK code \in Codes :
            work' = [work EXCEPT !.pc = "updateSendCode",
                                 !.job.data.validationStatus = "SENT",
                                 !.job.data.sendCode = code,
                                 !.job.data.expire = clock + CodeLifetime]
      BY <2>11, <3>1 DEF SendPhone
    <3>3. clock + CodeLifetime \in Nat
      BY RouterAssumption DEF TypeOK
    <3>4. work' \in Works /\ work'.job \in Jobs /\ work'.pc \in JobPC
      BY <2>11, <3>2, <3>3
      DEF SendPhone, TypeOK, Works, Jobs, ValidationData, PhoneValidationStatus
    <3> QED
      BY <2>11, <3>4 DEF SendPhone, TypeOK
  <2>12. CASE SkipSendPhone
    BY <2>12 DEF SkipSendPhone, TypeOK, Works
  <2>13. CASE WriteSendCode
    <3>1. validation' \in Tables
      BY <2>13, UpdateCode DEF WriteSendCode, TypeOK, Jobs
    <3> QED
      BY <2>13, <3>1 DEF WriteSendCode, TypeOK, Works
  <2>14. ASSUME work.pc \in JobPC
         PROVE  NextJob \in Works /\ NextJob.pc = "loop" /\ NextJob.job = Absent
    BY DEF NextJob, TypeOK, Works
  <2>15. CASE MarkSent
    <3>1. work.job.requestId \in RequestIds
      BY <2>15 DEF MarkSent, TypeOK, Jobs
    <3>2. validation' \in Tables
      BY <2>15, <3>1, UpdateStep DEF MarkSent, TypeOK, ProcessStep
    <3> QED
      BY <2>14, <2>15, <3>1, <3>2 DEF MarkSent, TypeOK
  <2>16. CASE MarkVoted
    <3>1. validation' \in Tables
      BY <2>16, UpdateStep DEF MarkVoted, TypeOK, Jobs, ProcessStep
    <3> QED
      BY <2>14, <2>16, <3>1 DEF MarkVoted, TypeOK
  <2>17. CASE CanCountVote
    BY <2>14, <2>17 DEF CanCountVote, TypeOK, Works
  <2>18. CASE Confirm
    <3>1. validation' \in Tables
      BY <2>18, UpdateStatus DEF Confirm, TypeOK, Jobs, PhoneValidationStatus
    <3> QED
      BY <2>18, <3>1 DEF Confirm, TypeOK, Works
  <2>19. CASE Finish
    <3>1. validation' \in Tables
      BY <2>19, UpdateStep DEF Finish, TypeOK, Jobs, ProcessStep
    <3> QED
      BY <2>14, <2>19, <3>1 DEF Finish, TypeOK
  <2>20. Idle \in Works /\ Idle.pc = "idle" /\ Idle.job = Absent
    BY DEF Idle, Works
  <2>21. CASE EndPass
    BY <2>20, <2>21 DEF EndPass, TypeOK, Works
  <2>22. CASE BeginPeriod
    BY <2>22 DEF BeginPeriod, TypeOK, Works
  <2>23. ASSUME NEW answer \in Registries, Refresh(answer) PROVE TypeOK'
    BY <2>3, <2>23 DEF Refresh, TypeOK, Works
  <2>24. CASE RemoveExpired
    <3>1. validation' \in Tables
      BY <2>24 DEF RemoveExpired, removeExpiredValidation, TypeOK, Tables
    <3>2. spent' \subseteq RequestIds
      BY <2>24 DEF RemoveExpired, ExpiredValidations, TypeOK
    <3> QED
      BY <2>20, <2>24, <3>1, <3>2 DEF RemoveExpired, TypeOK, Works
  <2>25. CASE AbortWork
    BY <2>20, <2>25 DEF AbortWork, TypeOK
  <2> QED
    BY <1>6, <2>1, <2>2, <2>4, <2>5, <2>6, <2>8, <2>9, <2>10, <2>11, <2>12, <2>13,
       <2>15, <2>16, <2>17, <2>18, <2>19, <2>21, <2>22, <2>23, <2>24, <2>25
    DEF OnWork
<1>7. CASE Environment
  <2>1. ASSUME NEW tx \in Transactions PROVE Execute(tx) \in [RequestIds -> Request]
    BY RouterAssumption
    DEF Execute, addRequest, voteRequest, countVote, Transactions, TypeOK, Request,
        RequestStatus
  <2>2. ASSUME NEW tx \in mempool, Mine(tx) PROVE TypeOK'
    BY <2>1, <2>2 DEF Mine, TypeOK
  <2>3. ASSUME NEW tx \in mempool, Drop(tx) PROVE TypeOK'
    BY <2>3 DEF Drop, TypeOK
  <2>4. ASSUME NEW id \in RequestIds, OtherAdd(id) PROVE TypeOK'
    <3>1. addRequest(requests, id) \in [RequestIds -> Request]
      BY DEF addRequest, TypeOK, Request, RequestStatus
    <3> QED
      BY <2>4, <3>1 DEF OtherAdd, ByOthers, TypeOK
  <2>5. ASSUME NEW id \in RequestIds, NEW v \in Validators, OtherVote(v, id) PROVE TypeOK'
    <3>1. voteRequest(requests, id, v) \in [RequestIds -> Request]
      BY DEF voteRequest, TypeOK, Request, RequestStatus
    <3> QED
      BY <2>5, <3>1 DEF OtherVote, ByOthers, TypeOK
  <2>6. ASSUME NEW id \in RequestIds, OtherCount(id) PROVE TypeOK'
    <3>1. countVote(requests, id) \in [RequestIds -> Request]
      BY DEF countVote, TypeOK, Request, RequestStatus
    <3> QED
      BY <2>6, <3>1 DEF OtherCount, ByOthers, TypeOK
  <2>7. CASE Tick
    BY <2>7 DEF Tick, TypeOK
  <2>8. CASE Crash
    <3>1. Idle \in Works /\ Idle.pc \notin JobPC /\ Idle.job = Absent
      BY DEF Idle, Works, PassPC, JobPC, PhonePC, VotePC, CountPC
    <3>2. submits' \in [Submits -> SubmitCalls \union {Absent}]
      BY <2>8 DEF Crash
    <3>3. /\ validation' \in Tables /\ spent' \subseteq RequestIds
          /\ requests' \in [RequestIds -> Request] /\ mempool' \subseteq Transactions
          /\ presented' \subseteq RequestIds \X (Codes \union {NoCode})
      BY <2>8 DEF Crash, TypeOK
    <3>4. /\ work' \in Works
          /\ IF work'.pc \in JobPC THEN work'.job \in Jobs ELSE work'.job = Absent
      BY <2>8, <3>1 DEF Crash
    <3>5. clock' \in Nat /\ startTimeStamp' \in Nat /\ oldTimeStamp' \in Nat
      BY <2>8 DEF Crash, TypeOK
    <3>6. crashes' \in Nat
      BY <2>8 DEF Crash, TypeOK
    <3>7. validatorIndex' \in Indexes \union {-1}
      BY <2>8 DEF Crash
    <3>8. validators' \subseteq Validators /\ initialized' \in BOOLEAN /\ timers' \subseteq RequestIds
      BY <2>8 DEF Crash
    <3> QED
      BY <3>2, <3>3, <3>4, <3>5, <3>6, <3>7, <3>8 DEF TypeOK
  <2> QED
    BY <1>7, <2>2, <2>3, <2>4, <2>5, <2>6, <2>7, <2>8 DEF Environment
<1>8. CASE UNCHANGED vars
  BY <1>8 DEF vars, TypeOK
<1>9. CASE Handlers
  BY <1>1, <1>2, <1>3, <1>4, <1>5, <1>9 DEF Handlers, PostSubmit, PostBroadcastSubmit
<1> QED
  BY <1>6, <1>7, <1>8, <1>9 DEF Next

\* Every variable keeps its type: in particular a continuation of the pass has
\* its job, and a code that is sent is one a client can type.
THEOREM TypeCorrect == Spec => []TypeOK
BY InitialType, NextType, PTL DEF Spec

-----------------------------------------------------------------------------
(* What a step may do to the table, given the invariant.                   *)

\* A request is inserted under an id that has no row and may get one.
InsertRow(id) ==
  /\ validation[id] = Absent /\ id \notin spent
  /\ \E step \in {"RECEIVED_REGISTER", "RECEIVED_BROADCAST"} :
       validation' = createValidation(validation, id, toValidationData(step))
  /\ spent \subseteq spent'

\* A step is written to a row that has its code, with what it takes to accept
\* that code and to finish the request.
WriteStep(id, step) ==
  /\ validation' = updateProcessStep(validation, id, step)
  /\ UNCHANGED spent
  /\ Texted(id)
  /\ Mode # "NoSMSNoCode" /\ step \in {"RECEIVED_CODE", "VOTED", "FINISHED"} => Proven(id)
  /\ step = "FINISHED" =>
       /\ Agreed(requests, id)
       /\ validation[id] # Absent =>
            validation[id].validationStatus \in {"CONFIRMED", "EXPIRED"}

\* A row that has its code is closed.
WriteStatus(id, status) ==
  /\ validation' = updateValidationStatus(validation, id, status)
  /\ UNCHANGED spent
  /\ Texted(id)
  /\ status = "CONFIRMED" => Agreed(requests, id)

LEMMA TableChange ==
  ASSUME TypeOK, IndInv, [Next]_vars
  PROVE  \/ UNCHANGED <<validation, spent>>
         \/ \E id \in RequestIds : InsertRow(id)
         \/ \E id \in RequestIds, step \in ProcessStep : WriteStep(id, step)
         \/ \E id \in RequestIds, status \in {"CONFIRMED", "EXPIRED"} :
              WriteStatus(id, status)
         \/ WriteSendCode
         \/ RemoveExpired
<1> DEFINE Goal == \/ UNCHANGED <<validation, spent>>
                   \/ \E id \in RequestIds : InsertRow(id)
                   \/ \E id \in RequestIds, step \in ProcessStep : WriteStep(id, step)
                   \/ \E id \in RequestIds, status \in {"CONFIRMED", "EXPIRED"} :
                        WriteStatus(id, status)
                   \/ WriteSendCode
                   \/ RemoveExpired
<1>1. ASSUME NEW id \in RequestIds, PostRequest(id) PROVE InsertRow(id)
  BY <1>1 DEF PostRequest, InsertRow
<1>2. ASSUME NEW id \in RequestIds, PostBroadcast(id) PROVE InsertRow(id)
  BY <1>2 DEF PostBroadcast, InsertRow
<1>3. ASSUME NEW id \in RequestIds, TimerFires(id) PROVE WriteStep(id, "RECEIVED_CODE")
  BY <1>3 DEF TimerFires, WriteStep, IndInv, TimerInv
<1>4. ASSUME NEW s \in Submits, ProcessSubmit(s) PROVE Goal
  <2>1. ASSUME AcceptCode(s)
        PROVE  submits[s].id \in RequestIds /\ WriteStep(submits[s].id, "RECEIVED_CODE")
    BY <2>1 DEF AcceptCode, WriteStep, IndInv, SubmitInv, TypeOK, SubmitCalls
  <2>2. ASSUME WriteExpired(s)
        PROVE  submits[s].id \in RequestIds /\ WriteStatus(submits[s].id, "EXPIRED")
    BY <2>2 DEF WriteExpired, WriteStatus, IndInv, SubmitInv, TypeOK, SubmitCalls
  <2>3. ASSUME RefuseSubmit(s) \/ ReadValidation(s) \/ CheckInTime(s) \/ CheckTooLate(s)
        PROVE  UNCHANGED <<validation, spent>>
    BY <2>3 DEF RefuseSubmit, ReadValidation, CheckInTime, CheckTooLate
  <2> QED
    BY <1>4, <2>1, <2>2, <2>3 DEF ProcessSubmit, ProcessStep
<1>5. CASE OnWork
  <2> USE DEF JobPC, PhonePC, VotePC, CountPC
  <2>1. work.pc \in JobPC => work.job \in Jobs /\ work.job.requestId \in RequestIds
    BY DEF TypeOK, Jobs
  <2>2. ASSUME MarkSent PROVE WriteStep(work.job.requestId, "SENT_SMS")
    BY <2>2 DEF MarkSent, WriteStep, IndInv, SnapshotInv, Current, Texted
  <2>3. ASSUME MarkVoted PROVE WriteStep(work.job.requestId, "VOTED")
    <3>1. Current(work.job) /\ work.job.data.processStep = "RECEIVED_CODE"
      BY <2>3 DEF MarkVoted, IndInv, SnapshotInv, PassInv
    <3> QED
      BY <2>3, <3>1 DEF MarkVoted, WriteStep, Current, Texted
  <2>4. ASSUME Confirm PROVE WriteStatus(work.job.requestId, "CONFIRMED")
    <3>1. Current(work.job) /\ work.job.data.processStep = "VOTED"
      BY <2>4 DEF Confirm, IndInv, SnapshotInv, PassInv
    <3> QED
      BY <2>4, <3>1 DEF Confirm, WriteStatus, Current, Texted, IndInv, AgreementInv
  <2>5. ASSUME Finish PROVE WriteStep(work.job.requestId, "FINISHED")
    <3>1. Current(work.job) /\ work.job.data.processStep = "VOTED"
      BY <2>5 DEF Finish, IndInv, SnapshotInv, PassInv
    <3> QED
      BY <2>5, <3>1
      DEF Finish, WriteStep, Current, Texted, IndInv, AgreementInv, ClosingInv
  <2>6. ASSUME NEW answer \in Registries, Initialize(answer) \/ Refresh(answer)
        PROVE  UNCHANGED <<validation, spent>>
    BY <2>6 DEF Initialize, Refresh
  <2>7. ASSUME NEW job \in work.jobs, TakeJob(job) PROVE UNCHANGED <<validation, spent>>
    BY <2>7 DEF TakeJob
  <2>8. ASSUME \/ WaitForStartup \/ BeginWork \/ SelectJobs \/ AddRequest \/ SendPhone
               \/ SkipSendPhone \/ VoteAgreement \/ CanCountVote \/ CountVote \/ EndPass
               \/ BeginPeriod \/ AbortWork
        PROVE  UNCHANGED <<validation, spent>>
    BY <2>8 DEF WaitForStartup, BeginWork, SelectJobs, AddRequest, SendPhone, SkipSendPhone,
                VoteAgreement, CanCountVote, CountVote, EndPass, BeginPeriod, AbortWork
  <2>9. MarkSent \/ MarkVoted \/ Confirm \/ Finish => work.pc \in JobPC
    BY DEF MarkSent, MarkVoted, Confirm, Finish
  <2>10. CASE MarkSent \/ MarkVoted \/ Finish
    BY <2>1, <2>2, <2>3, <2>5, <2>9, <2>10 DEF ProcessStep
  <2>11. CASE Confirm
    BY <2>1, <2>4, <2>9, <2>11
  <2> QED
    BY <1>5, <2>6, <2>7, <2>8, <2>10, <2>11 DEF OnWork
<1>6. CASE Environment
  BY <1>6 DEF Environment, Mine, Drop, OtherAdd, OtherVote, OtherCount, ByOthers, Tick, Crash
<1>7. ASSUME NEW s \in Submits, NEW id \in RequestIds, NEW code \in CodeStrings,
             BeginSubmit(s, id, code)
      PROVE  UNCHANGED <<validation, spent>>
  BY <1>7 DEF BeginSubmit
<1>8. CASE Handlers
  BY <1>1, <1>2, <1>3, <1>4, <1>7, <1>8
  DEF Handlers, PostSubmit, PostBroadcastSubmit, ProcessStep
<1>9. CASE UNCHANGED vars
  BY <1>9 DEF vars
<1> QED
  BY <1>5, <1>6, <1>8, <1>9 DEF Next

\* Time and what clients have presented only grow, and the agreement on a
\* request is never taken back.
LEMMA Growth ==
  ASSUME TypeOK, [Next]_vars
  PROVE  /\ clock <= clock'
         /\ presented \subseteq presented'
         /\ \A id \in RequestIds : Agreed(requests, id) => Agreed(requests', id)
<1> DEFINE Votes(new) == \A id \in RequestIds : requests[id].voters \subseteq new[id].voters
<1>1. Votes(requests') => \A id \in RequestIds : Agreed(requests, id) => Agreed(requests', id)
  BY DEF Agreed
<1>2. Votes(requests)
  OBVIOUS
<1>3. ASSUME NEW id \in RequestIds
      PROVE  /\ Votes(addRequest(requests, id))
             /\ Votes(countVote(requests, id))
             /\ \A v : Votes(voteRequest(requests, id, v))
  BY DEF addRequest, countVote, voteRequest, TypeOK, Request
<1> HIDE DEF Votes
<1>4. CASE Handlers
  <2>1. UNCHANGED <<clock, requests>>
    BY <1>4
    DEF Handlers, PostRequest, PostBroadcast, TimerFires, PostSubmit, PostBroadcastSubmit,
        BeginSubmit, ProcessSubmit, RefuseSubmit, ReadValidation, CheckInTime, CheckTooLate,
        AcceptCode, WriteExpired, chain
  <2>2. presented \subseteq presented'
    BY <1>4
    DEF Handlers, PostRequest, PostBroadcast, TimerFires, PostSubmit, PostBroadcastSubmit,
        BeginSubmit, ProcessSubmit, RefuseSubmit, ReadValidation, CheckInTime, CheckTooLate,
        AcceptCode, WriteExpired
  <2> QED
    BY <2>1, <2>2 DEF TypeOK
<1>5. CASE OnWork
  <2>1. UNCHANGED <<clock, requests, presented>>
    BY <1>5
    DEF OnWork, WaitForStartup, BeginWork, Initialize, SelectJobs, TakeJob, AddRequest, SendPhone,
        SkipSendPhone, WriteSendCode, MarkSent, VoteAgreement, MarkVoted, CanCountVote, CountVote,
        Confirm, Finish, EndPass, BeginPeriod, Refresh, RemoveExpired, AbortWork,
        SendTransaction, chain
  <2> QED
    BY <2>1 DEF TypeOK
<1>6. CASE Environment
  <2>1. clock <= clock' /\ UNCHANGED presented
    BY <1>6
    DEF Environment, Mine, Drop, OtherAdd, OtherVote, OtherCount, ByOthers, Tick, Crash, TypeOK
  <2>2. ASSUME NEW tx \in mempool, Mine(tx) PROVE Votes(requests')
    BY <1>3, <2>2 DEF Mine, Execute, TypeOK, Transactions
  <2>3. ASSUME NEW tx \in mempool, Drop(tx) PROVE Votes(requests')
    BY <1>2, <2>3 DEF Drop
  <2>4. ASSUME NEW id \in RequestIds, OtherAdd(id) \/ OtherCount(id) PROVE Votes(requests')
    BY <1>3, <2>4 DEF OtherAdd, OtherCount, ByOthers
  <2>5. ASSUME NEW id \in RequestIds, NEW v \in Validators, OtherVote(v, id)
        PROVE  Votes(requests')
    BY <1>3, <2>5 DEF OtherVote, ByOthers
  <2>6. CASE Tick \/ Crash
    BY <2>1, <2>6 DEF Tick, Crash, chain
  <2> QED
    BY <1>1, <1>6, <2>1, <2>2, <2>3, <2>4, <2>5, <2>6 DEF Environment
<1>7. CASE UNCHANGED vars
  BY <1>7 DEF vars, chain, TypeOK
<1> QED
  BY <1>4, <1>5, <1>6, <1>7 DEF Next

\* What a step leaves of a row, whichever continuation it belongs to: a code
\* that was sent stays, with its expiry, until the row is removed for good.
Persists(id) ==
  /\ id \in spent => id \in spent'
  /\ validation[id] = Absent /\ id \in spent => validation'[id] = Absent
  /\ validation[id] # Absent /\ validation[id].sendCode # NoCode =>
       IF validation'[id] = Absent THEN id \in spent'
       ELSE /\ validation'[id].sendCode = validation[id].sendCode
            /\ validation'[id].expire = validation[id].expire

LEMMA Persistence ==
  ASSUME TypeOK, IndInv, [Next]_vars, NEW id \in RequestIds
  PROVE  Persists(id)
<1>1. CASE UNCHANGED <<validation, spent>>
  BY <1>1 DEF Persists
<1>2. ASSUME NEW i \in RequestIds, InsertRow(i) PROVE Persists(id)
  BY <1>2 DEF InsertRow, createValidation, Persists, TypeOK, Tables
<1>3. ASSUME NEW i \in RequestIds, NEW step \in ProcessStep, WriteStep(i, step)
      PROVE  Persists(id)
  BY <1>3, UpdateStep DEF WriteStep, Persists, TypeOK
<1>4. ASSUME NEW i \in RequestIds, NEW status \in {"CONFIRMED", "EXPIRED"},
             WriteStatus(i, status)
      PROVE  Persists(id)
  <2>1. status \in PhoneValidationStatus
    BY DEF PhoneValidationStatus
  <2> QED
    BY <1>4, <2>1, UpdateStatus DEF WriteStatus, Persists, TypeOK
<1>5. CASE WriteSendCode
  <2>1. work.job \in Jobs /\ validation[work.job.requestId].sendCode = NoCode
    BY <1>5 DEF WriteSendCode, IndInv, SnapshotInv, TypeOK, JobPC, PhonePC
  <2>2. work.job.requestId \in RequestIds /\ work.job.data \in ValidationData
    BY <2>1 DEF Jobs
  <2> QED
    BY <1>5, <2>1, <2>2, UpdateCode DEF WriteSendCode, Persists, TypeOK
<1>6. CASE RemoveExpired
  BY <1>6 DEF RemoveExpired, removeExpiredValidation, ExpiredValidations, Persists, TypeOK
<1> QED
  BY <1>1, <1>2, <1>3, <1>4, <1>5, <1>6, TableChange

\* So what a continuation has learnt about a row stays true.
LEMMA KnowledgeLasts ==
  ASSUME TypeOK, IndInv, [Next]_vars, NEW id \in RequestIds
  PROVE  /\ Texted(id) => Texted(id)'
         /\ Late(id) => Late(id)'
         /\ Texted(id) /\ Proven(id) => Proven(id)'
<1>1. Persists(id) /\ clock <= clock' /\ presented \subseteq presented'
  BY Persistence, Growth
<1>2. clock \in Nat /\ clock' \in Nat
  BY NextType DEF TypeOK
<1>3. validation[id] # Absent => validation[id].expire \in Nat
  BY DEF TypeOK, Tables, ValidationData
<1> QED
  BY <1>1, <1>2, <1>3 DEF Persists, Texted, Late, Proven


-----------------------------------------------------------------------------
(* The invariant, part by part.                                            *)

\* The parts about rows alone, from what a step may do to the table.
LEMMA RowsPreserved ==
  ASSUME TypeOK, IndInv, [Next]_vars
  PROVE  RowInv' /\ CodeProven' /\ FinishedMeansAgreed' /\ FinishedIsClosed'
<1> DEFINE
      Row(id) ==
        /\ (validation[id].validationStatus = "NONE") <=> (validation[id].sendCode = NoCode)
        /\ validation[id].validationStatus = "NONE" =>
             validation[id].processStep \in {"RECEIVED_REGISTER", "RECEIVED_BROADCAST"}
      Coded(id) ==
        Mode # "NoSMSNoCode"
          /\ validation[id].processStep \in {"RECEIVED_CODE", "VOTED", "FINISHED"} =>
          <<id, validation[id].sendCode>> \in presented
      Confirmed(id) ==
        \/ validation[id].processStep = "FINISHED"
        \/ validation[id].validationStatus = "CONFIRMED"
        => Agreed(requests, id)
      Closed(id) ==
        validation[id].processStep = "FINISHED" =>
          validation[id].validationStatus \in {"CONFIRMED", "EXPIRED"}
      Good(id) == validation[id] # Absent =>
                    Row(id) /\ Coded(id) /\ Confirmed(id) /\ Closed(id)
<1>1. \A id \in RequestIds : Good(id)
  BY DEF IndInv, RowInv, CodeProven, FinishedMeansAgreed, FinishedIsClosed, Step
<1>2. (\A id \in RequestIds : Good(id)') =>
        RowInv' /\ CodeProven' /\ FinishedMeansAgreed' /\ FinishedIsClosed'
  BY DEF RowInv, CodeProven, FinishedMeansAgreed, FinishedIsClosed, Step
<1>3. SUFFICES ASSUME NEW id \in RequestIds, validation'[id] # Absent PROVE Good(id)'
  BY <1>2
<1>4. /\ presented \subseteq presented'
      /\ Agreed(requests, id) => Agreed(requests', id)
  BY Growth
<1>5. ASSUME validation'[id] = validation[id] PROVE Good(id)'
  BY <1>1, <1>3, <1>4, <1>5 DEF Agreed
<1>6. CASE UNCHANGED <<validation, spent>>
  BY <1>5, <1>6
<1>7. ASSUME NEW i \in RequestIds, InsertRow(i) PROVE Good(id)'
  <2>1. PICK step \in {"RECEIVED_REGISTER", "RECEIVED_BROADCAST"} :
          validation' = createValidation(validation, i, toValidationData(step))
    BY <1>7 DEF InsertRow
  <2>2. CASE i = id
    <3>1. validation'[id] = toValidationData(step)
      BY <2>1, <2>2 DEF createValidation, TypeOK, Tables
    <3>2. step \in ProcessStep
      BY DEF ProcessStep
    <3> QED
      BY <3>1, <3>2, NewRow
  <2>3. CASE i # id
    BY <1>5, <2>1, <2>3 DEF createValidation, TypeOK, Tables
  <2> QED
    BY <2>2, <2>3
<1>8. ASSUME NEW i \in RequestIds, NEW step \in ProcessStep, WriteStep(i, step)
      PROVE  Good(id)'
  <2>1. CASE i = id
    <3>1. /\ validation[id] # Absent
          /\ validation'[id].validationStatus = validation[id].validationStatus
          /\ validation'[id].sendCode = validation[id].sendCode
          /\ validation'[id].processStep = step
      BY <1>3, <1>8, <2>1, UpdateStep DEF WriteStep, TypeOK
    <3>2. validation[id].sendCode # NoCode
      BY <1>8, <2>1, <3>1 DEF WriteStep, Texted
    <3>3. Row(id)'
      BY <1>1, <3>1, <3>2
    <3>4. Coded(id)'
      BY <1>4, <1>8, <2>1, <3>1 DEF WriteStep, Proven
    <3>5. Confirmed(id)' /\ Closed(id)'
      BY <1>1, <1>4, <1>8, <2>1, <3>1 DEF WriteStep, Agreed
    <3> QED
      BY <3>3, <3>4, <3>5
  <2>2. CASE i # id
    BY <1>5, <1>8, <2>2, UpdateStep DEF WriteStep, TypeOK
  <2> QED
    BY <2>1, <2>2
<1>9. ASSUME NEW i \in RequestIds, NEW status \in {"CONFIRMED", "EXPIRED"},
             WriteStatus(i, status)
      PROVE  Good(id)'
  <2>1. status \in PhoneValidationStatus
    BY DEF PhoneValidationStatus
  <2>2. CASE i = id
    <3>1. /\ validation[id] # Absent
          /\ validation'[id].validationStatus = status
          /\ validation'[id].sendCode = validation[id].sendCode
          /\ validation'[id].processStep = validation[id].processStep
      BY <1>3, <1>9, <2>1, <2>2, UpdateStatus DEF WriteStatus, TypeOK
    <3>2. validation[id].sendCode # NoCode
      BY <1>9, <2>2, <3>1 DEF WriteStatus, Texted
    <3>3. Row(id)' /\ Coded(id)'
      BY <1>1, <1>4, <3>1, <3>2
    <3>4. Confirmed(id)' /\ Closed(id)'
      BY <1>1, <1>4, <1>9, <2>2, <3>1 DEF WriteStatus, Agreed
    <3> QED
      BY <3>3, <3>4
  <2>3. CASE i # id
    BY <1>5, <1>9, <2>1, <2>3, UpdateStatus DEF WriteStatus, TypeOK
  <2> QED
    BY <2>2, <2>3
<1>10. CASE WriteSendCode
  <2>1. work.job.requestId \in RequestIds /\ work.job.data \in ValidationData
    BY <1>10 DEF WriteSendCode, TypeOK, JobPC, PhonePC, Jobs
  <2>2. CASE work.job.requestId = id
    <3>1. /\ validation[id] # Absent
          /\ validation[id].sendCode = NoCode
          /\ work.job.data.sendCode # NoCode
          /\ work.job.data.validationStatus = "SENT"
      BY <1>10, <2>2 DEF WriteSendCode, IndInv, SnapshotInv
    <3>2. /\ validation'[id].validationStatus = "SENT"
          /\ validation'[id].sendCode # NoCode
          /\ validation'[id].processStep = validation[id].processStep
      BY <1>10, <2>1, <2>2, <3>1, UpdateCode DEF WriteSendCode, TypeOK
    <3>3. validation[id].processStep \in {"RECEIVED_REGISTER", "RECEIVED_BROADCAST"}
      BY <1>1, <3>1
    <3> QED
      BY <3>2, <3>3
  <2>3. CASE work.job.requestId # id
    BY <1>5, <1>10, <2>1, <2>3, UpdateCode DEF WriteSendCode, TypeOK
  <2> QED
    BY <2>2, <2>3
<1>11. CASE RemoveExpired
  BY <1>3, <1>5, <1>11 DEF RemoveExpired, removeExpiredValidation
<1> QED
  BY <1>6, <1>7, <1>8, <1>9, <1>10, <1>11, TableChange

\* A submit that does not step keeps what it knows; one that does passes it on.
LEMMA SubmitsPreserved ==
  ASSUME TypeOK, IndInv, [Next]_vars
  PROVE  SubmitInv'
<1> DEFINE
      Known(call) ==
        /\ call.pc = "getValidation" =>
             \/ \A i \in Indexes : <<call.id, call.code[i]>> \in presented
             \/ Late(call.id)
        /\ call.pc = "checkExpiry" =>
             /\ call.row.sendCode # NoCode
             /\ Texted(call.id)
             /\ validation[call.id] # Absent =>
                  /\ validation[call.id].sendCode = call.row.sendCode
                  /\ validation[call.id].expire = call.row.expire
             /\ \/ \A i \in Indexes : <<call.id, call.code[i]>> \in presented
                \/ call.row.expire <= clock
        /\ call.pc = "accept" => Texted(call.id) /\ Proven(call.id)
        /\ call.pc = "expire" => Texted(call.id)
<1>1. \A s \in Submits : submits[s] # Absent => Known(submits[s])
  BY DEF IndInv, SubmitInv
<1>2. SUFFICES ASSUME NEW s \in Submits, submits'[s] # Absent PROVE Known(submits[s])'
  BY DEF SubmitInv
<1>3. ASSUME submits'[s] = submits[s] PROVE Known(submits[s])'
  <2> DEFINE call == submits[s]
  <2>1. call \in SubmitCalls /\ call' = call /\ Known(call)
    BY <1>1, <1>2, <1>3 DEF TypeOK
  <2>2. call.id \in RequestIds
    BY <2>1 DEF SubmitCalls
  <2>3. call.pc = "checkExpiry" => call.row \in ValidationData
    BY <2>1 DEF SubmitCalls
  <2> HIDE DEF call
  <2>4. /\ Texted(call.id) => Texted(call.id)'
        /\ Late(call.id) => Late(call.id)'
        /\ Texted(call.id) /\ Proven(call.id) => Proven(call.id)'
    BY <2>1, <2>2, KnowledgeLasts
  <2>5. /\ Persists(call.id) /\ clock <= clock' /\ presented \subseteq presented'
        /\ clock \in Nat /\ clock' \in Nat
    BY <2>2, Persistence, Growth, NextType DEF TypeOK
  <2>6. call.pc = "checkExpiry" =>
          /\ validation'[call.id] # Absent =>
               /\ validation'[call.id].sendCode = call.row.sendCode
               /\ validation'[call.id].expire = call.row.expire
          /\ call.row.expire <= clock => call.row.expire <= clock'
    BY <2>1, <2>3, <2>5 DEF Persists, Texted, ValidationData
  <2>7. Known(call)'
    BY <2>1, <2>4, <2>5, <2>6
  <2> QED
    BY <2>7 DEF call
<1>4. ASSUME NEW t \in Submits, NEW id \in RequestIds, NEW code \in CodeStrings,
             BeginSubmit(t, id, code)
      PROVE  Known(submits[s])'
  <2>1. CASE t = s
    <3>1. submits'[s] = [pc |-> "getValidation", id |-> id, code |-> code]
      BY <1>4, <2>1 DEF BeginSubmit, TypeOK
    <3>2. UNCHANGED <<validation, spent, clock>>
      BY <1>4 DEF BeginSubmit
    <3>3. CASE Expired(id)
      BY <3>1, <3>2, <3>3 DEF Expired, Late, Texted
    <3>4. CASE ~Expired(id)
      BY <1>4, <3>1, <3>4 DEF BeginSubmit
    <3> QED
      BY <3>3, <3>4
  <2>2. CASE t # s
    BY <1>3, <1>4, <2>2 DEF BeginSubmit, TypeOK
  <2> QED
    BY <2>1, <2>2
<1>5. ASSUME NEW t \in Submits, ProcessSubmit(t) PROVE Known(submits[s])'
  <2>1. CASE t # s
    <3>1. submits'[s] = submits[s]
      BY <1>5, <2>1
      DEF ProcessSubmit, RefuseSubmit, ReadValidation, CheckInTime, CheckTooLate, AcceptCode,
          WriteExpired, TypeOK
    <3> QED
      BY <1>3, <3>1
  <2>2. CASE t = s
    <3>1. CASE RefuseSubmit(s) \/ AcceptCode(s) \/ WriteExpired(s)
      BY <1>2, <3>1 DEF RefuseSubmit, AcceptCode, WriteExpired, TypeOK
    <3>2. CASE ReadValidation(s)
      <4> DEFINE id == submits[s].id
                 row == validation[id]
      <4>1. /\ submits'[s] = [pc |-> "checkExpiry", id |-> id, code |-> submits[s].code,
                              row |-> row]
            /\ UNCHANGED <<validation, spent, presented, clock>>
        BY <3>2 DEF ReadValidation, TypeOK
      <4>2. id \in RequestIds
        BY <3>2 DEF ReadValidation, TypeOK, SubmitCalls
      <4>3. row # Absent /\ row.validationStatus = "SENT" /\ row.sendCode # NoCode
        BY <3>2, <4>2 DEF ReadValidation, Sent, IndInv, RowInv
      <4>4. \/ \A i \in Indexes : <<id, submits[s].code[i]>> \in presented
            \/ row.expire <= clock
        BY <1>1, <3>2, <4>3 DEF ReadValidation, Late
      <4> HIDE DEF id
      <4> QED
        BY <4>1, <4>3, <4>4 DEF Texted
    <3>3. CASE CheckInTime(s)
      <4> DEFINE id == submits[s].id
                 row == submits[s].row
      <4>1. /\ submits'[s] = [pc |-> "accept", id |-> id]
            /\ row.sendCode = Slice(submits[s].code)
            /\ UNCHANGED <<validation, spent, presented, clock>>
        BY <1>2, <3>3 DEF CheckInTime, TypeOK
      <4>2. id \in RequestIds /\ row \in ValidationData
        BY <3>3 DEF CheckInTime, TypeOK, SubmitCalls
      <4>3. row.expire \in Nat /\ clock \in Nat /\ row.expire > clock
        BY <3>3, <4>2 DEF CheckInTime, TypeOK, ValidationData
      <4>4. /\ row.sendCode # NoCode
            /\ Texted(id)
            /\ validation[id] # Absent => validation[id].sendCode = row.sendCode
            /\ \A i \in Indexes : <<id, submits[s].code[i]>> \in presented
        BY <1>1, <3>3, <4>3 DEF CheckInTime
      <4>5. validatorIndex \in Indexes /\ row.sendCode = submits[s].code[validatorIndex]
        BY <4>1, <4>4 DEF Slice, TypeOK
      <4>6. Proven(id)
        BY <4>4, <4>5 DEF Proven
      <4> HIDE DEF id, row
      <4> QED
        BY <4>1, <4>4, <4>6 DEF Texted, Proven
    <3>4. CASE CheckTooLate(s)
      <4>1. submits'[s] = [pc |-> "expire", id |-> submits[s].id]
        BY <3>4 DEF CheckTooLate, TypeOK
      <4>2. Texted(submits[s].id) /\ UNCHANGED <<validation, spent>>
        BY <1>1, <3>4 DEF CheckTooLate
      <4> QED
        BY <4>1, <4>2 DEF Texted
    <3> QED
      BY <1>5, <2>2, <3>1, <3>2, <3>3, <3>4 DEF ProcessSubmit
  <2> QED
    BY <2>1, <2>2
<1>6. CASE UNCHANGED submits
  BY <1>3, <1>6
<1>7. CASE Crash
  BY <1>2, <1>7 DEF Crash
<1>8. CASE OnWork
  <2>1. UNCHANGED submits
    BY <1>8
    DEF OnWork, WaitForStartup, BeginWork, Initialize, SelectJobs, TakeJob, AddRequest, SendPhone,
        SkipSendPhone, WriteSendCode, MarkSent, VoteAgreement, MarkVoted, CanCountVote, CountVote,
        Confirm, Finish, EndPass, BeginPeriod, Refresh, RemoveExpired, AbortWork
  <2> QED
    BY <1>6, <2>1
<1>9. CASE Environment
  <2>1. Crash \/ UNCHANGED submits
    BY <1>9 DEF Environment, Mine, Drop, OtherAdd, OtherVote, OtherCount, ByOthers, Tick
  <2> QED
    BY <1>6, <1>7, <2>1
<1>10. CASE Handlers
  <2>1. ASSUME NEW id \in RequestIds, PostRequest(id) \/ PostBroadcast(id) \/ TimerFires(id)
        PROVE  UNCHANGED submits
    BY <2>1 DEF PostRequest, PostBroadcast, TimerFires
  <2> QED
    BY <1>4, <1>5, <1>6, <1>10, <2>1 DEF Handlers, PostSubmit, PostBroadcastSubmit
<1>11. CASE UNCHANGED vars
  BY <1>6, <1>11 DEF vars
<1> QED
  BY <1>8, <1>9, <1>10, <1>11 DEF Next

\* A pending timer is for a request that was sent its code.
LEMMA TimersPreserved ==
  ASSUME TypeOK, IndInv, [Next]_vars
  PROVE  TimerInv'
<1>1. /\ timers' # {} => timers # {} \/ Mode = "NoSMSNoCode"
      /\ \A id \in timers' : id \in RequestIds /\ Texted(id)
  <2> USE DEF IndInv, TimerInv
  <2>1. CASE MarkSent
    <3>1. work.job.requestId \in RequestIds /\ Texted(work.job.requestId)
      BY <2>1
      DEF MarkSent, SnapshotInv, Current, Texted, TypeOK, Jobs, JobPC, PhonePC
    <3> QED
      BY <2>1, <3>1 DEF MarkSent, TypeOK
  <2>2. ASSUME NEW id \in RequestIds, TimerFires(id) PROVE timers' \subseteq timers
    BY <2>2 DEF TimerFires
  <2>3. ASSUME NEW id \in RequestIds, PostRequest(id) \/ PostBroadcast(id)
        PROVE  timers' \subseteq timers
    BY <2>3 DEF PostRequest, PostBroadcast
  <2>4. ASSUME NEW s \in Submits, NEW id \in RequestIds, NEW code \in CodeStrings,
               BeginSubmit(s, id, code)
        PROVE  timers' \subseteq timers
    BY <2>4 DEF BeginSubmit
  <2>5. ASSUME NEW s \in Submits, ProcessSubmit(s) PROVE timers' \subseteq timers
    BY <2>5 DEF ProcessSubmit, RefuseSubmit, ReadValidation, CheckInTime, CheckTooLate,
                AcceptCode, WriteExpired
  <2>6. CASE OnWork
    <3>1. MarkSent \/ timers' \subseteq timers
      BY <2>6
      DEF OnWork, WaitForStartup, BeginWork, Initialize, SelectJobs, TakeJob, AddRequest,
          SendPhone, SkipSendPhone, WriteSendCode, VoteAgreement, MarkVoted, CanCountVote,
          CountVote, Confirm, Finish, EndPass, BeginPeriod, Refresh, RemoveExpired, AbortWork
    <3> QED
      BY <2>1, <3>1 DEF TypeOK
  <2>7. CASE Environment
    BY <2>7 DEF Environment, Mine, Drop, OtherAdd, OtherVote, OtherCount, ByOthers, Tick, Crash,
                TypeOK
  <2>8. CASE Handlers
    BY <2>2, <2>3, <2>4, <2>5, <2>8
    DEF Handlers, PostSubmit, PostBroadcastSubmit, TypeOK
  <2>9. CASE UNCHANGED vars
    BY <2>9 DEF vars, TypeOK
  <2> QED
    BY <2>6, <2>7, <2>8, <2>9 DEF Next
<1>2. \A id \in timers' : Texted(id)'
  BY <1>1, KnowledgeLasts
<1> QED
  BY <1>1, <1>2 DEF TimerInv, IndInv

\* Only onWork() and a crash move the pass.
LEMMA PassFrame ==
  ASSUME [Next]_vars
  PROVE  OnWork \/ Crash \/ UNCHANGED work
<1>1. ASSUME NEW s \in Submits, ProcessSubmit(s) PROVE UNCHANGED work
  BY <1>1 DEF ProcessSubmit, RefuseSubmit, ReadValidation, CheckInTime, CheckTooLate, AcceptCode,
              WriteExpired
<1>2. ASSUME NEW s \in Submits, NEW id \in RequestIds, NEW code \in CodeStrings,
             BeginSubmit(s, id, code)
      PROVE  UNCHANGED work
  BY <1>2 DEF BeginSubmit
<1>3. ASSUME NEW id \in RequestIds, PostRequest(id) \/ PostBroadcast(id) \/ TimerFires(id)
      PROVE  UNCHANGED work
  BY <1>3 DEF PostRequest, PostBroadcast, TimerFires
<1>4. Environment => Crash \/ UNCHANGED work
  BY DEF Environment, Mine, Drop, OtherAdd, OtherVote, OtherCount, ByOthers, Tick
<1> QED
  BY <1>1, <1>2, <1>3, <1>4 DEF Next, Handlers, PostSubmit, PostBroadcastSubmit, vars

\* The current job takes the code it has sent into its snapshot.
LEMMA SendPhoneEffect ==
  ASSUME TypeOK, SendPhone
  PROVE  /\ work'.pc = "updateSendCode"
         /\ work'.jobs = work.jobs
         /\ work'.job.requestId = work.job.requestId
         /\ work'.job.data.processStep = work.job.data.processStep
         /\ work'.job.data.validationStatus = "SENT"
         /\ work'.job.data.sendCode # NoCode
<1>1. work \in Works /\ work.job \in Jobs
  BY DEF SendPhone, TypeOK, JobPC, PhonePC
<1>2. getCode \subseteq Codes
  BY RouterAssumption, StorageAssumption DEF getCode, Codes, TypeOK
<1>3. PICK code \in Codes :
        work' = [work EXCEPT !.pc = "updateSendCode",
                             !.job.data.validationStatus = "SENT",
                             !.job.data.sendCode = code,
                             !.job.data.expire = clock + CodeLifetime]
  BY <1>2 DEF SendPhone
<1>4. code # NoCode
  BY StorageAssumption DEF Codes, NoCode
<1>5. work.job.data \in ValidationData
  BY <1>1 DEF Jobs
<1>6. /\ work'.pc = "updateSendCode"
      /\ work'.jobs = work.jobs
      /\ work'.job = [work.job EXCEPT !.data.validationStatus = "SENT",
                                      !.data.sendCode = code,
                                      !.data.expire = clock + CodeLifetime]
  BY <1>1, <1>3 DEF Works, Jobs
<1>7. /\ work'.job.requestId = work.job.requestId
      /\ work'.job.data = [work.job.data EXCEPT !.validationStatus = "SENT",
                                                !.sendCode = code,
                                                !.expire = clock + CodeLifetime]
  BY <1>1, <1>6 DEF Jobs
<1> QED
  BY <1>4, <1>5, <1>6, <1>7 DEF ValidationData

\* The current job and the place in the pass go together.
LEMMA PassPreserved ==
  ASSUME TypeOK, IndInv, [Next]_vars
  PROVE  PassInv'
<1> USE DEF JobPC, PhonePC, VotePC, CountPC
<1>1. CASE UNCHANGED work
  BY <1>1 DEF IndInv, PassInv
<1>2. CASE work' = Idle
  BY <1>2 DEF Idle, PassInv
<1>3. CASE OnWork
  <2>1. PassInv /\ work \in Works
    BY DEF IndInv, TypeOK
  <2>2. CASE WaitForStartup
    BY <1>1, <2>2 DEF WaitForStartup
  <2>3. CASE BeginWork \/ \E answer \in Registries : Initialize(answer)
    BY <2>1, <2>3 DEF BeginWork, Initialize, PassInv, Works
  <2>4. CASE SelectJobs
    <3>1. \A j, k \in getUnfinishedJob(validation) : j.requestId = k.requestId => j = k
      BY DEF getUnfinishedJob
    <3> QED
      BY <2>1, <2>4, <3>1 DEF SelectJobs, PassInv, Works
  <2>5. ASSUME NEW job \in work.jobs, TakeJob(job) PROVE PassInv'
    <3>1. /\ work'.pc = CaseOf(job.data.processStep)
          /\ work'.jobs = work.jobs \ {job}
          /\ work'.job = job
      BY <2>1, <2>5 DEF TakeJob, Works
    <3>2. job.data.processStep \in {"RECEIVED_REGISTER", "RECEIVED_BROADCAST",
                                    "RECEIVED_CODE", "VOTED"}
      BY DEF IndInv, SnapshotInv, Current
    <3> QED
      BY <2>1, <3>1, <3>2 DEF CaseOf, PassInv
  <2>6. CASE AddRequest \/ SkipSendPhone \/ WriteSendCode \/ VoteAgreement \/ CountVote \/ Confirm
    BY <2>1, <2>6
    DEF AddRequest, SkipSendPhone, WriteSendCode, VoteAgreement, CountVote, Confirm, PassInv, Works
  <2>7. CASE SendPhone
    <3>1. /\ work'.pc = "updateSendCode"
          /\ work'.jobs = work.jobs
          /\ work'.job.requestId = work.job.requestId
          /\ work'.job.data.processStep = work.job.data.processStep
      BY <2>7, SendPhoneEffect
    <3>2. work.pc = "sendPhone"
      BY <2>7 DEF SendPhone
    <3> QED
      BY <2>1, <3>1, <3>2 DEF PassInv
  <2>8. CASE MarkSent \/ MarkVoted \/ Finish
    BY <2>1, <2>8 DEF MarkSent, MarkVoted, Finish, NextJob, PassInv, Works
  <2>9. CASE CanCountVote
    BY <2>1, <2>9 DEF CanCountVote, NextJob, PassInv, Works
  <2>10. CASE BeginPeriod \/ \E answer \in Registries : Refresh(answer)
    BY <2>1, <2>10 DEF BeginPeriod, Refresh, PassInv, Works
  <2>11. CASE EndPass \/ RemoveExpired \/ AbortWork
    BY <1>2, <2>11 DEF EndPass, RemoveExpired, AbortWork
  <2> QED
    BY <1>3, <2>2, <2>3, <2>4, <2>5, <2>6, <2>7, <2>8, <2>9, <2>10, <2>11 DEF OnWork
<1>4. CASE Crash
  BY <1>2, <1>4 DEF Crash
<1> QED
  BY <1>1, <1>3, <1>4, PassFrame


\* Between its snapshot and its end a pass finds its rows in place, and only
\* its own updateSendCode() gives one of them a code.
LEMMA RowsKept ==
  ASSUME TypeOK, IndInv, [Next]_vars, ~RemoveExpired,
         NEW id \in RequestIds, validation[id] # Absent,
         ~(WriteSendCode /\ work.job.requestId = id)
  PROVE  validation'[id] # Absent /\ validation'[id].sendCode = validation[id].sendCode
<1>1. CASE UNCHANGED <<validation, spent>>
  BY <1>1
<1>2. ASSUME NEW i \in RequestIds, InsertRow(i)
      PROVE  validation'[id] = validation[id]
  BY <1>2 DEF InsertRow, createValidation, TypeOK, Tables
<1>3. ASSUME NEW i \in RequestIds, NEW step \in ProcessStep, WriteStep(i, step)
      PROVE  validation'[id] # Absent /\ validation'[id].sendCode = validation[id].sendCode
  BY <1>3, UpdateStep DEF WriteStep, TypeOK
<1>4. ASSUME NEW i \in RequestIds, NEW status \in {"CONFIRMED", "EXPIRED"},
             WriteStatus(i, status)
      PROVE  validation'[id] # Absent /\ validation'[id].sendCode = validation[id].sendCode
  <2>1. status \in PhoneValidationStatus
    BY DEF PhoneValidationStatus
  <2> QED
    BY <1>4, <2>1, UpdateStatus DEF WriteStatus, TypeOK
<1>5. CASE WriteSendCode
  <2>1. work.job.requestId \in RequestIds \ {id} /\ work.job.data \in ValidationData
    BY <1>5 DEF WriteSendCode, TypeOK, JobPC, PhonePC, Jobs
  <2> QED
    BY <1>5, <2>1, UpdateCode DEF WriteSendCode, TypeOK
<1> QED
  BY <1>1, <1>2, <1>3, <1>4, <1>5, TableChange

LEMMA SnapshotsLast ==
  ASSUME TypeOK, IndInv, [Next]_vars, ~RemoveExpired,
         NEW job \in Jobs, Current(job),
         ~(WriteSendCode /\ work.job.requestId = job.requestId)
  PROVE  Current(job)'
<1>1. job.requestId \in RequestIds /\ validation[job.requestId] # Absent
  BY DEF Jobs, Current
<1>2. /\ validation'[job.requestId] # Absent
      /\ validation'[job.requestId].sendCode = validation[job.requestId].sendCode
  BY <1>1, RowsKept
<1>3. presented \subseteq presented'
  BY Growth
<1> QED
  BY <1>1, <1>2, <1>3 DEF Current, Proven

\* The snapshots of the pass stay current, and every place of the pass hands
\* the next one what it relies on.
LEMMA SnapshotsPreserved ==
  ASSUME TypeOK, IndInv, [Next]_vars
  PROVE  SnapshotInv'
<1> USE DEF JobPC, PhonePC, VotePC, CountPC
<1>1. /\ work \in Works /\ work.jobs \subseteq Jobs
      /\ work.pc \in JobPC => work.job \in Jobs
      /\ \A job \in work.jobs : Current(job)
      /\ work.pc \in JobPC \ {"updateSendCode"} => Current(work.job)
      /\ PassInv
  BY DEF TypeOK, Works, IndInv, SnapshotInv
<1>2. ASSUME NEW job \in work.jobs, ~RemoveExpired PROVE Current(job)'
  <2>1. ~(WriteSendCode /\ work.job.requestId = job.requestId)
    BY <1>1 DEF WriteSendCode, PassInv
  <2> QED
    BY <1>1, <1>2, <2>1, SnapshotsLast
<1>3. ASSUME work.pc \in JobPC \ {"updateSendCode"}, NEW job, job = work.job PROVE Current(job)'
  <2>1. ~RemoveExpired /\ ~WriteSendCode
    BY <1>3 DEF RemoveExpired, WriteSendCode
  <2> QED
    BY <1>1, <1>3, <2>1, SnapshotsLast
<1>4. CASE UNCHANGED work
  <2>1. ~RemoveExpired
    BY <1>4 DEF RemoveExpired, Idle
  <2>2. \A job \in work'.jobs : Current(job)'
    BY <1>2, <1>4, <2>1
  <2>3. work'.pc \in JobPC \ {"updateSendCode"} => Current(work.job)'
    <3>1. SUFFICES ASSUME work'.pc \in JobPC \ {"updateSendCode"} PROVE Current(work.job)'
      OBVIOUS
    <3>2. \A job : job = work.job => Current(job)'
      BY <1>3, <1>4, <3>1
    <3> QED
      BY <1>4, <3>2 DEF Current, Proven
  <2>4. ASSUME work.pc \in {"updateSendCode", "markSent"}
        PROVE  /\ validation'[work.job.requestId] # Absent
               /\ validation'[work.job.requestId].sendCode
                    = validation[work.job.requestId].sendCode
    <3>1. work.job.requestId \in RequestIds /\ validation[work.job.requestId] # Absent
      BY <1>1, <2>4 DEF Jobs, IndInv, SnapshotInv, Current
    <3>2. ~WriteSendCode
      BY <1>1, <1>4 DEF WriteSendCode, Works
    <3> QED
      BY <2>1, <3>1, <3>2, RowsKept
  <2> QED
    BY <1>4, <2>2, <2>3, <2>4 DEF SnapshotInv, IndInv
<1>5. ASSUME work'.jobs = {}, work'.pc \notin JobPC PROVE SnapshotInv'
  BY <1>5 DEF SnapshotInv
<1>6. CASE work' = Idle
  BY <1>5, <1>6 DEF Idle
<1>7. ASSUME work'.jobs \subseteq work.jobs, work'.pc \in JobPC \ {"updateSendCode", "markSent"},
             ~RemoveExpired, NEW job, job = work'.job, Current(job)'
      PROVE  SnapshotInv'
  <2>1. \A j \in work'.jobs : Current(j)'
    BY <1>2, <1>7
  <2>2. Current(work.job)'
    BY <1>7 DEF Current, Proven
  <2> QED
    BY <1>7, <2>1, <2>2 DEF SnapshotInv
<1>8. CASE OnWork
  <2>1. CASE WaitForStartup
    BY <1>4, <2>1 DEF WaitForStartup
  <2>2. CASE BeginWork \/ \E answer \in Registries : Initialize(answer) \/ Refresh(answer)
    BY <1>1, <1>5, <2>2 DEF BeginWork, Initialize, Refresh, PassInv, Works
  <2>3. CASE BeginPeriod
    BY <1>1, <1>5, <2>3 DEF BeginPeriod, PassInv, Works
  <2>4. CASE EndPass \/ RemoveExpired \/ AbortWork
    BY <1>6, <2>4 DEF EndPass, RemoveExpired, AbortWork
  <2>5. CASE SelectJobs
    <3>1. ASSUME NEW job \in getUnfinishedJob(validation) PROVE Current(job)
      <4>1. PICK id \in RequestIds :
              /\ job = [requestId |-> id, data |-> validation[id]]
              /\ validation[id] # Absent
              /\ validation[id].processStep \notin {"NONE", "SENT_SMS", "FINISHED"}
        BY DEF getUnfinishedJob
      <4>2. validation[id].processStep \in ProcessStep
        BY <4>1 DEF TypeOK, Tables, ValidationData
      <4> QED
        BY <4>1, <4>2 DEF Current, Proven, ProcessStep, IndInv, RowInv, CodeProven, Step
    <3>2. work'.jobs = getUnfinishedJob(validation) /\ work'.pc = "loop"
      BY <1>1, <2>5 DEF SelectJobs, Works
    <3>3. UNCHANGED <<validation, presented>>
      BY <2>5 DEF SelectJobs
    <3> QED
      BY <3>1, <3>2, <3>3 DEF SnapshotInv, Current, Proven
  <2>6. ASSUME NEW job \in work.jobs, TakeJob(job) PROVE SnapshotInv'
    <3>1. work'.jobs \subseteq work.jobs /\ work'.job = job
          /\ work'.pc = CaseOf(job.data.processStep)
      BY <1>1, <2>6 DEF TakeJob, Works
    <3>2. CaseOf(job.data.processStep) \in JobPC \ {"updateSendCode", "markSent"}
      BY DEF CaseOf
    <3>3. ~RemoveExpired
      BY <2>6 DEF TakeJob, RemoveExpired
    <3>4. Current(job)'
      BY <1>2, <2>6, <3>3
    <3> QED
      BY <1>7, <3>1, <3>2, <3>3, <3>4
  <2>7. CASE AddRequest \/ VoteAgreement \/ CountVote \/ Confirm
    <3>1. work'.jobs = work.jobs /\ work'.job = work.job
          /\ work'.pc \in {"sendPhone", "markVoted", "confirm", "finish"}
          /\ work.pc \in JobPC \ {"updateSendCode"}
      BY <1>1, <2>7 DEF AddRequest, VoteAgreement, CountVote, Confirm, Works
    <3>2. ~RemoveExpired
      BY <3>1 DEF RemoveExpired
    <3>3. \A job : job = work.job => Current(job)'
      BY <1>3, <3>1
    <3> QED
      BY <1>7, <3>1, <3>2, <3>3
  <2>8. CASE SendPhone
    <3>1. /\ work.pc = "sendPhone" /\ work.job.data.validationStatus = "NONE"
          /\ UNCHANGED <<validation, presented>>
      BY <2>8 DEF SendPhone
    <3>2. Current(work.job)
      BY <1>1, <3>1
    <3>3. /\ work'.pc = "updateSendCode" /\ work'.jobs = work.jobs
          /\ work'.job.requestId = work.job.requestId
          /\ work'.job.data.validationStatus = "SENT"
          /\ work'.job.data.sendCode # NoCode
      BY <2>8, SendPhoneEffect
    <3>4. ~RemoveExpired
      BY <3>1 DEF RemoveExpired
    <3> QED
      BY <1>2, <3>1, <3>2, <3>3, <3>4 DEF SnapshotInv, Current
  <2>9. CASE SkipSendPhone
    <3>1. /\ work.pc = "sendPhone" /\ work.job.data.validationStatus # "NONE"
          /\ work'.pc = "markSent" /\ work'.job = work.job /\ work'.jobs = work.jobs
          /\ UNCHANGED validation
      BY <1>1, <2>9 DEF SkipSendPhone, Works
    <3>2. validation[work.job.requestId].sendCode # NoCode
      BY <1>1, <3>1 DEF Current
    <3>3. \A job : job = work.job => Current(job)'
      BY <1>3, <3>1
    <3>4. Current(work.job)'
      BY <3>1, <3>3 DEF Current, Proven
    <3>5. ~RemoveExpired
      BY <3>1 DEF RemoveExpired
    <3>6. \A job \in work'.jobs : Current(job)'
      BY <1>2, <3>1, <3>5
    <3> QED
      BY <3>1, <3>2, <3>4, <3>6 DEF SnapshotInv
  <2>10. CASE WriteSendCode
    <3>1. /\ work.pc = "updateSendCode" /\ work'.pc = "markSent"
          /\ work'.job = work.job /\ work'.jobs = work.jobs
      BY <1>1, <2>10 DEF WriteSendCode, Works
    <3>2. /\ work.job.requestId \in RequestIds /\ work.job.data \in ValidationData
          /\ validation[work.job.requestId] # Absent
          /\ work.job.data.sendCode # NoCode /\ work.job.data.validationStatus = "SENT"
          /\ work.job.data.processStep \in {"RECEIVED_REGISTER", "RECEIVED_BROADCAST"}
      BY <1>1, <3>1 DEF Jobs, IndInv, SnapshotInv, PassInv
    <3>3. /\ validation'[work.job.requestId] # Absent
          /\ validation'[work.job.requestId].sendCode # NoCode
      BY <2>10, <3>2, UpdateCode DEF WriteSendCode, TypeOK
    <3>4. ~RemoveExpired
      BY <3>1 DEF RemoveExpired
    <3> QED
      BY <1>2, <3>1, <3>2, <3>3, <3>4 DEF SnapshotInv, Current
  <2>11. CASE MarkSent \/ MarkVoted \/ Finish
    <3>1. work'.jobs = work.jobs /\ work'.pc = "loop"
      BY <1>1, <2>11 DEF MarkSent, MarkVoted, Finish, NextJob, Works
    <3>2. ~RemoveExpired
      BY <2>11 DEF MarkSent, MarkVoted, Finish, RemoveExpired
    <3> QED
      BY <1>2, <3>1, <3>2 DEF SnapshotInv
  <2>12. CASE CanCountVote
    <3>1. /\ work'.jobs = work.jobs /\ work.pc = "canCount"
          /\ \/ work'.pc = "loop"
             \/ work'.pc \in {"countVote", "confirm"} /\ work'.job = work.job
      BY <1>1, <2>12 DEF CanCountVote, NextJob, Works
    <3>2. ~RemoveExpired
      BY <3>1 DEF RemoveExpired
    <3>3. CASE work'.pc = "loop"
      BY <1>2, <3>1, <3>2, <3>3 DEF SnapshotInv
    <3>4. CASE work'.pc \in {"countVote", "confirm"} /\ work'.job = work.job
      <4>1. \A job : job = work.job => Current(job)'
        BY <1>3, <3>1
      <4> QED
        BY <1>7, <3>1, <3>2, <3>4, <4>1
    <3> QED
      BY <3>1, <3>3, <3>4
  <2> QED
    BY <1>8, <2>1, <2>2, <2>3, <2>4, <2>5, <2>6, <2>7, <2>8, <2>9, <2>10, <2>11, <2>12
    DEF OnWork
<1>9. CASE Crash
  BY <1>6, <1>9 DEF Crash
<1> QED
  BY <1>4, <1>8, <1>9, PassFrame


\* The places from which an answer of the contract, or the write it led to, is
\* used are reached by these steps alone.
LEMMA OnWorkTarget ==
  ASSUME TypeOK, OnWork
  PROVE  \/ UNCHANGED work
         \/ work'.pc \notin {"countVote", "confirm", "finish"}
         \/ CanCountVote \/ CountVote \/ Confirm
<1>1. work \in Works
  BY DEF TypeOK
<1>2. WaitForStartup => UNCHANGED work
  BY DEF WaitForStartup
<1>3. ASSUME NEW answer \in Registries, Initialize(answer) \/ Refresh(answer)
      PROVE  work'.pc \in {"select", "cleanup"}
  BY <1>1, <1>3 DEF Initialize, Refresh, Works
<1>4. ASSUME NEW job \in work.jobs, TakeJob(job)
      PROVE  work'.pc \in {"addRequest", "sendPhone", "vote", "canCount"}
  BY <1>1, <1>4 DEF TakeJob, CaseOf, Works
<1>5. BeginWork \/ SelectJobs \/ BeginPeriod
        => work'.pc \in {"init", "select", "loop", "refresh"}
  BY <1>1 DEF BeginWork, SelectJobs, BeginPeriod, Works
<1>6. AddRequest \/ SkipSendPhone \/ WriteSendCode \/ VoteAgreement
        => work'.pc \in {"sendPhone", "markSent", "markVoted"}
  BY <1>1 DEF AddRequest, SkipSendPhone, WriteSendCode, VoteAgreement, Works
<1>7. SendPhone => work'.pc = "updateSendCode"
  BY SendPhoneEffect
<1>8. MarkSent \/ MarkVoted \/ Finish => work'.pc = "loop"
  BY <1>1 DEF MarkSent, MarkVoted, Finish, NextJob, Works
<1>9. EndPass \/ RemoveExpired \/ AbortWork => work'.pc = "idle"
  BY DEF EndPass, RemoveExpired, AbortWork, Idle
<1> QED
  BY <1>2, <1>3, <1>4, <1>5, <1>6, <1>7, <1>8, <1>9 DEF OnWork

\* The contract counts a request only when a quorum has voted for it, and the
\* pass goes on to confirm a request only on an answer of the contract that
\* says so; votes are never taken back.
LEMMA AgreementPreserved ==
  ASSUME TypeOK, IndInv, [Next]_vars
  PROVE  AgreementInv'
<1> DEFINE Honest(new) ==
      \A id \in RequestIds : new[id].status = "COUNTED" => Agreed(new, id)
<1>1. \A id \in RequestIds : Agreed(requests, id) => Agreed(requests', id)
  BY Growth
<1>2. Honest(requests)
  BY DEF IndInv, AgreementInv
<1>3. ASSUME NEW id \in RequestIds
      PROVE  /\ Honest(addRequest(requests, id))
             /\ Honest(countVote(requests, id))
             /\ \A v : Honest(voteRequest(requests, id, v))
  BY <1>2, <1>3
  DEF addRequest, countVote, canCountVote, voteRequest, isAvailable, Agreed, TypeOK, Request
<1> HIDE DEF Honest
<1>4. Honest(requests')
  <2>1. CASE UNCHANGED requests
    BY <1>2, <2>1 DEF Honest, Agreed
  <2>2. ASSUME NEW tx \in mempool, Mine(tx) PROVE Honest(requests')
    BY <1>3, <2>2 DEF Mine, Execute, TypeOK, Transactions
  <2>3. ASSUME NEW id \in RequestIds, OtherAdd(id) \/ OtherCount(id) PROVE Honest(requests')
    BY <1>3, <2>3 DEF OtherAdd, OtherCount, ByOthers
  <2>4. ASSUME NEW id \in RequestIds, NEW v \in Validators, OtherVote(v, id)
        PROVE  Honest(requests')
    BY <1>3, <2>4 DEF OtherVote, ByOthers
  <2>5. Handlers => UNCHANGED requests
    BY DEF Handlers, PostRequest, PostBroadcast, TimerFires, PostSubmit, PostBroadcastSubmit,
           BeginSubmit, ProcessSubmit, RefuseSubmit, ReadValidation, CheckInTime, CheckTooLate,
           AcceptCode, WriteExpired, chain
  <2>6. OnWork => UNCHANGED requests
    BY DEF OnWork, WaitForStartup, BeginWork, Initialize, SelectJobs, TakeJob, AddRequest,
           SendPhone, SkipSendPhone, WriteSendCode, MarkSent, VoteAgreement, MarkVoted,
           CanCountVote, CountVote, Confirm, Finish, EndPass, BeginPeriod, Refresh,
           RemoveExpired, AbortWork, SendTransaction, chain
  <2>7. (\E tx \in mempool : Drop(tx)) \/ Tick \/ Crash \/ UNCHANGED vars
          => UNCHANGED requests
    BY DEF Drop, Tick, Crash, vars, chain
  <2> QED
    BY <2>1, <2>2, <2>3, <2>4, <2>5, <2>6, <2>7 DEF Next, Environment
<1>5. work'.pc \in {"countVote", "confirm", "finish"} =>
        Agreed(requests', work'.job.requestId)
  <2>1. SUFFICES ASSUME work'.pc \in {"countVote", "confirm", "finish"}
                 PROVE  Agreed(requests', work'.job.requestId)
    OBVIOUS
  <2>2. work \in Works /\ (work.pc \in CountPC => work.job.requestId \in RequestIds)
    BY DEF TypeOK, JobPC, Jobs
  <2>3. ASSUME work.pc \in {"countVote", "confirm", "finish"}, work'.job = work.job
        PROVE  Agreed(requests', work'.job.requestId)
    BY <1>1, <2>2, <2>3 DEF IndInv, AgreementInv, CountPC
  <2>4. CASE CanCountVote
    <3>1. /\ work.pc = "canCount" /\ work'.job = work.job
          /\ canCountVote(requests, work.job.requestId) \in {0, 1}
      BY <2>1, <2>2, <2>4 DEF CanCountVote, NextJob, canCountVote, Works
    <3>2. work.job.requestId \in RequestIds
      BY <2>2, <3>1 DEF CountPC
    <3>3. Agreed(requests, work.job.requestId)
      BY <1>2, <3>1, <3>2 DEF canCountVote, Honest
    <3> QED
      BY <1>1, <3>1, <3>2, <3>3
  <2>5. CASE CountVote \/ Confirm
    BY <2>2, <2>3, <2>5 DEF CountVote, Confirm, Works
  <2>6. OnWork => \/ UNCHANGED work
                  \/ work'.pc \notin {"countVote", "confirm", "finish"}
                  \/ CanCountVote \/ CountVote \/ Confirm
    BY OnWorkTarget
  <2>7. Crash => work'.pc = "idle"
    BY DEF Crash, Idle
  <2> QED
    BY <2>1, <2>3, <2>4, <2>5, <2>6, <2>7, PassFrame
<1> QED
  BY <1>4, <1>5 DEF AgreementInv, Honest

\* Between the two writes that finish a request its row may be expired by a
\* submit, but not opened again.
LEMMA ClosingPreserved ==
  ASSUME TypeOK, IndInv, [Next]_vars
  PROVE  ClosingInv'
<1> DEFINE id == work.job.requestId
           Closed == {"CONFIRMED", "EXPIRED"}
<1>1. SUFFICES ASSUME work'.pc = "finish"
               PROVE  validation'[work'.job.requestId].validationStatus \in Closed
  BY DEF ClosingInv
<1>2. work \in Works /\ (work.pc \in JobPC => id \in RequestIds)
  BY DEF TypeOK, Jobs
<1>3. CASE Confirm
  <2>1. work.pc = "confirm" /\ work'.job = work.job
        /\ validation' = updateValidationStatus(validation, id, "CONFIRMED")
    BY <1>2, <1>3 DEF Confirm, Works
  <2>2. validation[id] # Absent /\ id \in RequestIds
    BY <1>2, <2>1 DEF IndInv, SnapshotInv, Current, JobPC, CountPC
  <2>3. "CONFIRMED" \in PhoneValidationStatus
    BY DEF PhoneValidationStatus
  <2> QED
    BY <2>1, <2>2, <2>3, UpdateStatus DEF TypeOK
<1>4. OnWork => UNCHANGED work \/ Confirm
  <2>1. CanCountVote => work'.pc # "finish"
    BY <1>2 DEF CanCountVote, NextJob, canCountVote, Works
  <2>2. CountVote => work'.pc # "finish"
    BY <1>2 DEF CountVote, Works
  <2> QED
    BY <1>1, <2>1, <2>2, OnWorkTarget
<1>5. Crash => work'.pc # "finish"
  BY DEF Crash, Idle
<1>6. CASE UNCHANGED work
  <2>1. work.pc = "finish" /\ id \in RequestIds /\ validation[id] # Absent
        /\ validation[id].validationStatus \in Closed
    BY <1>1, <1>2, <1>6 DEF IndInv, ClosingInv, SnapshotInv, Current, JobPC, CountPC
  <2>2. ~WriteSendCode /\ ~RemoveExpired
    BY <2>1 DEF WriteSendCode, RemoveExpired
  <2>3. ASSUME NEW i \in RequestIds, InsertRow(i)
        PROVE  validation'[id].validationStatus \in Closed
    BY <2>1, <2>3 DEF InsertRow, createValidation, TypeOK, Tables
  <2>4. ASSUME NEW i \in RequestIds, NEW step \in ProcessStep, WriteStep(i, step)
        PROVE  validation'[id].validationStatus \in Closed
    BY <2>1, <2>4, UpdateStep DEF WriteStep, TypeOK
  <2>5. ASSUME NEW i \in RequestIds, NEW status \in Closed, WriteStatus(i, status)
        PROVE  validation'[id].validationStatus \in Closed
    <3>1. status \in PhoneValidationStatus
      BY DEF PhoneValidationStatus
    <3> DEFINE new == updateValidationStatus(validation, i, status)
    <3>2. /\ new[i].validationStatus = status \/ validation[i] = Absent
          /\ \A j \in RequestIds \ {i} : new[j] = validation[j]
      BY <3>1, UpdateStatus DEF TypeOK
    <3>3. validation' = new
      BY <2>5 DEF WriteStatus
    <3> HIDE DEF new
    <3> QED
      BY <2>1, <3>2, <3>3
  <2> QED
    BY <1>6, <2>1, <2>2, <2>3, <2>4, <2>5, TableChange
<1> QED
  BY <1>1, <1>3, <1>4, <1>5, <1>6, PassFrame

LEMMA InitialInv == Init => IndInv
<1> SUFFICES ASSUME Init PROVE IndInv
  OBVIOUS
<1>1. /\ \A id \in RequestIds : validation[id] = Absent /\ requests[id].status = "INVALID"
      /\ \A s \in Submits : submits[s] = Absent
      /\ work = Idle /\ timers = {}
  BY DEF Init, createTables
<1>2. work.pc = "idle" /\ work.jobs = {}
  BY <1>1 DEF Idle
<1>3. RowInv /\ CodeProven /\ FinishedMeansAgreed /\ FinishedIsClosed
  BY <1>1 DEF RowInv, CodeProven, FinishedMeansAgreed, FinishedIsClosed, Step
<1>4. PassInv /\ SnapshotInv /\ ClosingInv /\ AgreementInv
  BY <1>1, <1>2
  DEF PassInv, SnapshotInv, ClosingInv, AgreementInv, JobPC, PhonePC, VotePC, CountPC
<1>5. SubmitInv /\ TimerInv
  BY <1>1 DEF SubmitInv, TimerInv
<1> QED
  BY <1>3, <1>4, <1>5 DEF IndInv

LEMMA NextInv == TypeOK /\ IndInv /\ [Next]_vars => IndInv'
BY RowsPreserved, PassPreserved, SnapshotsPreserved, SubmitsPreserved, TimersPreserved,
   AgreementPreserved, ClosingPreserved
DEF IndInv

-----------------------------------------------------------------------------
(* The theorems.                                                           *)

\* Whatever is interleaved with them, the job, the submits and the timers find
\* what they rely on when an await of theirs returns.
THEOREM Invariance == Spec => []IndInv
<1>1. Spec => []TypeOK
  BY TypeCorrect
<1> QED
  BY <1>1, InitialInv, NextInv, PTL DEF Spec

\* No request is voted for, here or after a restart, on a code that nobody
\* presented in time.
THEOREM CodeIsProven == Spec => []CodeProven
BY Invariance, PTL DEF IndInv

\* What this node calls confirmed or finished a quorum of validators agreed on.
THEOREM FinishedIsAgreed == Spec => []FinishedMeansAgreed
BY Invariance, PTL DEF IndInv

\* A submit that has read the row before it was finished does not open it for
\* another code.
THEOREM FinishedStaysClosed == Spec => []FinishedIsClosed
BY Invariance, PTL DEF IndInv

\* Passes, crashes and submits in any order leave a code and its expiry as
\* they were sent.
THEOREM CodeIsStable == Spec => CodeStable
<1>1. ASSUME TypeOK, IndInv, [Next]_vars, NEW id \in RequestIds,
             validation[id] # Absent, validation'[id] # Absent,
             validation[id].sendCode # NoCode
      PROVE  /\ validation'[id].sendCode = validation[id].sendCode
             /\ validation'[id].expire = validation[id].expire
  BY <1>1, Persistence DEF Persists
<1> DEFINE Stable == \A id \in RequestIds :
      validation[id] # Absent /\ validation'[id] # Absent
      /\ validation[id].sendCode # NoCode =>
        /\ validation'[id].sendCode = validation[id].sendCode
        /\ validation'[id].expire = validation[id].expire
<1>2. TypeOK /\ IndInv /\ [Next]_vars => [Stable]_vars
  BY <1>1
<1>3. Spec => []TypeOK /\ []IndInv
  BY TypeCorrect, Invariance
<1> QED
  BY <1>2, <1>3, PTL DEF Spec, CodeStable

\* A vote this node sends is for a row it keeps and a code it was shown.
THEOREM VotesNeedCodes == Spec => VoteNeedsCode
<1> DEFINE Needed == Mode # "NoSMSNoCode" =>
       \A id \in RequestIds :
         [op |-> "voteRequest", id |-> id] \in mempool' \ mempool =>
           /\ validation[id] # Absent
           /\ <<id, validation[id].sendCode>> \in presented
<1>1. ASSUME TypeOK, IndInv, [Next]_vars PROVE Needed
  <2>1. ASSUME Mode # "NoSMSNoCode", NEW id \in RequestIds,
               [op |-> "voteRequest", id |-> id] \in mempool' \ mempool
        PROVE  VoteAgreement /\ id = work.job.requestId
    <3>1. Handlers => UNCHANGED mempool
      BY DEF Handlers, PostRequest, PostBroadcast, TimerFires, PostSubmit, PostBroadcastSubmit,
             BeginSubmit, ProcessSubmit, RefuseSubmit, ReadValidation, CheckInTime,
             CheckTooLate, AcceptCode, WriteExpired, chain
    <3>2. Environment => mempool' \subseteq mempool
      BY DEF Environment, Mine, Drop, OtherAdd, OtherVote, OtherCount, ByOthers, Tick, Crash,
             chain
    <3>3. OnWork /\ ~(AddRequest \/ VoteAgreement \/ CountVote) => UNCHANGED mempool
      BY DEF OnWork, WaitForStartup, BeginWork, Initialize, SelectJobs, TakeJob, SendPhone,
             SkipSendPhone, WriteSendCode, MarkSent, MarkVoted, CanCountVote, Confirm, Finish,
             EndPass, BeginPeriod, Refresh, RemoveExpired, AbortWork, chain
    <3>4. ASSUME NEW op, SendTransaction(op)
          PROVE  op = "voteRequest" /\ id = work.job.requestId
      BY <2>1, <3>4 DEF SendTransaction
    <3>5. UNCHANGED vars => UNCHANGED mempool
      BY DEF vars, chain
    <3>6. ~(mempool' \subseteq mempool)
      BY <2>1
    <3>7. AddRequest \/ VoteAgreement \/ CountVote
      BY <1>1, <3>1, <3>2, <3>3, <3>5, <3>6 DEF Next
    <3> QED
      BY <3>4, <3>7 DEF AddRequest, VoteAgreement, CountVote
  <2>2. ASSUME Mode # "NoSMSNoCode", VoteAgreement
        PROVE  validation[work.job.requestId] # Absent /\ Proven(work.job.requestId)
    <3>1. work.pc = "vote"
      BY <2>2 DEF VoteAgreement
    <3>2. work.pc \in VotePC /\ work.pc \in JobPC \ {"updateSendCode"}
      BY <3>1 DEF JobPC, VotePC
    <3>3. Current(work.job)
      BY <1>1, <3>2 DEF IndInv, SnapshotInv
    <3>4. work.job.data.processStep = "RECEIVED_CODE"
      BY <1>1, <3>2 DEF IndInv, PassInv
    <3> QED
      BY <2>2, <3>3, <3>4 DEF Current
  <2> QED
    BY <2>1, <2>2 DEF Proven
<1>2. TypeOK /\ IndInv /\ [Next]_vars => [Needed]_vars
  BY <1>1
<1>3. Spec => []TypeOK /\ []IndInv
  BY TypeCorrect, Invariance
<1> QED
  BY <1>2, <1>3, PTL DEF Spec, VoteNeedsCode

=============================================================================
