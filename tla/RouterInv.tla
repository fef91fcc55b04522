----------------------------- MODULE RouterInv -----------------------------
(***************************************************************************)
(* The inductive invariant of Router: what every continuation may rely on  *)
(* when it resumes after an await, whatever ran in between.                *)
(***************************************************************************)
EXTENDS Router

\* The row of the request has its code, or it had one and has been removed.
Texted(id) ==
  IF validation[id] = Absent THEN id \in spent ELSE validation[id].sendCode # NoCode

\* ... and that code has expired.
Late(id) == Texted(id) /\ (validation[id] # Absent => validation[id].expire <= clock)

\* As long as there is a row, a client has presented its code in time.
Proven(id) ==
  validation[id] # Absent => <<id, validation[id].sendCode>> \in presented

-----------------------------------------------------------------------------
\* A row has a code exactly from the moment its status leaves NONE, and its
\* step moves on only after that.
RowInv ==
  \A id \in RequestIds : validation[id] # Absent =>
    /\ (validation[id].validationStatus = "NONE") <=> (validation[id].sendCode = NoCode)
    /\ validation[id].validationStatus = "NONE" =>
         validation[id].processStep \in {"RECEIVED_REGISTER", "RECEIVED_BROADCAST"}

\* The current job and the place where the pass is agree, and no other job of
\* the pass is for the same request.
PassInv ==
  /\ work.pc \in {"idle", "init", "select", "refresh", "cleanup"} => work.jobs = {}
  /\ work.pc \in PhonePC =>
       work.job.data.processStep \in {"RECEIVED_REGISTER", "RECEIVED_BROADCAST"}
  /\ work.pc \in VotePC => work.job.data.processStep = "RECEIVED_CODE"
  /\ work.pc \in CountPC => work.job.data.processStep = "VOTED"
  /\ \A j, k \in work.jobs : j.requestId = k.requestId => j = k
  /\ work.pc \in JobPC => \A j \in work.jobs : j.requestId # work.job.requestId

\* What a snapshot of the pass still says about the row as it is now: the row
\* is there, it has no code exactly if the snapshot has none, and a code that
\* the snapshot says was received was presented.
Current(job) ==
  /\ validation[job.requestId] # Absent
  /\ (job.data.validationStatus = "NONE") <=>
       (validation[job.requestId].sendCode = NoCode)
  /\ job.data.processStep \in {"RECEIVED_REGISTER", "RECEIVED_BROADCAST",
                               "RECEIVED_CODE", "VOTED"}
  /\ job.data.processStep \in {"RECEIVED_CODE", "VOTED"} =>
       /\ job.data.validationStatus # "NONE"
       /\ Mode # "NoSMSNoCode" => Proven(job.requestId)

SnapshotInv ==
  /\ \A job \in work.jobs : Current(job)
  /\ work.pc \in JobPC \ {"updateSendCode"} => Current(work.job)
  /\ work.pc = "updateSendCode" =>
       /\ validation[work.job.requestId] # Absent
       /\ validation[work.job.requestId].sendCode = NoCode
       /\ work.job.data.sendCode # NoCode
       /\ work.job.data.validationStatus = "SENT"
  /\ work.pc = "markSent" => validation[work.job.requestId].sendCode # NoCode

\* What a submit knows: its code was presented in time or it comes too late,
\* and the code it has read is the code of the row for as long as that lives.
SubmitInv ==
  \A s \in Submits : submits[s] # Absent =>
    LET call == submits[s] IN
    /\ call.pc = "getValidation" =>
         \/ \A i \in Indexes : <<call.id, call.code[i]>> \in presented
         \/ Late(call.id)
    /\ call.pc = "checkExpiry" =>
         /\ call.row.sendCode # NoCode
         /\ Texted(call.id)
         /\ validation[call.id] # Absent =>
              /\ validation[call.id].sendCode = call.row.sendCode
              /\ validation[call.id].expire = call.row.expire
         /\ \/ \A i \in Indexes : <<call.id, call.code[i]>> \in presented
            \/ call.row.expire <= clock
    /\ call.pc = "accept" => Texted(call.id) /\ Proven(call.id)
    /\ call.pc = "expire" => Texted(call.id)

TimerInv ==
  /\ timers # {} => Mode = "NoSMSNoCode"
  /\ \A id \in timers : Texted(id)

\* The contract counts only what a quorum agrees on, and the pass confirms
\* only after the contract has said so.
AgreementInv ==
  /\ \A id \in RequestIds : requests[id].status = "COUNTED" => Agreed(requests, id)
  /\ work.pc \in {"countVote", "confirm", "finish"} =>
       Agreed(requests, work.job.requestId)

ClosingInv ==
  work.pc = "finish" =>
    validation[work.job.requestId].validationStatus \in {"CONFIRMED", "EXPIRED"}

\* The inductive invariant: every continuation, when it resumes, still holds
\* what the code relies on; CodeProven, FinishedMeansAgreed and
\* FinishedIsClosed are among its parts.
IndInv ==
  /\ RowInv
  /\ PassInv
  /\ SnapshotInv
  /\ SubmitInv
  /\ TimerInv
  /\ CodeProven
  /\ AgreementInv
  /\ FinishedMeansAgreed
  /\ ClosingInv
  /\ FinishedIsClosed

=============================================================================
