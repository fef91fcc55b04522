--------------------------- MODULE RequestProofs ---------------------------
(***************************************************************************)
(* What the promise of Request is worth to a client, for every value of    *)
(* its constants.                                                          *)
(***************************************************************************)
EXTENDS Request, TLAPS

Shape ==
  /\ texts \in [RequestIds -> Text \union {Absent}]
  /\ voters \in [RequestIds -> SUBSET Validators]
  /\ closed \subseteq RequestIds

\* Proof and agreement outlive every step but the forgetting of the request.
LEMMA EarnedStep ==
  ASSUME Shape, ClosedIsEarned, Me \in Validators, Absent \notin Text, [Next]_request
  PROVE  Shape' /\ ClosedIsEarned'
<1> USE DEF Shape, ClosedIsEarned, Proven, Agreed, Texted, Known
<1>1. ASSUME NEW id \in RequestIds, Store(id) PROVE Shape' /\ ClosedIsEarned'
  BY <1>1 DEF Store, Untexted, Text
<1>2. ASSUME NEW id \in RequestIds, NEW code \in Codes, NEW late \in BOOLEAN,
             SendCode(id, code, late)
      PROVE  Shape' /\ ClosedIsEarned'
  BY <1>2 DEF SendCode, Text
<1>3. ASSUME NEW id \in RequestIds, NEW codes, Present(id, codes)
      PROVE  Shape' /\ ClosedIsEarned'
  BY <1>3 DEF Present
<1>4. ASSUME NEW id \in RequestIds, Vote(id) PROVE Shape' /\ ClosedIsEarned'
  BY <1>4 DEF Vote
<1>5. ASSUME NEW id \in RequestIds, NEW v \in Validators,
             voters' \in {voters, [voters EXCEPT ![id] = @ \union {v}]},
             UNCHANGED <<texts, presented, closed>>
      PROVE  Shape' /\ ClosedIsEarned'
  <2>1. Shape' /\ \A i \in RequestIds : voters[i] \subseteq voters'[i]
    BY <1>5
  <2> QED
    BY <1>5, <2>1
<1>6. ASSUME NEW id \in RequestIds, Deliver(id) PROVE Shape' /\ ClosedIsEarned'
  BY <1>5, <1>6 DEF Deliver
<1>7. ASSUME NEW id \in RequestIds, NEW v \in Validators, VoteByOther(id, v)
      PROVE  Shape' /\ ClosedIsEarned'
  BY <1>5, <1>7 DEF VoteByOther
<1>8. ASSUME NEW id \in RequestIds, Close(id) PROVE Shape' /\ ClosedIsEarned'
  BY <1>8 DEF Close
<1>9. ASSUME NEW id \in RequestIds, Reopen(id) PROVE Shape' /\ ClosedIsEarned'
  BY <1>9 DEF Reopen
<1>10. ASSUME NEW ids \in SUBSET RequestIds, Lapse(ids) PROVE Shape' /\ ClosedIsEarned'
  <2> DEFINE aged(id) == [texts[id] EXCEPT !.late = TRUE]
  <2>1. \A id \in ids : aged(id) \in Text /\ aged(id).code = texts[id].code
    BY <1>10 DEF Lapse, Text
  <2>2. texts' = [id \in RequestIds |-> IF id \in ids THEN aged(id) ELSE texts[id]]
    BY <1>10 DEF Lapse
  <2> HIDE DEF aged
  <2>3. Shape'
    BY <1>10, <2>1, <2>2 DEF Lapse
  <2>4. \A id \in closed : texts'[id] # Absent /\ texts'[id].code = texts[id].code
    BY <2>1, <2>2
  <2>5. UNCHANGED <<presented, voters, closed>>
    BY <1>10 DEF Lapse
  <2> QED
    BY <2>3, <2>4, <2>5
<1>11. ASSUME NEW ids \in SUBSET RequestIds, Forget(ids) PROVE Shape' /\ ClosedIsEarned'
  BY <1>11 DEF Forget
<1>12. CASE UNCHANGED request
  BY <1>12 DEF request
<1> QED
  BY <1>1, <1>2, <1>3, <1>4, <1>6, <1>7, <1>8, <1>9, <1>10, <1>11, <1>12 DEF Next

\* Whatever keeps the promise of Request closes a request only on a code that
\* was brought in time and on the agreement of a quorum, and stays so.
THEOREM ClosedRequestsAreEarned ==
  ASSUME Me \in Validators, Absent \notin Text
  PROVE  Spec => []ClosedIsEarned
<1>1. Init => Shape /\ ClosedIsEarned
  BY DEF Init, Shape, ClosedIsEarned
<1>2. Shape /\ ClosedIsEarned /\ [Next]_request => (Shape /\ ClosedIsEarned)'
  BY EarnedStep
<1> QED
  BY <1>1, <1>2, PTL DEF Spec

=============================================================================
