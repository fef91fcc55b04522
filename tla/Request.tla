------------------------------- MODULE Request -------------------------------
(***************************************************************************)
(* What one validator promises about the requests it is told of, whatever  *)
(* goes on inside it: it texts at most one code for a request, it votes    *)
(* for the request only if a client has brought that code before it was    *)
(* too late, and it closes the request only on that proof and when a       *)
(* quorum has agreed.  There are no passes, continuations, snapshots or    *)
(* restarts here: a node that crashes has made no step of this module.     *)
(***************************************************************************)
CONSTANTS
  RequestIds,   \* the requests
  Codes,        \* the codes a validator may text
  NoCode,       \* no code
  Absent,       \* stands for a request this validator does not know
  Validators,   \* all validators
  Quorums,      \* the sets of voters whose agreement makes the link
  Me,           \* this validator
  Trusting      \* no client is asked (mode NoSMSNoCode)

VARIABLES
  texts,      \* id -> Absent, or the code texted and whether it is too late for it
  presented,  \* <<id, code>> presented by clients before it was too late
  ballots,    \* ids for which a vote has been sent and not yet been delivered
  voters,     \* id -> the validators whose votes have been delivered
  closed      \* ids this validator is done with

request == <<texts, presented, ballots, voters, closed>>

Text == [code : Codes \union {NoCode}, late : BOOLEAN]

Untexted == [code |-> NoCode, late |-> FALSE]

Known(id)  == texts[id] # Absent
Texted(id) == Known(id) /\ texts[id].code # NoCode
Late(id)   == Texted(id) /\ texts[id].late

Proven(id) == Texted(id) /\ (Trusting \/ <<id, texts[id].code>> \in presented)

Agreed(id) == \E q \in Quorums : q \subseteq voters[id]

Init ==
  /\ texts = [id \in RequestIds |-> Absent]
  /\ presented = {}
  /\ ballots = {}
  /\ voters = [id \in RequestIds |-> {}]
  /\ closed = {}

-----------------------------------------------------------------------------
Store(id) ==
  /\ ~Known(id)
  /\ texts' = [texts EXCEPT ![id] = Untexted]
  /\ UNCHANGED <<presented, ballots, voters, closed>>

\* One code for a request, once; it may be late by the time it is noted.
SendCode(id, code, late) ==
  /\ Known(id)
  /\ ~Texted(id)
  /\ texts' = [texts EXCEPT ![id] = [code |-> code, late |-> late]]
  /\ UNCHANGED <<presented, ballots, voters, closed>>

Lapse(ids) ==
  /\ \A id \in ids : Texted(id)
  /\ texts' = [id \in RequestIds |->
                 IF id \in ids THEN [texts[id] EXCEPT !.late = TRUE] ELSE texts[id]]
  /\ UNCHANGED <<presented, ballots, voters, closed>>

\* A client brings codes for a request; what comes too late proves nothing.
Present(id, codes) ==
  /\ ~Late(id)
  /\ presented' = presented \union {<<id, code>> : code \in codes}
  /\ UNCHANGED <<texts, ballots, voters, closed>>

Vote(id) ==
  /\ Proven(id)
  /\ ballots' = ballots \union {id}
  /\ UNCHANGED <<texts, presented, voters, closed>>

\* The vote is delivered, and counts or not, or it is lost.
Deliver(id) ==
  /\ id \in ballots
  /\ ballots' = ballots \ {id}
  /\ voters' \in {voters, [voters EXCEPT ![id] = @ \union {Me}]}
  /\ UNCHANGED <<texts, presented, closed>>

VoteByOther(id, v) ==
  /\ v # Me
  /\ voters' = [voters EXCEPT ![id] = @ \union {v}]
  /\ UNCHANGED <<texts, presented, ballots, closed>>

Close(id) ==
  /\ Proven(id)
  /\ Agreed(id)
  /\ closed' = closed \union {id}
  /\ UNCHANGED <<texts, presented, ballots, voters>>

\* The same proof is looked at once more.
Reopen(id) ==
  /\ Proven(id)
  /\ closed' = closed \ {id}
  /\ UNCHANGED <<texts, presented, ballots, voters>>

\* Only what waits for no code any more is forgotten.
Forget(ids) ==
  /\ \A id \in ids : Known(id) /\ (Texted(id) => Late(id))
  /\ texts' = [id \in RequestIds |-> IF id \in ids THEN Absent ELSE texts[id]]
  /\ closed' = closed \ ids
  /\ UNCHANGED <<presented, ballots, voters>>

Next ==
  \/ \E id \in RequestIds :
       \/ Store(id)
       \/ \E code \in Codes, late \in BOOLEAN : SendCode(id, code, late)
       \/ \E codes \in SUBSET (Codes \union {NoCode}) : Present(id, codes)
       \/ Vote(id)
       \/ Deliver(id)
       \/ \E v \in Validators : VoteByOther(id, v)
       \/ Close(id)
       \/ Reopen(id)
  \/ \E ids \in SUBSET RequestIds : Lapse(ids) \/ Forget(ids)

Spec == Init /\ [][Next]_request

-----------------------------------------------------------------------------
\* What a client may conclude from the promise: while a request is closed
\* here, its code was brought in time and a quorum has agreed.
ClosedIsEarned == \A id \in closed : Proven(id) /\ Agreed(id)

=============================================================================
