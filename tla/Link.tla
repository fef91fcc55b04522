-------------------------------- MODULE Link --------------------------------
(***************************************************************************)
(* What all validators together promise of a request, whatever happens     *)
(* between them: a validator votes only after a code of its own has come   *)
(* back to it in time, a phone number is linked only when a quorum has     *)
(* voted, and the link is final.  Network shows how the nodes, their calls *)
(* and the contract bring this about.                                      *)
(***************************************************************************)
CONSTANTS RequestIds, Validators, Quorums

VARIABLES
  proven,   \* id -> the validators whose code came back in time
  ballots,  \* <<id, validator>>: votes sent and not yet delivered
  voters,   \* id -> the validators whose votes have been delivered
  linked    \* the requests whose link is made

link == <<proven, ballots, voters, linked>>

Init ==
  /\ proven = [id \in RequestIds |-> {}]
  /\ ballots = {}
  /\ voters = [id \in RequestIds |-> {}]
  /\ linked = {}

\* A client submits to all, so that several codes may come back at once.
Prove(id, new) ==
  /\ proven' = [proven EXCEPT ![id] = @ \union new]
  /\ UNCHANGED <<ballots, voters, linked>>

Vote(id, v) ==
  /\ v \in proven[id]
  /\ ballots' = ballots \union {<<id, v>>}
  /\ UNCHANGED <<proven, voters, linked>>

\* The vote is delivered, and counts if the link is not made; or it is lost.
Deliver(id, v) ==
  /\ <<id, v>> \in ballots
  /\ ballots' = ballots \ {<<id, v>>}
  /\ \/ UNCHANGED voters
     \/ id \notin linked /\ voters' = [voters EXCEPT ![id] = @ \union {v}]
  /\ UNCHANGED <<proven, linked>>

MakeLink(id) ==
  /\ \E q \in Quorums : q \subseteq voters[id]
  /\ linked' = linked \union {id}
  /\ UNCHANGED <<proven, ballots, voters>>

Next ==
  \E id \in RequestIds :
    \/ \E new \in SUBSET Validators : Prove(id, new)
    \/ \E v \in Validators : Vote(id, v) \/ Deliver(id, v)
    \/ MakeLink(id)

Spec == Init /\ [][Next]_link

=============================================================================
