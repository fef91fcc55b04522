------------------------- MODULE NetworkRefinement -------------------------
(***************************************************************************)
(* Each node of Network keeps the promise of Request, which Router keeps:  *)
(* what Network takes for one step of a node, and the calls of the other   *)
(* nodes, break nothing of it.  The mapping leaves of a row its code and   *)
(* whether it has expired, of the mempool the votes of the node, and of    *)
(* what clients brought the codes that the node had texted, in time.  And  *)
(* all nodes together keep the promise of Link.                            *)
(***************************************************************************)
EXTENDS Network

ASSUME AbsentTextAssumption ==
  Absent \notin [code : Codes \union {NoCode}, late : BOOLEAN]

TextOf(row) ==
  IF row = Absent THEN Absent
  ELSE [code |-> row.sendCode, late |-> row.sendCode # NoCode /\ row.expire <= clock]

\* node -> what it has texted for each request it knows
TextsNow == [n \in Validators |-> [id \in RequestIds |-> TextOf(validation[n][id])]]

\* node -> the codes brought to it in time
BroughtNow ==
  [n \in Validators |-> {a \in RequestIds \X Codes : InTime(n, a[1], a[2])}]

\* node -> the requests for which its vote is under way
BallotsNow ==
  [n \in Validators |->
     {id \in RequestIds : [op |-> "voteRequest", id |-> id, from |-> n] \in mempool}]

VotersNow == [id \in RequestIds |-> requests[id].voters]

\* node -> the requests it is done with
ClosedNow ==
  [n \in Validators |->
     {id \in RequestIds :
        validation[n][id] # Absent /\ validation[n][id].processStep = "FINISHED"}]

\* The promise of the node n.
Promise(n) == INSTANCE Request WITH
  Me        <- n,
  Trusting  <- FALSE,
  texts     <- TextsNow[n],
  presented <- BroughtNow[n],
  ballots   <- BallotsNow[n],
  voters    <- VotersNow,
  closed    <- ClosedNow[n]

\* All that the mapping looks at.
seen == <<clock, stored, history>>

\* Whatever the network does, for each node it is a step that the promise
\* allows, or none.
NodesKeepPromise ==
  /\ \A n \in Validators : Promise(n)!Init
  /\ [][\A n \in Validators :
          UNCHANGED Promise(n)!request \/ Promise(n)!Next]_seen

\* What a node is done with, it has proof of, and a quorum has voted for it:
\* although the node counts on the word of the contract and never looks again,
\* and although its row may be opened once more by a submit that comes late.
NodesEarn == \A n \in Validators : Promise(n)!ClosedIsEarned

-----------------------------------------------------------------------------
ProvenNow == [id \in RequestIds |-> Proven(id)]

\* The votes of all nodes that are under way.
VotesNow ==
  {b \in RequestIds \X Validators :
     [op |-> "voteRequest", id |-> b[1], from |-> b[2]] \in mempool}

LinkedNow == {id \in RequestIds : requests[id].status = "COUNTED"}

\* The promise of all nodes.
Whole == INSTANCE Link WITH
  proven  <- ProvenNow,
  ballots <- VotesNow,
  voters  <- VotersNow,
  linked  <- LinkedNow

\* Of a request the network, its crashes, losses and retries included, does
\* nothing but what Link allows.
NetworkLinks == Whole!Spec

-----------------------------------------------------------------------------
\* A request that no client has posted is known nowhere, and brought by none.
OnlyPosted ==
  /\ \A n \in Validators, id \in RequestIds : validation[n][id] # Absent => id \in posted
  /\ \A n \in Validators : work[n].pc # "idle" => work[n].id \in posted
  /\ \A m \in wire : m.id \in posted
  /\ \A a \in presented : a.id \in posted

\* Of all codes texted for a request, also by jobs that a crash cut off before
\* they noted it, none expires after the code of the row.
LastTextNoted ==
  \A t \in texted :
    /\ t.expire <= clock + CodeLifetime
    /\ LET row == validation[t.from][t.id] IN
       row # Absent => row.sendCode = NoCode \/ t.expire <= row.expire
    /\ work[t.from].pc = "updateSendCode" /\ work[t.from].id = t.id =>
         t.expire <= work[t.from].data.expire

\* What the mapping needs beside IndInv.
MappingInv == OnlyPosted /\ LastTextNoted

=============================================================================
