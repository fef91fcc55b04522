-------------------------- MODULE RouterRefinement --------------------------
(***************************************************************************)
(* Router keeps the promise of Request.  The mapping hides the job, the    *)
(* submits in flight, the snapshots and the clock: what is left of a row   *)
(* is its code and whether it has expired, and of the mempool the votes.   *)
(***************************************************************************)
EXTENDS RouterInv

ASSUME AbsentTextAssumption ==
  Absent \notin [code : Codes \union {NoCode}, late : BOOLEAN]

TextOf(id) ==
  IF validation[id] = Absent THEN Absent
  ELSE [code |-> validation[id].sendCode,
        late |-> validation[id].sendCode # NoCode /\ validation[id].expire <= clock]

TextsNow == [id \in RequestIds |-> TextOf(id)]

BallotsNow == {id \in RequestIds : [op |-> "voteRequest", id |-> id] \in mempool}

VotersNow == [id \in RequestIds |-> requests[id].voters]

ClosedNow == {id \in RequestIds : Step(id) = "FINISHED"}

Promise == INSTANCE Request WITH
  Trusting <- (Mode = "NoSMSNoCode"),
  texts    <- TextsNow,
  ballots  <- BallotsNow,
  voters   <- VotersNow,
  closed   <- ClosedNow

\* Every behaviour of the Router, with its passes, awaits and crashes, is one
\* that the promise allows.
KeepsPromise == Promise!Spec

=============================================================================
