----------------------------- MODULE MCNetwork -----------------------------
(***************************************************************************)
(* Small networks for TLC.                                                 *)
(***************************************************************************)
EXTENDS NetworkRefinement, FiniteSets, TLC

\* Every majority of the validators.
Majorities == {q \in SUBSET Validators : 2 * Cardinality(q) > Cardinality(Validators)}

\* The same code for each validator: right for some, wrong for others.
EqualCodes == {[v \in Validators |-> code] : code \in Codes}

\* One string of them: with one submit, one is as good as another.
FirstCodes == {[v \in Validators |-> 0]}

NodeSymmetry == Permutations(Validators)

=============================================================================
