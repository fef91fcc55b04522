----------------------------- MODULE MCValidator -----------------------------
(***************************************************************************)
(* Small values for the constants of Validator.                            *)
(***************************************************************************)
EXTENDS Validator, FiniteSets, TLC

CONSTANTS r1, r2, v1, v2, s1, c1, c2

Majority == {q \in SUBSET Validators : 2 * Cardinality(q) > Cardinality(Validators)}

\* The registry: this node and another one, at the places 0 and 1.
Steady == {(v1 :> 0) @@ (v2 :> 1)}
Places == {0, 1}

\* Every string of digits for the two places.
Strings == [Places -> 0 .. CodeSpace - 1]

=============================================================================
