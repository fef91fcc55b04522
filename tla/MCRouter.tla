------------------------------ MODULE MCRouter ------------------------------
(***************************************************************************)
(* Small values for the constants of Router.                               *)
(***************************************************************************)
EXTENDS RouterRefinement, FiniteSets, TLC

CONSTANTS r1, r2, v1, v2, v3, s1, s2

Majority == {q \in SUBSET Validators : 2 * Cardinality(q) > Cardinality(Validators)}

One == {0}
Two == {0, 1}

\* Registries: this node alone at index 0; with a second validator; with the
\* two having changed places; and without this node.
Alone   == {v1 :> 0}
Steady  == {(v1 :> 0) @@ (v2 :> 1)}
Moving  == Steady \union {(v1 :> 1) @@ (v2 :> 0)}
Leaving == Steady \union {v2 :> 0}

\* The second validator registered at the index of this node, which the
\* single-place strings allow.
Steady1 == {(v1 :> 0) @@ (v2 :> 0)}

\* Every string of digits for one place; some for two, one of them too short.
Digits  == {0 :> a : a \in Codes}
RightCode == {0 :> 0}
Strings == {(0 :> 0) @@ (1 :> 1), (0 :> 1) @@ (1 :> NoCode)}

SubmitSymmetry == Permutations(Submits)

=============================================================================
