--------------------------- MODULE MCValidatorNode ---------------------------
(***************************************************************************)
(* ValidatorNode with two signals.                                         *)
(***************************************************************************)
EXTENDS ValidatorNode

CONSTANTS c1, c2

=============================================================================
