------------------------------ MODULE MCPeers ------------------------------
(***************************************************************************)
(* Small values for the constants of Peers: this node and two others, one  *)
(* of which is registered where it listens, the other may come.            *)
(***************************************************************************)
EXTENDS Peers, TLC

CONSTANTS v1, v2, v3, e2, e3

Pair == (v1 :> NoEndpoint) @@ (v2 :> e2)
PairAtHome == (e2 :> v2) @@ (e3 :> Nobody)

=============================================================================
