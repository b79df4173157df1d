---------------------------- MODULE MCStateDiff ----------------------------
(***************************************************************************)
(* Two states, compared in either order or both, by two goroutines, with   *)
(* two writers and two writes, so that a writer can queue on each state    *)
(* and a hash can change on each while Compare reads one after the other.  *)
(***************************************************************************)
EXTENDS StateDiff

CONSTANTS a, b, p1, p2, w1, w2

MCPairs == {<<a, b>>, <<b, a>>}
=============================================================================
