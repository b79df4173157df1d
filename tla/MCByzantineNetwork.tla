-------------------------- MODULE MCByzantineNetwork --------------------------
(***************************************************************************)
(* Two broadcasts can cross under a reader; readers change nothing that    *)
(* another one sees, so one is enough.                                     *)
(***************************************************************************)
EXTENDS ByzantineNetwork

CONSTANTS s1, s2, r, e1, e2
=============================================================================
