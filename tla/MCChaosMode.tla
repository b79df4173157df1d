----------------------------- MODULE MCChaosMode -----------------------------
(***************************************************************************)
(* Two callers, two ticks in a run, two starts, and for each injector two  *)
(* calls between two of its resets and one reset.                          *)
(***************************************************************************)
EXTENDS ChaosMode

CONSTANTS c1, c2
=============================================================================
