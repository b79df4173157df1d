---------------------------- MODULE MCClockGEB ----------------------------
(***************************************************************************)
(* Two goroutines, epochs 0 and 1.  Calls start at ticks up to 2 and jump  *)
(* up to target 3, so jumps go ahead of, onto and behind the clock and two *)
(* Ticks may wait meanwhile; the modulus 8 is out of reach.                *)
(***************************************************************************)
EXTENDS ClockGEB

CONSTANTS p1, p2
=============================================================================
