---------------------------- MODULE MCStressRun ----------------------------
(***************************************************************************)
(* Three nodes, so that one may be fresh, one restarted and one down, and  *)
(* seven iterations, enough for each of them to miss events twice.         *)
(***************************************************************************)
EXTENDS StressRun
=============================================================================
