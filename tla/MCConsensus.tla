---------------------------- MODULE MCConsensus ----------------------------
(***************************************************************************)
(* Small clusters.  Elections: three nodes, of which two stand for leader  *)
(* in up to two terms, and one committed event per log.  Chains: two nodes *)
(* (both are needed for the quorum), two terms, two events in a trace.     *)
(* One trace is enough: the handlers treat traces independently, and the   *)
(* interleaving of traces in one log is checked in MCEventStore.  The two  *)
(* hashes tell apart the entries of two leaders under one number.          *)
(***************************************************************************)
EXTENDS Consensus

CONSTANTS t1, h1

OneTrace  == {t1}
TwoHashes == {NoHash, h1}
=============================================================================
