---------------------------- MODULE MCEventStore ----------------------------
(***************************************************************************)
(* Two traces that interleave, up to MaxSeq events in each, and event      *)
(* hashes that are empty or not.  MaxSeq = 3 is the least at which a gap   *)
(* (number 3 offered after number 1) and a retry of an event that is no    *)
(* longer the last of its trace can be offered.                            *)
(***************************************************************************)
EXTENDS EventStore

CONSTANTS t1, t2, h1

MCTrace == {t1, t2}
MCHash  == {NoHash, h1}
=============================================================================
