----------------------------- MODULE MCRecovery -----------------------------
(***************************************************************************)
(* Two traces of up to two events, whose identifiers fit in 16 bytes.  An  *)
(* event hash is empty, or 64 characters: zeros, lower-case digits h1, or  *)
(* upper, the same digits in upper case.  The traces are interchangeable.  *)
(***************************************************************************)
EXTENDS Recovery, TLC

CONSTANTS t1, t2, h1, upper

MCTrace == {t1, t2}
MCHash  == {NoHash, Zeros, h1, upper}
MCSized == {Zeros, h1, upper}
MCDigits(h) == IF h = upper THEN h1 ELSE h
MCShort(t) == t

Symmetry == Permutations(MCTrace)
=============================================================================
