------------------------------- MODULE MCWAL -------------------------------
(***************************************************************************)
(* Two entries of different length, so that an overwritten file need not   *)
(* fall back into step; two cells of header, so that a write may stop      *)
(* inside it, after it, or inside the body.  Eight cells hold an entry, a  *)
(* residue and the other entry behind it, whole or torn.                   *)
(***************************************************************************)
EXTENDS WAL

CONSTANTS a, b

MCEntry == {a, b}
MCSize  == [e \in MCEntry |-> IF e = a THEN 4 ELSE 3]
=============================================================================
