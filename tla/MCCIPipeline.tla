--------------------------- MODULE MCCIPipeline ---------------------------
(***************************************************************************)
(* Two specifications.  The Go tests hand the model checker any list of    *)
(* up to three of seven transitions over the numbers 0 to 2, which wrap    *)
(* around: a chain a0, a1, a2 that closes to a cycle, a gap from a0 to a2  *)
(* and a second way into a2 from a state that differs from a1 in its hash  *)
(* only, a step to another trace and a step on the spot there.  Each Check *)
(* begins at any state, and a checker is used twice.                       *)
(***************************************************************************)
EXTENDS CIPipeline

CONSTANTS a, b, h, k

At(t, n, x) == [trace |-> t, seq |-> n, hash |-> x]
Step(s, t) == [from |-> s, to |-> t]

MCTransition == {
    Step(At(a, 0, h), At(a, 1, h)), Step(At(a, 1, h), At(a, 2, h)),
    Step(At(a, 2, h), At(a, 0, h)), Step(At(a, 0, h), At(a, 2, h)),
    Step(At(a, 1, k), At(a, 2, k)), Step(At(a, 0, h), At(b, 1, h)),
    Step(At(b, 1, h), At(b, 1, h))}

MCGiven == UNION {[1..n -> MCTransition] : n \in 0..3}
=============================================================================
