----------------------------- MODULE DurableLog -----------------------------
(***************************************************************************)
(* What a write-ahead log promises about the entries a recovery would      *)
(* return: entries are added at the end only, a flush makes all of them    *)
(* durable, and a failure may drop entries from the end, never a durable   *)
(* one.                                                                    *)
(***************************************************************************)
EXTENDS Naturals, Sequences

CONSTANT Entry

VARIABLES
    log,        \* the entries a recovery would return now
    durable     \* how many of them no failure can take away

Init == log = <<>> /\ durable = 0

Add(e) == log' = Append(log, e) /\ UNCHANGED durable

Flush == durable' = Len(log) /\ UNCHANGED log

\* What survives a failure is durable.
Fail(n) == log' = SubSeq(log, 1, n) /\ durable' = n

Next ==
    \/ \E e \in Entry : Add(e)
    \/ Flush
    \/ \E n \in durable..Len(log) : Fail(n)

Spec == Init /\ [][Next]_<<log, durable>>
=============================================================================
