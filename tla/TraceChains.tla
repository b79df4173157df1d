---------------------------- MODULE TraceChains ----------------------------
(***************************************************************************)
(* What an event store promises, without its log: every trace is a chain   *)
(* of hashes of its own, a step extends one chain by one link, and no link *)
(* is ever changed, dropped or inserted.  How the events of different      *)
(* traces interleave in the one log of consensus.EventStore is not part of *)
(* the promise.                                                            *)
(***************************************************************************)
EXTENDS Naturals, Sequences

CONSTANTS Trace, Hash

VARIABLE chain      \* chain[t][n] is the hash of event number n of trace t

Init == chain = [t \in Trace |-> <<>>]

Extend(t, h) == chain' = [chain EXCEPT ![t] = Append(@, h)]

Next == \E t \in Trace, h \in Hash : Extend(t, h)

Spec == Init /\ [][Next]_chain
=============================================================================
