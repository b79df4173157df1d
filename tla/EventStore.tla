----------------------------- MODULE EventStore -----------------------------
(***************************************************************************)
(* One consensus.EventStore (src/pkg/consensus/engine.go) and the clients  *)
(* that append to it.  A client may offer any event: with a number it read *)
(* too early, a predecessor hash of another trace, or a retry of an event  *)
(* the store already has.  The store is the variable, reply the value the  *)
(* last call returned.                                                     *)
(***************************************************************************)
EXTENDS EventLog

CONSTANT MaxSeq     \* bound: the largest sequence number a client offers

ASSUME MaxSeqAssumption == MaxSeq \in Nat

VARIABLES
    store,          \* the EventStore
    reply           \* what the last Append returned

vars == <<store, reply>>

\* nil, and the Kind of the four AppendErrors.
Reply == {"nil", "seq_violation", "first_seq_not_1",
          "hash_violation_str", "first_prevhash_not_empty"}

\* What clients offer: any combination of fields, number 0 included.
Offered == [trace : Trace, seq : 0..MaxSeq, prev : Hash, hash : Hash]

AppendReply(es, e) ==
    CASE AppendOk(es, e)    -> "nil"
      [] ~SeqOk(es, e)      -> IF es.lastSeq[e.trace] = NoEntry
                               THEN "first_seq_not_1" ELSE "seq_violation"
      [] OTHER              -> IF es.lastHash[e.trace] = NoEntry
                               THEN "first_prevhash_not_empty" ELSE "hash_violation_str"

Init ==
    /\ store = NewEventStore
    /\ reply = "nil"

AppendEvent(e) ==
    /\ store' = AfterAppend(store, e)
    /\ reply' = AppendReply(store, e)

Next == \E e \in Offered : AppendEvent(e)

Spec == Init /\ [][Next]_vars

-----------------------------------------------------------------------------
(* Properties *)

\* Type invariant: the store is a log of events with a tip per trace.
TypeOK ==
    /\ store \in Store
    /\ reply \in Reply

\* For any interleaving of traces, of retries and of stale clients, the two maps
\* that Append reads instead of the log stay the exact tips of the traces in it
\* (spec.go's INV3), every trace is one unbroken hash chain numbered from 1
\* although other traces lie between its events, and no number is used twice
\* (INV5, in the stronger form that replay by (trace, seq) needs).
StoreSound ==
    /\ TipsMatch(store)
    /\ ChainUnbroken(store)
    /\ SeqUnique(store)

-----------------------------------------------------------------------------
(* The store implements a family of independent chains *)

chain == [t \in Trace |-> HashesOf(store, t)]

Chains == INSTANCE TraceChains

\* Read per trace, by sequence number, the store is an append-only family of
\* chains: a call extends exactly one of them by one link or changes none.
ImplementsTraceChains == Chains!Spec

=============================================================================
