------------------------------ MODULE EventLog ------------------------------
(***************************************************************************)
(* The value type behind consensus.EventStore: an append-only event log    *)
(* with, for every trace, the sequence number and the hash of its last     *)
(* event.  The operators are pure functions of a store value, so that the  *)
(* single store (EventStore), the replicas (Consensus) and the recovery    *)
(* path (Recovery) all use the same translation of Append.                 *)
(*                                                                         *)
(* The two Go maps are functions on Trace whose value NoEntry stands for   *)
(* "key absent" (the ", ok" result of a map read).  uint64 wrap-around of  *)
(* a sequence number would need 2^64 appends to one trace and is left out. *)
(***************************************************************************)
EXTENDS Integers, Sequences

CONSTANTS
    Trace,      \* trace identifiers
    Hash,       \* event hashes, the empty string included
    NoHash,     \* the empty string ""
    NoEntry     \* a map read that finds no key

ASSUME EventLogAssumption ==
    /\ NoHash \in Hash
    /\ NoEntry \notin Nat
    /\ NoEntry \notin Hash

Event == [trace : Trace, seq : Nat, prev : Hash, hash : Hash]

Store == [log      : Seq(Event),
          lastSeq  : [Trace -> Nat \cup {NoEntry}],
          lastHash : [Trace -> Hash \cup {NoEntry}]]

NewEventStore == [log      |-> <<>>,
                  lastSeq  |-> [t \in Trace |-> NoEntry],
                  lastHash |-> [t \in Trace |-> NoEntry]]

-----------------------------------------------------------------------------
(* EventStore.Append: the two checks, in the code's order, then the update *)

\* Slip that a run must notice: a retry is let through.
SeqOkRetry(es, e) ==
    IF es.lastSeq[e.trace] = NoEntry THEN e.seq = 1 ELSE e.seq <= es.lastSeq[e.trace] + 1

SeqOk(es, e) ==
    IF es.lastSeq[e.trace] = NoEntry
    THEN e.seq = 1
    ELSE e.seq = es.lastSeq[e.trace] + 1

\* Slip: the hash is compared for the first event of a trace only.
PrevOkFirstOnly(es, e) == es.lastHash[e.trace] = NoEntry => e.prev = NoHash

PrevOk(es, e) ==
    IF es.lastHash[e.trace] = NoEntry
    THEN e.prev = NoHash
    ELSE e.prev = es.lastHash[e.trace]

AppendOk(es, e) == SeqOk(es, e) /\ PrevOk(es, e)

\* Slip: the two tips are exchanged.
AppendedSwapped(es, e) ==
    [es EXCEPT !.log = Append(@, e), !.lastSeq[e.trace] = e.hash,
               !.lastHash[e.trace] = e.seq]

Appended(es, e) ==
    [log      |-> Append(es.log, e),
     lastSeq  |-> [es.lastSeq  EXCEPT ![e.trace] = e.seq],
     lastHash |-> [es.lastHash EXCEPT ![e.trace] = e.hash]]

\* What Append leaves behind, whether it returns nil or an AppendError.
AfterAppend(es, e) == IF AppendOk(es, e) THEN Appended(es, e) ELSE es

-----------------------------------------------------------------------------
(* The log read per trace, by sequence number *)

\* How many events of trace t the store says it holds.
TraceLen(es, t) == IF es.lastSeq[t] = NoEntry THEN 0 ELSE es.lastSeq[t]

\* The position of the event of trace t numbered n.
PosOf(es, t, n) ==
    CHOOSE i \in 1..Len(es.log) : es.log[i].trace = t /\ es.log[i].seq = n

\* The hashes of trace t, first to last.
HashesOf(es, t) == [n \in 1..TraceLen(es, t) |-> es.log[PosOf(es, t, n)].hash]

-----------------------------------------------------------------------------
(* What a store value promises *)

\* i is the last position of trace t in the log.
IsLast(log, t, i) ==
    /\ i \in 1..Len(log)
    /\ log[i].trace = t
    /\ \A j \in (i+1)..Len(log) : log[j].trace # t

\* The map entries of every trace describe the last event of that trace, and
\* exist exactly for the traces that have one.
TipsMatch(es) ==
    \A t \in Trace :
        IF es.lastSeq[t] = NoEntry
        THEN /\ es.lastHash[t] = NoEntry
             /\ \A i \in 1..Len(es.log) : es.log[i].trace # t
        ELSE \E i \in 1..Len(es.log) :
                /\ IsLast(es.log, t, i)
                /\ es.lastSeq[t] = es.log[i].seq
                /\ es.lastHash[t] = es.log[i].hash

\* Between two consecutive events of one trace, however many events of other
\* traces lie between them, the sequence number grows by one and prev names
\* the hash of the earlier; the first event of a trace is number 1 and has
\* no predecessor.
ChainUnbroken(es) ==
    \A i \in 1..Len(es.log) :
        \/ /\ \A j \in 1..(i-1) : es.log[j].trace # es.log[i].trace
           /\ es.log[i].seq = 1
           /\ es.log[i].prev = NoHash
        \/ \E j \in 1..(i-1) :
              /\ es.log[j].trace = es.log[i].trace
              /\ \A k \in (j+1)..(i-1) : es.log[k].trace # es.log[i].trace
              /\ es.log[i].seq = es.log[j].seq + 1
              /\ es.log[i].prev = es.log[j].hash

\* A trace never holds two events of the same number.
SeqUnique(es) ==
    \A i, j \in 1..Len(es.log) :
        es.log[i].trace = es.log[j].trace /\ es.log[i].seq = es.log[j].seq
            => i = j
=============================================================================
