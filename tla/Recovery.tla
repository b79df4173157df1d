------------------------------ MODULE Recovery ------------------------------
(***************************************************************************)
(* From a live event store to a state rebuilt from its write-ahead log:    *)
(* the WAL encoding of an event, the snapshot of the store, FastReplay of  *)
(* the events behind a snapshot, and the invariant guard, with the store   *)
(* growing meanwhile (src/pkg/snapshot/store.go, src/pkg/invariant/        *)
(* guard.go, Encode and DecodeEntry of src/pkg/wal/wal.go).                *)
(*                                                                         *)
(* The repository gives the parts and no program that joins them; the      *)
(* driver here writes every event that EventStore accepts to the log at    *)
(* once and reads back what the log decodes to.  Losing the end of the log *)
(* is the subject of WAL.  FastReplay and the loop that appends the        *)
(* recovered events to a new store are taken one event at a time.          *)
(***************************************************************************)
EXTENDS EventStore

CONSTANTS
    Sized,      \* hashes of 64 characters
    Zeros,      \* the one of 64 zeros
    Digits(_),  \* Digits(h): what the 64 characters of h come back as
    Short(_)    \* Short(t): what 16 bytes of the identifier t decode to

VARIABLES
    snap,       \* a Snapshot of the store: LastSeq and LastHash
    snapAt,     \* events in the log when it was taken
    replay,     \* the Snapshot that FastReplay is building
    replayAt,   \* events of the log it has covered
    panicked,   \* FastReplay panicked
    rebuilt,    \* a new store the recovered events are appended to
    rebuiltAt   \* recovered events offered to it

recoveryVars == <<vars, snap, snapAt, replay, replayAt, panicked, rebuilt, rebuiltAt>>

Snapshot == [lastSeq : [Trace -> Nat \cup {NoEntry}],
             lastHash : [Trace -> Hash \cup {NoEntry}]]

ASSUME RecoveryAssumption ==
    /\ Sized \subseteq Hash /\ NoHash \notin Sized
    /\ Zeros \in Sized /\ Digits(Zeros) = Zeros
    /\ \A h \in Sized : Digits(h) \in Sized /\ Digits(Digits(h)) = Digits(h)
    /\ \A t \in Trace : Short(t) \in Trace
    /\ NoEntry \notin Snapshot

\* snapshot.New
NewSnapshot == [lastSeq |-> [t \in Trace |-> NoEntry],
                lastHash |-> [t \in Trace |-> NoEntry]]

-----------------------------------------------------------------------------
(* The log's encoding *)

\* Each pair of 64 characters is packed into a byte, without a look at what they
\* are, and comes back as two lower-case digits; any other hash, the empty one in
\* particular, is written as 32 zero bytes.
Hex(h) == IF h \in Sized THEN Digits(h) ELSE Zeros

\* Slip: the hashes are read back as they were.
DecodedAsIs(e) == [trace |-> Short(e.trace), seq |-> e.seq, prev |-> e.prev, hash |-> e.hash]

\* Encode followed by DecodeEntry.
Decoded(e) == [trace |-> Short(e.trace), seq |-> e.seq,
               prev |-> Hex(e.prev), hash |-> Hex(e.hash)]

Recovered(i) == Decoded(store.log[i])

-----------------------------------------------------------------------------
(* The guard: TRUE where CheckEvent does not panic.  Its tick comparison is  *)
(* left out: consensus events carry none and the log restores none.          *)

CheckFirst(e) == e.seq >= 1 /\ e.prev = NoHash /\ e.hash # NoHash

\* Slip: the hash chain is not compared.
CheckNextNumberOnly(e, before) == e.seq = before.seq + 1 /\ e.hash # NoHash

CheckNext(e, before) ==
    /\ e.seq >= 1
    /\ e.seq = before.seq + 1
    /\ e.prev = before.hash
    /\ e.hash # NoHash

\* CheckEvent of e against the last event of its trace in the log.
CheckEvent(log, e) ==
    IF \E i \in 1..Len(log) : IsLast(log, e.trace, i)
    THEN \A i \in 1..Len(log) : IsLast(log, e.trace, i) => CheckNext(e, log[i])
    ELSE CheckFirst(e)

\* CheckSeqMonotonic of the first n recovered events.
CheckSeqMonotonic(n) ==
    \A i, j \in 1..n :
        i < j /\ Recovered(i).trace = Recovered(j).trace
            => Recovered(i).seq < Recovered(j).seq

-----------------------------------------------------------------------------
(* FastReplay and EquivalenceProof *)

ReplayOk(s, e) ==
    IF s.lastSeq[e.trace] = NoEntry THEN e.seq = 1 ELSE e.seq = s.lastSeq[e.trace] + 1

\* Slip: the two maps are exchanged.
ReplayTipsSwapped(s, e) ==
    [lastSeq  |-> [s.lastSeq EXCEPT ![e.trace] = e.hash],
     lastHash |-> [s.lastHash EXCEPT ![e.trace] = e.seq]]

ReplayTips(s, e) ==
    [lastSeq  |-> [s.lastSeq EXCEPT ![e.trace] = e.seq],
     lastHash |-> [s.lastHash EXCEPT ![e.trace] = e.hash]]

\* All of FastReplay: the recovered events k+1 to n on a snapshot s, or NoEntry
\* when it panics.
FastReplay(s, k, n) ==
    LET upTo[i \in k..n] ==
            IF i = k THEN s
            ELSE LET r == upTo[i-1]
                 IN  IF r # NoEntry /\ ReplayOk(r, Recovered(i))
                     THEN ReplayTips(r, Recovered(i)) ELSE NoEntry
    IN  upTo[n]

\* The traces that have an event among k+1 to n, and the last number of each.
TracesOf(k, n) == {Recovered(i).trace : i \in (k+1)..n}
FinalSeq(t, k, n) == Recovered(CHOOSE i \in (k+1)..n :
                        /\ Recovered(i).trace = t
                        /\ \A j \in (i+1)..n : Recovered(j).trace # t).seq

\* Slip: the final number is compared with the snapshot's.
SeqMismatchSnapshot(t, r, final) == r.lastSeq[t] # snap.lastSeq[t] /\ snap.lastSeq[t] # final

\* The replay moved the trace, and not to its last event.
SeqMismatch(t, r, final) == r.lastSeq[t] # snap.lastSeq[t] /\ r.lastSeq[t] # final

\* EquivalenceProof of the snapshot and the events k+1 to n.
EquivalenceProof(k, n) ==
    LET r == FastReplay(snap, k, n)
    IN  CASE r = NoEntry -> "panic"
          [] r # NoEntry ->
                IF \E t \in TracesOf(k, n) : SeqMismatch(t, r, FinalSeq(t, k, n))
                THEN "error" ELSE "nil"

-----------------------------------------------------------------------------
(* The steps *)

RecoveryInit ==
    /\ Init
    /\ snap = NewSnapshot /\ snapAt = 0
    /\ replay = NewSnapshot /\ replayAt = 0
    /\ panicked = FALSE
    /\ rebuilt = NewEventStore /\ rebuiltAt = 0

\* A client appends to the live store.
LiveAppend(e) ==
    /\ AppendEvent(e)
    /\ UNCHANGED <<snap, snapAt, replay, replayAt, panicked, rebuilt, rebuiltAt>>

\* Slip: the hash map of the earlier snapshot is kept.
CreateSnapshotStale ==
    /\ snap' = [snap EXCEPT !.lastSeq = store.lastSeq]
    /\ snapAt' = Len(store.log)
    /\ UNCHANGED <<vars, replay, replayAt, panicked, rebuilt, rebuiltAt>>

\* CreateSnapshot copies the two maps of the store.
CreateSnapshot ==
    /\ snap' = [lastSeq |-> store.lastSeq, lastHash |-> store.lastHash]
    /\ snapAt' = Len(store.log)
    /\ UNCHANGED <<vars, replay, replayAt, panicked, rebuilt, rebuiltAt>>

-----------------------------------------------------------------------------
(* FastReplay, one event at a time *)

\* FastReplay starts on a clone of the snapshot, or of an empty one.
StartReplay ==
    /\ \/ replay' = snap /\ replayAt' = snapAt
       \/ replay' = NewSnapshot /\ replayAt' = 0
    /\ panicked' = FALSE
    /\ UNCHANGED <<vars, snap, snapAt, rebuilt, rebuiltAt>>

\* One round of FastReplay's loop, on the next recovered event.
ReplayEvent ==
    /\ ~panicked
    /\ replayAt < Len(store.log)
    /\ LET e == Recovered(replayAt + 1)
       IN  IF ReplayOk(replay, e)
           THEN replay' = ReplayTips(replay, e) /\ replayAt' = replayAt + 1 /\ UNCHANGED panicked
           ELSE panicked' = TRUE /\ UNCHANGED <<replay, replayAt>>
    /\ UNCHANGED <<vars, snap, snapAt, rebuilt, rebuiltAt>>

\* The next recovered event is appended to a new event store.
Rebuild ==
    /\ rebuiltAt < Len(store.log)
    /\ rebuilt' = AfterAppend(rebuilt, Recovered(rebuiltAt + 1))
    /\ rebuiltAt' = rebuiltAt + 1
    /\ UNCHANGED <<vars, snap, snapAt, replay, replayAt, panicked>>

RecoveryNext ==
    \/ \E e \in Offered : LiveAppend(e)
    \/ CreateSnapshot
    \/ StartReplay
    \/ ReplayEvent
    \/ Rebuild

RecoverySpec == RecoveryInit /\ [][RecoveryNext]_recoveryVars

-----------------------------------------------------------------------------
(* Properties *)

\* Type invariant.
RecoveryTypeOK ==
    /\ TypeOK
    /\ rebuilt \in Store
    /\ snap \in Snapshot /\ replay \in Snapshot
    /\ snapAt \in 0..Len(store.log)
    /\ replayAt \in 0..Len(store.log)
    /\ rebuiltAt \in 0..Len(store.log)
    /\ panicked \in BOOLEAN

\* FastReplay never panics on what the log of a live store decodes to, from the
\* start or from any snapshot of that store, although it is handed decoded
\* events and the snapshot holds the store's own.  "Replay(Snapshot) ==
\* Replay(Log)" (store.go:106): when it has covered n events it knows, whichever
\* snapshot it began from, the last of the first n events of every trace, and
\* nothing else.
ReplayExact ==
    /\ ~panicked
    /\ \A t \in Trace :
         IF \E i \in 1..replayAt : store.log[i].trace = t
         THEN \E i \in 1..replayAt :
                 /\ store.log[i].trace = t
                 /\ \A j \in (i+1)..replayAt : store.log[j].trace # t
                 /\ replay.lastSeq[t] = store.log[i].seq
                 /\ Hex(replay.lastHash[t]) = Hex(store.log[i].hash)
         ELSE replay.lastSeq[t] = NoEntry /\ replay.lastHash[t] = NoEntry

\* What EquivalenceProof proves: no run of the log's events gets an error from
\* it.  It panics, with FastReplay, on a run that repeats or skips events of a
\* trace it has, and returns nil for any other, even one behind a gap.
ProofExact ==
    \A n \in 0..Len(store.log) : \A k \in 0..n :
        LET gap == IF k < snapAt THEN TracesOf(k, snapAt) ELSE TracesOf(snapAt, k)
        IN  EquivalenceProof(k, n) = IF TracesOf(k, n) \cap gap = {} THEN "nil" ELSE "panic"

\* The guard's panics and the store's errors come to the same thing, with two
\* exceptions: an empty EventHash, which only the guard refuses, and a trace
\* that starts after number 1, which only the store refuses.  The guard judges
\* by the previous event, the store by its maps.  What the log decodes to always
\* passes the guard's CheckSeqMonotonic.
GuardAgrees ==
    /\ \A e \in Offered :
         AppendOk(store, e) /\ e.hash # NoHash
             <=> /\ CheckEvent(store.log, e)
                 /\ store.lastSeq[e.trace] = NoEntry => e.seq = 1
    /\ CheckSeqMonotonic(Len(store.log))

\* "Replay(WAL.Recover()) == Prefix(EventStore.log)" (wal.go:6) holds of the empty
\* prefix only: a new store refuses the first recovered event of a trace, whose
\* empty PrevHash comes back as 64 zeros, and with it all that follow.
NothingRebuilt == rebuilt = NewEventStore
=============================================================================
