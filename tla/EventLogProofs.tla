--------------------------- MODULE EventLogProofs ---------------------------
(***************************************************************************)
(* What EventStore.Append keeps true of a store value, whatever event it   *)
(* is offered.  StoreInv is the inductive strengthening: the tips bound    *)
(* every number in the log (SeqBounded), which is why an accepted event    *)
(* cannot reuse one, and no number up to the tip is missing (SeqDense),    *)
(* which is what lets the log be read per trace by number.                 *)
(***************************************************************************)
EXTENDS EventLog, TLAPS

SeqBounded(es) ==
    \A i \in 1..Len(es.log) :
        /\ es.lastSeq[es.log[i].trace] # NoEntry
        /\ es.log[i].seq \in 1..es.lastSeq[es.log[i].trace]

SeqDense(es) ==
    \A t \in Trace :
        es.lastSeq[t] # NoEntry =>
            \A n \in 1..es.lastSeq[t] :
                \E i \in 1..Len(es.log) :
                    es.log[i].trace = t /\ es.log[i].seq = n

StoreInv(es) ==
    /\ es \in Store
    /\ TipsMatch(es)
    /\ ChainUnbroken(es)
    /\ SeqUnique(es)
    /\ SeqBounded(es)
    /\ SeqDense(es)

-----------------------------------------------------------------------------
\* The fields of the store after an accepted append, and its log position by
\* position (EventStore.Append, the last three assignments).
LEMMA AppendedFields ==
    ASSUME NEW es \in Store, NEW e \in Event
    PROVE  /\ Appended(es, e) \in Store
           /\ Len(Appended(es, e).log) = Len(es.log) + 1
           /\ Appended(es, e).log[Len(es.log) + 1] = e
           /\ \A i \in 1..Len(es.log) : Appended(es, e).log[i] = es.log[i]
           /\ \A t \in Trace :
                /\ Appended(es, e).lastSeq[t] =
                       IF t = e.trace THEN e.seq ELSE es.lastSeq[t]
                /\ Appended(es, e).lastHash[t] =
                       IF t = e.trace THEN e.hash ELSE es.lastHash[t]
<1>1. /\ es.log \in Seq(Event)
      /\ es.lastSeq \in [Trace -> Nat \cup {NoEntry}]
      /\ es.lastHash \in [Trace -> Hash \cup {NoEntry}]
      /\ e.trace \in Trace /\ e.seq \in Nat /\ e.hash \in Hash
    BY DEF Store, Event
<1>2. /\ Append(es.log, e) \in Seq(Event)
      /\ Len(Append(es.log, e)) = Len(es.log) + 1
      /\ Append(es.log, e)[Len(es.log) + 1] = e
      /\ \A i \in 1..Len(es.log) : Append(es.log, e)[i] = es.log[i]
    BY <1>1
<1>3. /\ [es.lastSeq EXCEPT ![e.trace] = e.seq] \in [Trace -> Nat \cup {NoEntry}]
      /\ [es.lastHash EXCEPT ![e.trace] = e.hash] \in [Trace -> Hash \cup {NoEntry}]
    BY <1>1
<1> QED
    BY <1>1, <1>2, <1>3 DEF Appended, Store

\* A new store has no events and no tips, and keeps every promise.
LEMMA NewStoreInv == StoreInv(NewEventStore)
<1>1. NewEventStore \in Store
    BY DEF NewEventStore, Store
<1>2. Len(NewEventStore.log) = 0
    BY DEF NewEventStore
<1>3. \A t \in Trace : /\ NewEventStore.lastSeq[t] = NoEntry
                       /\ NewEventStore.lastHash[t] = NoEntry
    BY DEF NewEventStore
<1> QED
    BY <1>1, <1>2, <1>3
    DEF StoreInv, TipsMatch, ChainUnbroken, SeqUnique, SeqBounded, SeqDense

\* The number an accepted event carries is one more than the highest its trace
\* has used: the tip names the last event, and bounds all of them.
LEMMA AcceptedIsNew ==
    ASSUME NEW es, StoreInv(es), NEW e \in Event, AppendOk(es, e)
    PROVE  /\ e.seq >= 1
           /\ \A i \in 1..Len(es.log) :
                es.log[i].trace = e.trace => es.log[i].seq < e.seq
<1>1. /\ es.lastSeq \in [Trace -> Nat \cup {NoEntry}]
      /\ e.trace \in Trace /\ e.seq \in Nat
    BY DEF StoreInv, Store, Event
<1>2. CASE es.lastSeq[e.trace] = NoEntry
    <2>1. \A i \in 1..Len(es.log) : es.log[i].trace # e.trace
        BY <1>1, <1>2 DEF StoreInv, TipsMatch
    <2> QED
        BY <1>2, <2>1 DEF AppendOk, SeqOk
<1>3. CASE es.lastSeq[e.trace] # NoEntry
    <2>1. es.lastSeq[e.trace] \in Nat
        BY <1>1, <1>3
    <2>2. e.seq = es.lastSeq[e.trace] + 1
        BY <1>3 DEF AppendOk, SeqOk
    <2> QED
        BY <2>1, <2>2 DEF StoreInv, SeqBounded
<1> QED
    BY <1>2, <1>3

\* Append keeps the promises when it accepts the event.
LEMMA AppendedInv ==
    ASSUME NEW es, StoreInv(es), NEW e \in Event, AppendOk(es, e)
    PROVE  StoreInv(Appended(es, e))
<1> DEFINE new == Appended(es, e)
           L   == Len(es.log)
<1>1. es \in Store /\ L \in Nat
    BY DEF StoreInv, Store
<1>2. /\ es.lastSeq \in [Trace -> Nat \cup {NoEntry}]
      /\ es.lastHash \in [Trace -> Hash \cup {NoEntry}]
      /\ e.trace \in Trace /\ e.seq \in Nat /\ e.hash \in Hash
      /\ \A i \in 1..L : es.log[i] \in Event
    <2>1. es.log \in Seq(Event)
        BY <1>1 DEF Store
    <2>2. \A i \in 1..L : es.log[i] \in Event
        BY <2>1
    <2> QED
        BY <1>1, <2>2 DEF Store, Event
<1>3. /\ new \in Store
      /\ Len(new.log) = L + 1
      /\ new.log[L + 1] = e
      /\ \A i \in 1..L : new.log[i] = es.log[i]
      /\ \A t \in Trace :
            /\ new.lastSeq[t] = IF t = e.trace THEN e.seq ELSE es.lastSeq[t]
            /\ new.lastHash[t] = IF t = e.trace THEN e.hash ELSE es.lastHash[t]
    BY <1>1, AppendedFields
<1>4. e.seq # NoEntry /\ e.seq >= 1
    BY <1>2, EventLogAssumption, AcceptedIsNew
<1> HIDE DEF new
<1>5. TipsMatch(new)
    <2> SUFFICES ASSUME NEW t \in Trace
                 PROVE  IF new.lastSeq[t] = NoEntry
                        THEN /\ new.lastHash[t] = NoEntry
                             /\ \A i \in 1..Len(new.log) : new.log[i].trace # t
                        ELSE \E i \in 1..Len(new.log) :
                                /\ IsLast(new.log, t, i)
                                /\ new.lastSeq[t] = new.log[i].seq
                                /\ new.lastHash[t] = new.log[i].hash
        BY DEF TipsMatch
    <2>1. CASE t = e.trace
        <3>1. IsLast(new.log, t, L + 1)
            BY <1>1, <1>3, <2>1 DEF IsLast
        <3> QED
            BY <1>1, <1>3, <1>4, <2>1, <3>1
    <2>2. CASE t # e.trace /\ es.lastSeq[t] = NoEntry
        <3>1. /\ es.lastHash[t] = NoEntry
              /\ \A i \in 1..L : es.log[i].trace # t
            BY <2>2 DEF StoreInv, TipsMatch
        <3> QED
            BY <1>1, <1>3, <2>2, <3>1
    <2>3. CASE t # e.trace /\ es.lastSeq[t] # NoEntry
        <3>1. PICK i \in 1..L : /\ IsLast(es.log, t, i)
                                /\ es.lastSeq[t] = es.log[i].seq
                                /\ es.lastHash[t] = es.log[i].hash
            BY <2>3 DEF StoreInv, TipsMatch
        <3>2. IsLast(new.log, t, i)
            <4>1. /\ es.log[i].trace = t
                  /\ \A j \in (i+1)..L : es.log[j].trace # t
                BY <3>1 DEF IsLast
            <4>2. \A j \in (i+1)..(L + 1) : new.log[j].trace # t
                <5> SUFFICES ASSUME NEW j \in (i+1)..(L + 1)
                             PROVE  new.log[j].trace # t
                    OBVIOUS
                <5>1. CASE j = L + 1
                    BY <1>3, <2>3, <5>1
                <5>2. CASE j # L + 1
                    <6>1. j \in (i+1)..L /\ j \in 1..L
                        BY <1>1, <5>2
                    <6> QED
                        BY <1>3, <4>1, <6>1
                <5> QED
                    BY <5>1, <5>2
            <4>3. i \in 1..(L + 1) /\ new.log[i] = es.log[i]
                BY <1>1, <1>3
            <4> QED
                BY <1>3, <4>1, <4>2, <4>3 DEF IsLast
        <3>3. i \in 1..Len(new.log) /\ new.log[i] = es.log[i]
            BY <1>1, <1>3, <3>1
        <3>4. new.lastSeq[t] = es.lastSeq[t] /\ new.lastHash[t] = es.lastHash[t]
            BY <1>3, <2>3
        <3> QED
            BY <2>3, <3>1, <3>2, <3>3, <3>4
    <2> QED
        BY <2>1, <2>2, <2>3
<1>6. ChainUnbroken(new)
    <2> DEFINE First(log, i) == /\ \A j \in 1..(i-1) : log[j].trace # log[i].trace
                                /\ log[i].seq = 1
                                /\ log[i].prev = NoHash
               Linked(log, i, j) == /\ log[j].trace = log[i].trace
                                    /\ \A k \in (j+1)..(i-1) : log[k].trace # log[i].trace
                                    /\ log[i].seq = log[j].seq + 1
                                    /\ log[i].prev = log[j].hash
    <2> SUFFICES ASSUME NEW i \in 1..(L + 1)
                 PROVE  First(new.log, i) \/ \E j \in 1..(i-1) : Linked(new.log, i, j)
        BY <1>3 DEF ChainUnbroken
    <2>1. CASE i \in 1..L
        <3>1. First(es.log, i) \/ \E j \in 1..(i-1) : Linked(es.log, i, j)
            BY <2>1 DEF StoreInv, ChainUnbroken
        <3>2. new.log[i] = es.log[i] /\ \A j \in 1..(i-1) : new.log[j] = es.log[j]
            BY <1>1, <1>3, <2>1
        <3> QED
            BY <1>1, <2>1, <3>1, <3>2
    <2>2. CASE i = L + 1 /\ es.lastSeq[e.trace] = NoEntry
        <3>1. /\ es.lastHash[e.trace] = NoEntry
              /\ \A j \in 1..L : es.log[j].trace # e.trace
            BY <1>2, <2>2 DEF StoreInv, TipsMatch
        <3>2. e.seq = 1 /\ e.prev = NoHash
            BY <2>2, <3>1 DEF AppendOk, SeqOk, PrevOk
        <3> QED
            BY <1>1, <1>3, <2>2, <3>1, <3>2
    <2>3. CASE i = L + 1 /\ es.lastSeq[e.trace] # NoEntry
        <3>1. PICK j \in 1..L : /\ IsLast(es.log, e.trace, j)
                                /\ es.lastSeq[e.trace] = es.log[j].seq
                                /\ es.lastHash[e.trace] = es.log[j].hash
            BY <1>2, <2>3 DEF StoreInv, TipsMatch
        <3>2. es.lastHash[e.trace] # NoEntry
            BY <1>2, <3>1, EventLogAssumption DEF Event
        <3>3. e.seq = es.log[j].seq + 1 /\ e.prev = es.log[j].hash
            BY <2>3, <3>1, <3>2 DEF AppendOk, SeqOk, PrevOk
        <3>4. Linked(new.log, i, j)
            <4>1. /\ es.log[j].trace = e.trace
                  /\ \A k \in (j+1)..L : es.log[k].trace # e.trace
                BY <1>1, <3>1 DEF IsLast
            <4>2. new.log[i] = e /\ new.log[j] = es.log[j]
                BY <1>3, <2>3
            <4>3. \A k \in (j+1)..(i-1) : new.log[k].trace # e.trace
                BY <1>1, <1>3, <2>3, <4>1
            <4> QED
                BY <3>3, <4>1, <4>2, <4>3
        <3> QED
            BY <1>1, <2>3, <3>1, <3>4
    <2> QED
        BY <1>1, <2>1, <2>2, <2>3
<1>7. SeqUnique(new)
    <2>1. \A i \in 1..L : es.log[i].trace = e.trace => es.log[i].seq < e.seq
        BY AcceptedIsNew
    <2>2. \A i \in 1..L : es.log[i].seq \in Nat
        BY <1>2 DEF Event
    <2> SUFFICES ASSUME NEW i \in 1..(L + 1), NEW j \in 1..(L + 1),
                        new.log[i].trace = new.log[j].trace,
                        new.log[i].seq = new.log[j].seq
                 PROVE  i = j
        BY <1>3 DEF SeqUnique
    <2>3. CASE i \in 1..L /\ j \in 1..L
        <3>1. new.log[i] = es.log[i] /\ new.log[j] = es.log[j]
            BY <1>3, <2>3
        <3> QED
            BY <2>3, <3>1 DEF StoreInv, SeqUnique
    <2>4. CASE i \in 1..L /\ j = L + 1
        <3>1. new.log[i] = es.log[i] /\ new.log[j] = e
            BY <1>3, <2>4
        <3>2. es.log[i].seq < e.seq /\ es.log[i].seq = e.seq
            BY <2>1, <2>4, <3>1
        <3> QED
            BY <1>2, <2>2, <2>4, <3>2
    <2>5. CASE i = L + 1 /\ j \in 1..L
        <3>1. new.log[j] = es.log[j] /\ new.log[i] = e
            BY <1>3, <2>5
        <3>2. es.log[j].seq < e.seq /\ es.log[j].seq = e.seq
            BY <2>1, <2>5, <3>1
        <3> QED
            BY <1>2, <2>2, <2>5, <3>2
    <2> QED
        BY <1>1, <2>3, <2>4, <2>5
<1>8. SeqBounded(new)
    <2>1. \A i \in 1..L : es.log[i].trace = e.trace => es.log[i].seq < e.seq
        BY AcceptedIsNew
    <2> SUFFICES ASSUME NEW i \in 1..(L + 1)
                 PROVE  /\ new.lastSeq[new.log[i].trace] # NoEntry
                        /\ new.log[i].seq \in 1..new.lastSeq[new.log[i].trace]
        BY <1>3 DEF SeqBounded
    <2>2. CASE i = L + 1
        BY <1>2, <1>3, <1>4, <2>2
    <2>3. CASE i \in 1..L
        <3>1. /\ es.lastSeq[es.log[i].trace] # NoEntry
              /\ es.log[i].seq \in 1..es.lastSeq[es.log[i].trace]
              /\ es.log[i].trace \in Trace
            BY <1>2, <2>3 DEF StoreInv, SeqBounded, Event
        <3>2. new.log[i] = es.log[i]
            BY <1>3, <2>3
        <3>3. CASE es.log[i].trace = e.trace
            <4>1. es.log[i].seq < e.seq
                BY <2>1, <2>3, <3>3
            <4>2. es.log[i].seq \in Nat /\ es.log[i].seq >= 1
                BY <1>2, <2>3, <3>1
            <4> QED
                BY <1>2, <1>3, <1>4, <3>2, <3>3, <4>1, <4>2
        <3>4. CASE es.log[i].trace # e.trace
            BY <1>3, <3>1, <3>2, <3>4
        <3> QED
            BY <3>3, <3>4
    <2> QED
        BY <1>1, <2>2, <2>3
<1>9. SeqDense(new)
    <2> SUFFICES ASSUME NEW t \in Trace, new.lastSeq[t] # NoEntry,
                        NEW n \in 1..new.lastSeq[t]
                 PROVE  \E i \in 1..(L + 1) : new.log[i].trace = t /\ new.log[i].seq = n
        BY <1>3 DEF SeqDense
    <2>1. CASE t = e.trace /\ n = e.seq
        BY <1>1, <1>3, <2>1
    <2>2. CASE ~(t = e.trace /\ n = e.seq)
        <3>1. es.lastSeq[t] # NoEntry /\ n \in 1..es.lastSeq[t]
            BY <1>2, <1>3, <2>2 DEF AppendOk, SeqOk
        <3>2. PICK i \in 1..L : es.log[i].trace = t /\ es.log[i].seq = n
            BY <3>1 DEF StoreInv, SeqDense
        <3> QED
            BY <1>1, <1>3, <3>2
    <2> QED
        BY <2>1, <2>2
<1> QED
    BY <1>3, <1>5, <1>6, <1>7, <1>8, <1>9 DEF StoreInv, new

\* Append keeps the promises whatever it is offered: a refused event changes
\* nothing.
THEOREM AppendKeepsStoreInv ==
    ASSUME NEW es, StoreInv(es), NEW e \in Event
    PROVE  StoreInv(AfterAppend(es, e))
BY AppendedInv DEF AfterAppend

-----------------------------------------------------------------------------
\* PosOf finds the event it names, and no other position holds it.
LEMMA PosOfFinds ==
    ASSUME NEW es, StoreInv(es), NEW i \in 1..Len(es.log)
    PROVE  PosOf(es, es.log[i].trace, es.log[i].seq) = i
BY DEF PosOf, StoreInv, SeqUnique

\* Read per trace, an accepted event extends the hashes of its own trace by
\* its hash and leaves every other trace as it was.
LEMMA AppendedHashes ==
    ASSUME NEW es, StoreInv(es), NEW e \in Event, AppendOk(es, e), NEW t \in Trace
    PROVE  HashesOf(Appended(es, e), t) =
               IF t = e.trace THEN Append(HashesOf(es, t), e.hash) ELSE HashesOf(es, t)
<1> DEFINE new == Appended(es, e)
           L   == Len(es.log)
<1>1. es \in Store /\ L \in Nat /\ StoreInv(new)
    BY AppendedInv DEF StoreInv, Store
<1>2. /\ es.lastSeq \in [Trace -> Nat \cup {NoEntry}]
      /\ e.trace \in Trace /\ e.seq \in Nat
    BY <1>1 DEF Store, Event
<1>3. /\ Len(new.log) = L + 1
      /\ new.log[L + 1] = e
      /\ \A i \in 1..L : new.log[i] = es.log[i]
      /\ new.lastSeq[t] = IF t = e.trace THEN e.seq ELSE es.lastSeq[t]
    BY <1>1, AppendedFields
<1>4. e.seq # NoEntry
    BY <1>2, EventLogAssumption
<1>5. TraceLen(es, t) \in Nat
    BY <1>2 DEF TraceLen
<1>6. TraceLen(new, t) = IF t = e.trace THEN TraceLen(es, t) + 1 ELSE TraceLen(es, t)
    BY <1>2, <1>3, <1>4 DEF TraceLen, AppendOk, SeqOk
<1> HIDE DEF new
<1>7. \A n \in 1..TraceLen(es, t) :
            new.log[PosOf(new, t, n)].hash = es.log[PosOf(es, t, n)].hash
    <2> SUFFICES ASSUME NEW n \in 1..TraceLen(es, t)
                 PROVE  new.log[PosOf(new, t, n)].hash = es.log[PosOf(es, t, n)].hash
        OBVIOUS
    <2>1. PICK i \in 1..L : es.log[i].trace = t /\ es.log[i].seq = n
        BY DEF TraceLen, StoreInv, SeqDense
    <2>2. PosOf(es, t, n) = i
        BY <2>1, PosOfFinds
    <2>3. i \in 1..Len(new.log) /\ new.log[i] = es.log[i]
        BY <1>1, <1>3
    <2>4. PosOf(new, t, n) = i
        BY <1>1, <2>1, <2>3, PosOfFinds
    <2> QED
        BY <2>2, <2>3, <2>4
<1>8. CASE t = e.trace
    <2>1. TraceLen(new, t) = e.seq
        BY <1>3, <1>4, <1>8 DEF TraceLen
    <2>2. PosOf(new, t, e.seq) = L + 1
        <3>1. L + 1 \in 1..Len(new.log)
            BY <1>1, <1>3
        <3> QED
            BY <1>1, <1>3, <1>8, <3>1, PosOfFinds
    <2>3. new.log[PosOf(new, t, TraceLen(es, t) + 1)].hash = e.hash
        BY <1>3, <1>6, <1>8, <2>1, <2>2
    <2>4. HashesOf(new, t) = [n \in 1..(TraceLen(es, t) + 1) |->
                IF n = TraceLen(es, t) + 1 THEN e.hash ELSE HashesOf(es, t)[n]]
        BY <1>5, <1>6, <1>7, <1>8, <2>3 DEF HashesOf
    <2>5. \A s, x : \A k \in Nat :
            s = [n \in 1..k |-> s[n]] =>
                Append(s, x) = [n \in 1..(k + 1) |-> IF n = k + 1 THEN x ELSE s[n]]
        OBVIOUS
    <2>6. HashesOf(es, t) = [n \in 1..TraceLen(es, t) |-> HashesOf(es, t)[n]]
        BY DEF HashesOf
    <2> QED
        BY <1>5, <1>8, <2>4, <2>5, <2>6 DEF new
<1>9. CASE t # e.trace
    <2>1. HashesOf(new, t) = HashesOf(es, t)
        BY <1>6, <1>7, <1>9 DEF HashesOf
    <2> QED
        BY <1>9, <2>1 DEF new
<1> QED
    BY <1>8, <1>9
=============================================================================
