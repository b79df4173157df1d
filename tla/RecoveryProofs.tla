-------------------------- MODULE RecoveryProofs --------------------------
(***************************************************************************)
(* What is proved of the single event store (EventStore) and of the        *)
(* recovery path beside it (Recovery).  The store's promises follow from   *)
(* StoreInv, which EventLogProofs shows that Append keeps.  The recovery   *)
(* path only reads the store, so the same holds of it there; from the      *)
(* store's chains comes what FastReplay and the guard find in the log:     *)
(* Knows, the inductive invariant behind ReplayExact, says that a snapshot *)
(* of n events is the tips of the first n, and RunOutcome, by induction    *)
(* over the run that FastReplay is given, what it returns.                 *)
(*                                                                         *)
(* The theorems about decoded events assume of the identifiers what the    *)
(* 16 bytes of the log's header require: that they fit (Fits), or, for the *)
(* guard, that no two are cut to the same bytes (Apart).                   *)
(***************************************************************************)
EXTENDS Recovery, EventLogProofs, SequenceTheorems, WellFoundedInduction

-----------------------------------------------------------------------------
(* The event store.                                                          *)

\* Whatever a client offers is an event.
LEMMA OfferedAreEvents == Offered \subseteq Event
BY MaxSeqAssumption DEF Offered, Event

\* The inductive invariant: no sequence of appends, accepted or refused,
\* leaves a store that breaks one of its promises.
THEOREM StoreAlwaysSound == Spec => []StoreInv(store)
<1>1. Init => StoreInv(store)
    BY NewStoreInv DEF Init
<1>2. StoreInv(store) /\ [Next]_vars => StoreInv(store)'
    <2> SUFFICES ASSUME StoreInv(store), [Next]_vars
                 PROVE  StoreInv(store')
        BY DEF StoreInv, TipsMatch, ChainUnbroken, SeqUnique, SeqBounded, SeqDense, IsLast
    <2>1. ASSUME NEW e \in Offered, AppendEvent(e)
          PROVE  StoreInv(store')
        BY <2>1, OfferedAreEvents, AppendKeepsStoreInv DEF AppendEvent
    <2>2. CASE UNCHANGED vars
        BY <2>2 DEF vars
    <2> QED
        BY <2>1, <2>2 DEF Next
<1> QED
    BY <1>1, <1>2, PTL DEF Spec

\* The type invariant TypeOK of the single store.
THEOREM TypeCorrect == Spec => []TypeOK
<1>1. Init => reply \in Reply
    BY DEF Init, Reply
<1>2. reply \in Reply /\ [Next]_vars => (reply \in Reply)'
    <2>1. ASSUME NEW e \in Offered
          PROVE  AppendReply(store, e) \in Reply
        BY DEF AppendReply, AppendOk, Reply
    <2> QED
        BY <2>1 DEF Next, AppendEvent, vars
<1>3. StoreInv(store) /\ reply \in Reply => TypeOK
    BY DEF StoreInv, TypeOK
<1> QED
    BY <1>1, <1>2, <1>3, StoreAlwaysSound, PTL DEF Spec

\* The tips that Append consults are the true ends of the traces, every trace
\* is one unbroken chain, and no number is used twice.
THEOREM StoreSafety == Spec => []StoreSound
<1>1. StoreInv(store) => StoreSound
    BY DEF StoreInv, StoreSound
<1> QED
    BY <1>1, StoreAlwaysSound, PTL

\* The store implements TraceChains: an accepted event is Extend of its trace
\* with its hash, a refused one is a stutter.
THEOREM Refinement == Spec => ImplementsTraceChains
<1>1. Init => Chains!Init
    <2>1. \A t \in Trace : HashesOf(NewEventStore, t) = <<>>
        BY DEF HashesOf, TraceLen, NewEventStore
    <2> QED
        BY <2>1 DEF Init, Chains!Init, chain
<1>2. StoreInv(store) /\ [Next]_vars => [Chains!Next]_chain
    <2> SUFFICES ASSUME StoreInv(store), [Next]_vars
                 PROVE  Chains!Next \/ chain' = chain
        OBVIOUS
    <2>1. ASSUME NEW e \in Offered, AppendEvent(e), AppendOk(store, e)
          PROVE  Chains!Next
        <3>1. e \in Event /\ e.trace \in Trace /\ e.hash \in Hash
            BY OfferedAreEvents DEF Event
        <3>2. store' = Appended(store, e)
            BY <2>1 DEF AppendEvent, AfterAppend
        <3>3. chain' = [t \in Trace |-> HashesOf(Appended(store, e), t)]
            BY <3>2 DEF chain, HashesOf, TraceLen, PosOf
        <3>4. \A t \in Trace : HashesOf(Appended(store, e), t) =
                    IF t = e.trace THEN Append(HashesOf(store, t), e.hash)
                                   ELSE HashesOf(store, t)
            BY <2>1, <3>1, AppendedHashes
        <3>5. chain' = [chain EXCEPT ![e.trace] = Append(@, e.hash)]
            BY <3>1, <3>3, <3>4 DEF chain
        <3> QED
            BY <3>1, <3>5 DEF Chains!Next, Chains!Extend
    <2>2. ASSUME NEW e \in Offered, AppendEvent(e), ~AppendOk(store, e)
          PROVE  chain' = chain
        BY <2>2 DEF AppendEvent, AfterAppend, chain, HashesOf, TraceLen, PosOf
    <2>3. CASE UNCHANGED vars
        BY <2>3 DEF vars, chain, HashesOf, TraceLen, PosOf
    <2> QED
        BY <2>1, <2>2, <2>3 DEF Next
<1> QED
    BY <1>1, <1>2, StoreAlwaysSound, PTL DEF Spec, ImplementsTraceChains, Chains!Spec

-----------------------------------------------------------------------------
(* Induction: a set of naturals that is not empty has a least member.        *)

LessNat == {ss \in Nat \X Nat : ss[1] < ss[2]}

LEMMA LessWF == IsWellFoundedOn(LessNat, Nat)
<1>1. OpToRel(<, Nat) = LessNat
    BY DEF OpToRel, LessNat
<1> QED
    BY <1>1, NatLessThanWellFounded

LEMMA Least ==
    ASSUME NEW S \in SUBSET Nat, S # {}
    PROVE  \E m \in S : \A n \in S : m <= n
<1>1. PICK x \in S : \A y \in S : ~(<<y, x>> \in LessNat)
    BY WFMin, LessWF
<1>2. \A y \in S : <<y, x>> \in Nat \X Nat
    OBVIOUS
<1>3. \A y \in S : ~(y < x)
    BY <1>1, <1>2 DEF LessNat
<1> QED
    BY <1>3

-----------------------------------------------------------------------------
(* The numbers of a trace.                                                   *)

LEMMA LogTypes ==
    ASSUME NEW es, StoreInv(es)
    PROVE  /\ es.log \in Seq(Event) /\ Len(es.log) \in Nat
           /\ \A i \in 1..Len(es.log) : /\ es.log[i] \in Event
                                        /\ es.log[i].trace \in Trace
                                        /\ es.log[i].seq \in Nat /\ es.log[i].seq >= 1
                                        /\ es.log[i].prev \in Hash
                                        /\ es.log[i].hash \in Hash
<1>1. es.log \in Seq(Event) /\ es.lastSeq \in [Trace -> Nat \cup {NoEntry}]
    BY DEF StoreInv, Store
<1>2. Len(es.log) \in Nat /\ \A i \in 1..Len(es.log) : es.log[i] \in Event
    BY <1>1, LenProperties, ElementOfSeq
<1>3. \A i \in 1..Len(es.log) : es.log[i].trace \in Trace /\ es.log[i].seq \in Nat
                                /\ es.log[i].prev \in Hash /\ es.log[i].hash \in Hash
    BY <1>2 DEF Event
<1>4. \A i \in 1..Len(es.log) : es.log[i].seq >= 1
    BY <1>1, <1>3, EventLogAssumption DEF StoreInv, SeqBounded
<1> QED
    BY <1>1, <1>2, <1>3, <1>4

\* The first event of a trace has number 1, every other the next number.
LEMMA SeqOfFirst ==
    ASSUME NEW es, StoreInv(es), NEW p \in 1..Len(es.log),
           \A i \in 1..(p-1) : es.log[i].trace # es.log[p].trace
    PROVE  es.log[p].seq = 1
BY DEF StoreInv, ChainUnbroken

LEMMA SeqOfNext ==
    ASSUME NEW es, StoreInv(es), NEW p \in 1..Len(es.log), NEW i \in 1..(p-1),
           es.log[i].trace = es.log[p].trace,
           \A k \in (i+1)..(p-1) : es.log[k].trace # es.log[p].trace
    PROVE  es.log[p].seq = es.log[i].seq + 1
<1>1. PICK j \in 1..(p-1) :
              /\ es.log[j].trace = es.log[p].trace
              /\ \A k \in (j+1)..(p-1) : es.log[k].trace # es.log[p].trace
              /\ es.log[p].seq = es.log[j].seq + 1
    BY DEF StoreInv, ChainUnbroken
<1>2. ~(i < j) /\ ~(j < i)
    BY <1>1
<1>3. i = j
    BY <1>2
<1> QED
    BY <1>1, <1>3

\* Later events of a trace have greater numbers.
LEMMA SeqsGrow ==
    ASSUME NEW es, StoreInv(es), NEW i \in 1..Len(es.log), NEW p \in 1..Len(es.log), i < p,
           es.log[i].trace = es.log[p].trace
    PROVE  es.log[i].seq < es.log[p].seq
<1> DEFINE L == es.log
           Bad == {j \in 1..Len(L) : i < j /\ L[j].trace = L[i].trace /\ ~(L[i].seq < L[j].seq)}
<1>1. Len(L) \in Nat /\ \A j \in 1..Len(L) : L[j].seq \in Nat
    BY LogTypes
<1> HIDE DEF L
<1>2. ASSUME NEW m \in Bad, \A n \in Bad : m <= n
      PROVE  FALSE
    <2>1. m \in 1..Len(L) /\ i < m /\ L[m].trace = L[i].trace /\ ~(L[i].seq < L[m].seq)
        OBVIOUS
    <2>2. i \in 1..(m-1) /\ i \in 1..Len(L) /\ m \in Nat
        BY <1>1, <2>1 DEF L
    <2>3. PICK j \in 1..(m-1) :
              /\ L[j].trace = L[m].trace
              /\ \A k \in (j+1)..(m-1) : L[k].trace # L[m].trace
              /\ L[m].seq = L[j].seq + 1
        BY <2>1, <2>2 DEF StoreInv, ChainUnbroken, L
    <2>4. ~(j < i)
        BY <2>1, <2>2, <2>3
    <2>5. j \in 1..Len(L) /\ ~(m <= j)
        BY <1>1, <2>1, <2>3
    <2>6. L[j].seq \in Nat /\ L[i].seq \in Nat
        BY <1>1, <2>2, <2>5
    <2>7. CASE j = i
        BY <2>1, <2>3, <2>6, <2>7
    <2>8. CASE j # i
        <3>1. i < j
            BY <2>2, <2>3, <2>4, <2>8
        <3>2. j \notin Bad
            <4> HIDE DEF Bad
            <4> QED
                BY <1>2, <2>5
        <3>3. L[i].seq < L[j].seq
            BY <2>1, <2>3, <2>5, <3>1, <3>2
        <3> QED
            BY <2>1, <2>3, <2>6, <3>3
    <2> QED
        BY <2>7, <2>8
<1>3. Bad = {}
    <2>1. Bad \in SUBSET Nat
        BY <1>1
    <2> HIDE DEF Bad
    <2> QED
        BY <1>2, <2>1, Least
<1> QED
    BY <1>3 DEF L

-----------------------------------------------------------------------------
(* The live store and its log, beside the recovery path.                     *)

\* The recovery path only reads the live store, so that what is proved of
\* EventStore holds of it here.
THEOREM RecoveryUsesStore == RecoverySpec => Spec
<1>1. RecoveryInit => Init
    BY DEF RecoveryInit
<1>2. [RecoveryNext]_recoveryVars => [Next]_vars
    <2>1. ASSUME NEW e \in Offered, LiveAppend(e)
          PROVE  Next
        BY <2>1 DEF LiveAppend, Next
    <2> QED
        BY <2>1 DEF RecoveryNext, CreateSnapshot, StartReplay, ReplayEvent, Rebuild,
                    recoveryVars, vars
<1> QED
    BY <1>1, <1>2, PTL DEF RecoverySpec, Spec

\* An append, accepted or refused, leaves what is in the log where it is.
LEMMA AppendKeepsLog ==
    ASSUME NEW es, StoreInv(es), NEW e \in Event
    PROVE  /\ Len(es.log) \in Nat /\ Len(AfterAppend(es, e).log) \in Nat
           /\ Len(es.log) <= Len(AfterAppend(es, e).log)
           /\ \A i \in 1..Len(es.log) : AfterAppend(es, e).log[i] = es.log[i]
<1>1. es \in Store /\ Len(es.log) \in Nat
    BY LogTypes DEF StoreInv
<1>2. CASE AppendOk(es, e)
    BY <1>1, <1>2, AppendedFields DEF AfterAppend
<1>3. CASE ~AppendOk(es, e)
    BY <1>1, <1>3 DEF AfterAppend
<1> QED
    BY <1>2, <1>3

\* An event as it comes back from the log.
LEMMA DecodedTypes ==
    ASSUME NEW e \in Event
    PROVE  /\ Decoded(e) \in Event
           /\ Decoded(e).trace = Short(e.trace) /\ Decoded(e).seq = e.seq
           /\ Decoded(e).hash = Hex(e.hash) /\ Decoded(e).prev = Hex(e.prev)
           /\ Hex(e.prev) # NoHash
<1>1. e.trace \in Trace /\ e.seq \in Nat /\ e.prev \in Hash /\ e.hash \in Hash
    BY DEF Event
<1>2. Short(e.trace) \in Trace /\ Hex(e.hash) \in Hash /\ Hex(e.prev) \in Hash
      /\ Hex(e.prev) # NoHash
    BY <1>1, RecoveryAssumption DEF Hex
<1> QED
    BY <1>1, <1>2 DEF Decoded, Event

LEMMA ReplayTipsTypes ==
    ASSUME NEW sn \in Snapshot, NEW e \in Event
    PROVE  /\ ReplayTips(sn, e) \in Snapshot
           /\ \A t \in Trace :
                /\ ReplayTips(sn, e).lastSeq[t] = IF t = e.trace THEN e.seq ELSE sn.lastSeq[t]
                /\ ReplayTips(sn, e).lastHash[t] = IF t = e.trace THEN e.hash ELSE sn.lastHash[t]
<1>1. /\ sn.lastSeq \in [Trace -> Nat \cup {NoEntry}]
      /\ sn.lastHash \in [Trace -> Hash \cup {NoEntry}]
      /\ e.trace \in Trace /\ e.seq \in Nat /\ e.hash \in Hash
    BY DEF Snapshot, Event
<1>2. /\ [sn.lastSeq EXCEPT ![e.trace] = e.seq] \in [Trace -> Nat \cup {NoEntry}]
      /\ [sn.lastHash EXCEPT ![e.trace] = e.hash] \in [Trace -> Hash \cup {NoEntry}]
    BY <1>1
<1> QED
    BY <1>1, <1>2 DEF ReplayTips, Snapshot

\* A new store refuses every recovered event: its PrevHash is not empty.
LEMMA NewStoreRefuses ==
    ASSUME NEW e \in Event
    PROVE  AfterAppend(NewEventStore, Decoded(e)) = NewEventStore
<1>1. Decoded(e).trace \in Trace /\ Decoded(e).prev # NoHash
    BY DecodedTypes DEF Event
<1>2. ~PrevOk(NewEventStore, Decoded(e))
    BY <1>1 DEF PrevOk, NewEventStore
<1> QED
    BY <1>2 DEF AfterAppend, AppendOk

-----------------------------------------------------------------------------
(* Types.                                                                    *)

Counters ==
    /\ snap \in Snapshot /\ replay \in Snapshot
    /\ snapAt \in 0..Len(store.log)
    /\ replayAt \in 0..Len(store.log)
    /\ rebuiltAt \in 0..Len(store.log)
    /\ panicked \in BOOLEAN

LEMMA CountersKept ==
    ASSUME StoreInv(store), Counters, [RecoveryNext]_recoveryVars
    PROVE  Counters'
<1>1. NewSnapshot \in Snapshot /\ Len(store.log) \in Nat
    BY LogTypes DEF NewSnapshot, Snapshot
<1>2. ASSUME NEW e \in Offered, LiveAppend(e)
      PROVE  Counters'
    <2>1. Len(store.log) <= Len(store'.log) /\ Len(store'.log) \in Nat
        BY <1>2, OfferedAreEvents, AppendKeepsLog DEF LiveAppend, AppendEvent
    <2> QED
        BY <1>1, <1>2, <2>1 DEF LiveAppend, Counters
<1>3. CASE CreateSnapshot
    BY <1>1, <1>3 DEF CreateSnapshot, Counters, StoreInv, Store, Snapshot, vars
<1>4. CASE StartReplay
    <2>1. 0 \in 0..Len(store.log) /\ FALSE \in BOOLEAN
        BY <1>1
    <2>2. /\ UNCHANGED <<store, snap, snapAt, rebuiltAt>>
          /\ replay' \in Snapshot /\ panicked' \in BOOLEAN
          /\ replayAt' \in {0, snapAt}
        BY <1>1, <1>4, <2>1 DEF StartReplay, vars, Counters
    <2> QED
        BY <2>1, <2>2 DEF Counters
<1>5. CASE ReplayEvent
    <2>1. replayAt + 1 \in 1..Len(store.log)
        BY <1>1, <1>5 DEF ReplayEvent, Counters
    <2>2. Recovered(replayAt + 1) \in Event
        BY <2>1, LogTypes, DecodedTypes DEF Recovered
    <2>3. ReplayTips(replay, Recovered(replayAt + 1)) \in Snapshot
        BY <2>2, ReplayTipsTypes DEF Counters
    <2>4. replayAt + 1 \in 0..Len(store.log)
        BY <1>1, <2>1
    <2>5. /\ UNCHANGED <<store, snap, snapAt, rebuiltAt>>
          /\ \/ /\ replay' = ReplayTips(replay, Recovered(replayAt + 1))
                /\ replayAt' = replayAt + 1 /\ panicked' = panicked
             \/ panicked' = TRUE /\ replay' = replay /\ replayAt' = replayAt
        BY <1>5 DEF ReplayEvent, vars
    <2> QED
        BY <2>3, <2>4, <2>5 DEF Counters
<1>6. CASE Rebuild
    <2>1. rebuiltAt + 1 \in 1..Len(store.log)
        BY <1>1, <1>6 DEF Rebuild, Counters
    <2> QED
        BY <1>1, <1>6, <2>1 DEF Rebuild, Counters, vars
<1>7. CASE UNCHANGED recoveryVars
    BY <1>7 DEF recoveryVars, vars, Counters
<1> QED
    BY <1>2, <1>3, <1>4, <1>5, <1>6, <1>7 DEF RecoveryNext

LEMMA CountersStart == RecoveryInit => Counters
<1>1. NewSnapshot \in Snapshot
    BY DEF NewSnapshot, Snapshot
<1>2. RecoveryInit => Len(store.log) = 0
    BY DEF RecoveryInit, Init, NewEventStore
<1>3. 0 \in 0..0
    OBVIOUS
<1> QED
    BY <1>1, <1>2, <1>3 DEF RecoveryInit, Counters

THEOREM CountersAlways == RecoverySpec => [](StoreInv(store) /\ Counters)
BY CountersStart, CountersKept, RecoveryUsesStore, StoreAlwaysSound, PTL DEF RecoverySpec

\* "Replay(WAL.Recover()) == Prefix(EventStore.log)" of the empty prefix only:
\* whatever the live store accepted, a store the recovered events are appended
\* to stays empty (invariant NothingRebuilt).
THEOREM RebuiltStaysEmpty == RecoverySpec => []NothingRebuilt
<1>1. RecoveryInit => NothingRebuilt
    BY DEF RecoveryInit, NothingRebuilt
<1>2. StoreInv(store) /\ Counters /\ NothingRebuilt /\ [RecoveryNext]_recoveryVars
        => NothingRebuilt'
    <2> SUFFICES ASSUME StoreInv(store), Counters, NothingRebuilt,
                        [RecoveryNext]_recoveryVars
                 PROVE  NothingRebuilt'
        OBVIOUS
    <2>1. CASE Rebuild
        <3>1. rebuiltAt + 1 \in 1..Len(store.log)
            BY <2>1, LogTypes DEF Rebuild, Counters
        <3>2. store.log[rebuiltAt + 1] \in Event
            BY <3>1, LogTypes
        <3> QED
            BY <2>1, <3>2, NewStoreRefuses DEF Rebuild, NothingRebuilt, Recovered
    <2> QED
        BY <2>1 DEF RecoveryNext, LiveAppend, CreateSnapshot, StartReplay, ReplayEvent,
                    recoveryVars, NothingRebuilt
<1> QED
    BY <1>1, <1>2, CountersAlways, PTL DEF RecoverySpec

\* The type invariant RecoveryTypeOK.
THEOREM RecoveryTypes == RecoverySpec => []RecoveryTypeOK
<1>1. TypeOK /\ Counters /\ NothingRebuilt => RecoveryTypeOK
    BY NewStoreInv DEF RecoveryTypeOK, Counters, NothingRebuilt, StoreInv
<1> QED
    BY <1>1, CountersAlways, RebuiltStaysEmpty, RecoveryUsesStore, TypeCorrect, PTL

-----------------------------------------------------------------------------
(* What a snapshot knows of the first n events of a log.                     *)

\* No identifier is longer than 16 bytes, so that the log gives back the one it
\* was given.
Fits == \A t \in Trace : Short(t) = t

\* The weaker form that CheckSeqMonotonic needs: no two identifiers in use are
\* cut to the same 16 bytes.
Apart == \A t, u \in Trace : Short(t) = Short(u) => t = u

NoneTo(L, n, t) == \A i \in 1..n : L[i].trace # t

LastTo(L, n, t, i) ==
    i \in 1..n /\ L[i].trace = t /\ \A j \in (i+1)..n : L[j].trace # t

\* x is the number of the last of the first n events of trace t.
SeqTip(L, n, t, x) ==
    \/ NoneTo(L, n, t) /\ x = NoEntry
    \/ \E i \in 1..n : LastTo(L, n, t, i) /\ x = L[i].seq

\* The two map entries of trace t describe its last event among the first n.
TipAt(L, n, t, sn) ==
    \/ NoneTo(L, n, t) /\ sn.lastSeq[t] = NoEntry /\ sn.lastHash[t] = NoEntry
    \/ \E i \in 1..n : /\ LastTo(L, n, t, i)
                       /\ sn.lastSeq[t] = L[i].seq
                       /\ Hex(sn.lastHash[t]) = Hex(L[i].hash)

TipsAt(L, n, sn) == \A t \in Trace : TipAt(L, n, t, sn)

LEMMA TipHasSeq ==
    ASSUME NEW L, NEW n, NEW t, NEW sn, TipAt(L, n, t, sn)
    PROVE  SeqTip(L, n, t, sn.lastSeq[t])
BY DEF TipAt, SeqTip

\* The maps of the live store know all of its log.
LEMMA StoreTips ==
    ASSUME NEW es, StoreInv(es)
    PROVE  TipsAt(es.log, Len(es.log), [lastSeq |-> es.lastSeq, lastHash |-> es.lastHash])
<1> DEFINE sn == [lastSeq |-> es.lastSeq, lastHash |-> es.lastHash]
<1>1. ASSUME NEW t \in Trace
      PROVE  TipAt(es.log, Len(es.log), t, sn)
    <2>1. sn.lastSeq[t] = es.lastSeq[t] /\ sn.lastHash[t] = es.lastHash[t]
        OBVIOUS
    <2>2. CASE es.lastSeq[t] = NoEntry
        <3>1. es.lastHash[t] = NoEntry /\ NoneTo(es.log, Len(es.log), t)
            BY <2>2 DEF StoreInv, TipsMatch, NoneTo
        <3> QED
            BY <2>1, <2>2, <3>1 DEF TipAt
    <2>3. CASE es.lastSeq[t] # NoEntry
        <3>1. PICK i \in 1..Len(es.log) :
                    /\ IsLast(es.log, t, i)
                    /\ es.lastSeq[t] = es.log[i].seq
                    /\ es.lastHash[t] = es.log[i].hash
            BY <2>3 DEF StoreInv, TipsMatch
        <3>2. LastTo(es.log, Len(es.log), t, i)
            BY <3>1 DEF IsLast, LastTo
        <3> QED
            BY <2>1, <3>1, <3>2 DEF TipAt
    <2> QED
        BY <2>2, <2>3
<1> QED
    BY <1>1 DEF TipsAt

\* A new snapshot knows the empty prefix.
LEMMA NewTips == ASSUME NEW L PROVE TipsAt(L, 0, NewSnapshot)
BY DEF TipsAt, TipAt, NoneTo, NewSnapshot

\* What it knows depends on those n events only.
LEMMA TipsKept ==
    ASSUME NEW L, NEW M, NEW n \in Nat, NEW sn, TipsAt(L, n, sn),
           \A i \in 1..n : M[i] = L[i]
    PROVE  TipsAt(M, n, sn)
<1>1. ASSUME NEW t \in Trace
      PROVE  TipAt(M, n, t, sn)
    <2>1. CASE NoneTo(L, n, t) /\ sn.lastSeq[t] = NoEntry /\ sn.lastHash[t] = NoEntry
        BY <2>1 DEF TipAt, NoneTo
    <2>2. ASSUME NEW i \in 1..n, LastTo(L, n, t, i), sn.lastSeq[t] = L[i].seq,
                 Hex(sn.lastHash[t]) = Hex(L[i].hash)
          PROVE  TipAt(M, n, t, sn)
        <3>1. \A j \in (i+1)..n : j \in 1..n
            OBVIOUS
        <3>2. LastTo(M, n, t, i)
            BY <2>2, <3>1 DEF LastTo
        <3>3. M[i] = L[i]
            OBVIOUS
        <3> QED
            BY <2>2, <3>2, <3>3 DEF TipAt
    <2> QED
        BY <2>1, <2>2 DEF TipsAt, TipAt
<1> QED
    BY <1>1 DEF TipsAt

\* The number of an event follows from its trace's tip in front of it.
LEMMA NextInTrace ==
    ASSUME NEW es, StoreInv(es), NEW p \in 1..Len(es.log), NEW x,
           SeqTip(es.log, p-1, es.log[p].trace, x)
    PROVE  IF x = NoEntry THEN es.log[p].seq = 1 ELSE es.log[p].seq = x + 1
<1>0. Len(es.log) \in Nat
    BY LogTypes
<1>1. CASE NoneTo(es.log, p-1, es.log[p].trace) /\ x = NoEntry
    BY <1>1, SeqOfFirst DEF NoneTo
<1>2. ASSUME NEW i \in 1..(p-1), LastTo(es.log, p-1, es.log[p].trace, i), x = es.log[i].seq
      PROVE  x # NoEntry /\ es.log[p].seq = x + 1
    <2>1. es.log[p].seq = es.log[i].seq + 1
        BY <1>2, SeqOfNext DEF LastTo
    <2>2. i \in 1..Len(es.log)
        BY <1>0
    <2> QED
        BY <1>2, <2>1, <2>2, LogTypes, EventLogAssumption
<1> QED
    BY <1>1, <1>2 DEF SeqTip

\* FastReplay accepts the event behind the ones a snapshot knows of ...
LEMMA ReplayAccepts ==
    ASSUME Fits, NEW es, StoreInv(es), NEW p \in 1..Len(es.log), NEW sn,
           SeqTip(es.log, p-1, es.log[p].trace, sn.lastSeq[es.log[p].trace])
    PROVE  ReplayOk(sn, Decoded(es.log[p]))
<1>1. Decoded(es.log[p]).trace = es.log[p].trace /\ Decoded(es.log[p]).seq = es.log[p].seq
    BY LogTypes, DecodedTypes DEF Fits
<1> QED
    BY <1>1, NextInTrace DEF ReplayOk

\* ... and then knows of that one too.
LEMMA ReplayKnows ==
    ASSUME Fits, NEW es, StoreInv(es), NEW p \in 1..Len(es.log), NEW sn \in Snapshot,
           TipsAt(es.log, p-1, sn)
    PROVE  TipsAt(es.log, p, ReplayTips(sn, Decoded(es.log[p])))
<1> DEFINE e == es.log[p]
           L == es.log
           r == ReplayTips(sn, Decoded(e))
<1>1. /\ Decoded(e) \in Event /\ Decoded(e).trace = e.trace /\ Decoded(e).seq = e.seq
      /\ Decoded(e).hash = Hex(e.hash) /\ p \in Nat
    BY LogTypes, DecodedTypes DEF Fits
<1>2. \A t \in Trace :
         /\ r.lastSeq[t] = IF t = e.trace THEN e.seq ELSE sn.lastSeq[t]
         /\ r.lastHash[t] = IF t = e.trace THEN Hex(e.hash) ELSE sn.lastHash[t]
    BY <1>1, ReplayTipsTypes
<1>3. Hex(Hex(e.hash)) = Hex(e.hash)
    BY RecoveryAssumption DEF Hex
<1> HIDE DEF r, L
<1>4. ASSUME NEW t \in Trace, t = e.trace
      PROVE  TipAt(L, p, t, r)
    <2>1. LastTo(L, p, t, p) /\ p \in 1..p
        BY <1>1, <1>4 DEF LastTo, L
    <2> QED
        BY <1>2, <1>3, <1>4, <2>1 DEF TipAt, L
<1>5. ASSUME NEW t \in Trace, t # e.trace
      PROVE  TipAt(L, p, t, r)
    <2>1. r.lastSeq[t] = sn.lastSeq[t] /\ r.lastHash[t] = sn.lastHash[t] /\ L[p].trace # t
        BY <1>2, <1>5 DEF L
    <2>2. TipAt(L, p-1, t, sn)
        BY DEF TipsAt, L
    <2>3. CASE NoneTo(L, p-1, t) /\ sn.lastSeq[t] = NoEntry /\ sn.lastHash[t] = NoEntry
        <3>1. NoneTo(L, p, t)
            BY <1>1, <2>1, <2>3 DEF NoneTo
        <3> QED
            BY <2>1, <2>3, <3>1 DEF TipAt
    <2>4. ASSUME NEW i \in 1..(p-1), LastTo(L, p-1, t, i), sn.lastSeq[t] = L[i].seq,
                 Hex(sn.lastHash[t]) = Hex(L[i].hash)
          PROVE  TipAt(L, p, t, r)
        <3>1. LastTo(L, p, t, i) /\ i \in 1..p
            BY <1>1, <2>1, <2>4 DEF LastTo
        <3> QED
            BY <2>1, <2>4, <3>1 DEF TipAt
    <2> QED
        BY <2>2, <2>3, <2>4 DEF TipAt
<1> QED
    BY <1>4, <1>5 DEF TipsAt, L, r

-----------------------------------------------------------------------------
(* FastReplay against the growing log.                                       *)

\* Both the snapshot and the replay know the prefix they claim to cover, and
\* the replay has not panicked.
Knows ==
    /\ TipsAt(store.log, snapAt, snap)
    /\ TipsAt(store.log, replayAt, replay)
    /\ ~panicked

LEMMA KnowsKept ==
    ASSUME Fits, StoreInv(store), Counters, Knows, [RecoveryNext]_recoveryVars
    PROVE  Knows'
<1>0. Len(store.log) \in Nat /\ snapAt \in Nat /\ replayAt \in Nat
    BY LogTypes DEF Counters
<1>1. ASSUME NEW e \in Offered, LiveAppend(e)
      PROVE  Knows'
    <2>1. store' = AfterAppend(store, e) /\ e \in Event
        BY <1>1, OfferedAreEvents DEF LiveAppend, AppendEvent
    <2>2. \A i \in 1..Len(store.log) : store'.log[i] = store.log[i]
        BY <2>1, AppendKeepsLog
    <2>3. /\ \A i \in 1..snapAt : store'.log[i] = store.log[i]
          /\ \A i \in 1..replayAt : store'.log[i] = store.log[i]
        BY <1>0, <2>2 DEF Counters
    <2>4. TipsAt(store'.log, snapAt, snap) /\ TipsAt(store'.log, replayAt, replay)
        BY <1>0, <2>3, TipsKept DEF Knows
    <2> QED
        BY <1>1, <2>4 DEF LiveAppend, Knows
<1>2. CASE CreateSnapshot
    BY <1>2, StoreTips DEF CreateSnapshot, Knows, vars
<1>3. CASE StartReplay
    BY <1>3, NewTips DEF StartReplay, Knows, vars
<1>4. CASE ReplayEvent
    <2> DEFINE p == replayAt + 1
    <2>1. p \in 1..Len(store.log) /\ p - 1 = replayAt
        BY <1>0, <1>4 DEF ReplayEvent
    <2>2. TipsAt(store.log, p-1, replay)
        BY <2>1 DEF Knows
    <2> HIDE DEF p
    <2>3. SeqTip(store.log, p-1, store.log[p].trace, replay.lastSeq[store.log[p].trace])
        <3>1. store.log[p].trace \in Trace
            BY <2>1, LogTypes
        <3> QED
            BY <2>2, <3>1, TipHasSeq DEF TipsAt
    <2>4. ReplayOk(replay, Recovered(p))
        BY <2>1, <2>3, ReplayAccepts DEF Recovered
    <2>5. TipsAt(store.log, p, ReplayTips(replay, Recovered(p)))
        BY <2>1, <2>2, ReplayKnows DEF Recovered, Counters
    <2> QED
        BY <1>4, <2>4, <2>5 DEF ReplayEvent, Knows, p, vars
<1>5. CASE Rebuild
    BY <1>5 DEF Rebuild, Knows, vars
<1>6. CASE UNCHANGED recoveryVars
    BY <1>6 DEF recoveryVars, vars, Knows
<1> QED
    BY <1>1, <1>2, <1>3, <1>4, <1>5, <1>6 DEF RecoveryNext

THEOREM KnowsAlways ==
    ASSUME Fits
    PROVE  RecoverySpec => [](StoreInv(store) /\ Counters /\ Knows)
<1>1. RecoveryInit => Knows
    BY NewTips DEF RecoveryInit, Knows
<1>2. StoreInv(store) /\ Counters /\ Knows /\ [RecoveryNext]_recoveryVars => Knows'
    BY KnowsKept
<1> QED
    BY <1>1, <1>2, CountersAlways, PTL DEF RecoverySpec

\* Where identifiers fit, FastReplay never panics on what the log of a live
\* store decodes to, and knows exactly the tips of what it has covered
\* (invariant ReplayExact).
THEOREM ReplayAlwaysExact == ASSUME Fits PROVE RecoverySpec => []ReplayExact
<1>1. StoreInv(store) /\ Counters /\ Knows => ReplayExact
    <2> SUFFICES ASSUME Knows, NEW t \in Trace
                 PROVE  IF \E i \in 1..replayAt : store.log[i].trace = t
                        THEN \E i \in 1..replayAt :
                               /\ store.log[i].trace = t
                               /\ \A j \in (i+1)..replayAt : store.log[j].trace # t
                               /\ replay.lastSeq[t] = store.log[i].seq
                               /\ Hex(replay.lastHash[t]) = Hex(store.log[i].hash)
                        ELSE replay.lastSeq[t] = NoEntry /\ replay.lastHash[t] = NoEntry
        BY DEF ReplayExact, Knows
    <2>1. TipAt(store.log, replayAt, t, replay)
        BY DEF Knows, TipsAt
    <2> QED
        BY <2>1 DEF TipAt, NoneTo, LastTo
<1> QED
    BY <1>1, KnowsAlways, PTL

-----------------------------------------------------------------------------
(* The invariant guard and the store.                                        *)

\* A trace has one last position in a log.
LEMMA OneLast ==
    ASSUME NEW es, StoreInv(es), NEW t, NEW i \in 1..Len(es.log), NEW j \in 1..Len(es.log),
           IsLast(es.log, t, i), IsLast(es.log, t, j)
    PROVE  i = j
<1>1. Len(es.log) \in Nat
    BY LogTypes
<1>2. ~(i < j) /\ ~(j < i)
    BY <1>1 DEF IsLast
<1> QED
    BY <1>1, <1>2

\* The guard judges an event by the last of its trace in the log, the store by
\* its maps; where the trace starts at 1 and the hash is not empty they agree.
LEMMA GuardAndStore ==
    ASSUME NEW es, StoreInv(es), NEW e \in Event
    PROVE  AppendOk(es, e) /\ e.hash # NoHash
             <=> CheckEvent(es.log, e) /\ (es.lastSeq[e.trace] = NoEntry => e.seq = 1)
<1> DEFINE t == e.trace
           L == es.log
<1>1. t \in Trace /\ e.seq \in Nat /\ Len(L) \in Nat
    BY LogTypes DEF Event
<1>2. CASE es.lastSeq[t] = NoEntry
    <2>1. es.lastHash[t] = NoEntry /\ \A i \in 1..Len(L) : L[i].trace # t
        BY <1>1, <1>2 DEF StoreInv, TipsMatch
    <2>2. CheckEvent(L, e) <=> CheckFirst(e)
        BY <2>1 DEF CheckEvent, IsLast
    <2> QED
        BY <1>1, <1>2, <2>1, <2>2 DEF AppendOk, SeqOk, PrevOk, CheckFirst
<1>3. CASE es.lastSeq[t] # NoEntry
    <2>1. PICK i \in 1..Len(L) : /\ IsLast(L, t, i)
                                 /\ es.lastSeq[t] = L[i].seq
                                 /\ es.lastHash[t] = L[i].hash
        BY <1>1, <1>3 DEF StoreInv, TipsMatch
    <2>2. \A j \in 1..Len(L) : IsLast(L, t, j) => j = i
        BY <2>1, OneLast
    <2>3. CheckEvent(L, e) <=> CheckNext(e, L[i])
        BY <2>1, <2>2 DEF CheckEvent
    <2>4. L[i].seq \in Nat /\ L[i].hash \in Hash
        BY <2>1, LogTypes
    <2>5. AppendOk(es, e) <=> e.seq = L[i].seq + 1 /\ e.prev = L[i].hash
        BY <1>3, <2>1, <2>4, EventLogAssumption DEF AppendOk, SeqOk, PrevOk
    <2>6. e.seq = L[i].seq + 1 => e.seq >= 1
        BY <1>1, <2>4
    <2> QED
        BY <1>3, <2>3, <2>5, <2>6 DEF CheckNext
<1> QED
    BY <1>2, <1>3

\* Where no two identifiers are cut to the same 16 bytes, the decoded log
\* passes CheckSeqMonotonic.
LEMMA DecodedMonotonic ==
    ASSUME Apart, StoreInv(store)
    PROVE  CheckSeqMonotonic(Len(store.log))
<1> SUFFICES ASSUME NEW i \in 1..Len(store.log), NEW j \in 1..Len(store.log), i < j,
                    Recovered(i).trace = Recovered(j).trace
             PROVE  Recovered(i).seq < Recovered(j).seq
    BY DEF CheckSeqMonotonic
<1>1. /\ store.log[i] \in Event /\ store.log[j] \in Event
      /\ store.log[i].trace \in Trace /\ store.log[j].trace \in Trace
    BY LogTypes
<1>2. /\ Recovered(i).trace = Short(store.log[i].trace) /\ Recovered(i).seq = store.log[i].seq
      /\ Recovered(j).trace = Short(store.log[j].trace) /\ Recovered(j).seq = store.log[j].seq
    BY <1>1, DecodedTypes DEF Recovered
<1>3. store.log[i].trace = store.log[j].trace
    BY <1>1, <1>2 DEF Apart
<1> QED
    BY <1>2, <1>3, SeqsGrow

\* The guard's panics and the store's errors come to the same thing but for an
\* empty EventHash and a trace that starts late (invariant GuardAgrees).
THEOREM GuardAlwaysAgrees == ASSUME Apart PROVE RecoverySpec => []GuardAgrees
<1>1. StoreInv(store) => GuardAgrees
    <2> SUFFICES ASSUME StoreInv(store) PROVE GuardAgrees
        OBVIOUS
    <2>1. ASSUME NEW e \in Offered
          PROVE  AppendOk(store, e) /\ e.hash # NoHash
                   <=> /\ CheckEvent(store.log, e)
                       /\ store.lastSeq[e.trace] = NoEntry => e.seq = 1
        BY OfferedAreEvents, GuardAndStore
    <2> QED
        BY <2>1, DecodedMonotonic DEF GuardAgrees
<1> QED
    BY <1>1, RecoveryUsesStore, StoreAlwaysSound, PTL

-----------------------------------------------------------------------------
(* FastReplay as a function of a snapshot and a run of the log.              *)

\* One round of its loop, and the values the loop takes.
Round(r, i) ==
    IF r # NoEntry /\ ReplayOk(r, Recovered(i)) THEN ReplayTips(r, Recovered(i)) ELSE NoEntry

Rounds(s, k, n, u) == u = [i \in k..n |-> IF i = k THEN s ELSE Round(u[i-1], i)]

LEMMA FastReplayIsRounds ==
    ASSUME NEW s, NEW k, NEW n
    PROVE  FastReplay(s, k, n) = (CHOOSE u : Rounds(s, k, n, u))[n]
BY DEF FastReplay, Rounds, Round

\* The recursive function that FastReplay names exists.
LEMMA RoundsExist ==
    ASSUME NEW s, NEW k \in Nat, NEW n \in Nat, k <= n
    PROVE  \E u : Rounds(s, k, n, u)
<1> DEFINE Bad == {m \in Nat : k <= m /\ ~\E u : Rounds(s, k, m, u)}
<1>1. ASSUME NEW m \in Bad, \A j \in Bad : m <= j
      PROVE  FALSE
    <2>1. CASE m = k
        <3> DEFINE v == [i \in k..k |-> s]
        <3>1. \A i \in k..k : i = k
            OBVIOUS
        <3>2. v = [i \in k..k |-> IF i = k THEN s ELSE Round(v[i-1], i)]
            BY <3>1
        <3>3. Rounds(s, k, k, v)
            <4> HIDE DEF v
            <4> QED
                BY <3>2 DEF Rounds
        <3> QED
            BY <2>1, <3>3
    <2>2. CASE m # k
        <3>1. m-1 \in Nat /\ k <= m-1 /\ ~(m <= m-1)
            BY <2>2
        <3>2. m-1 \notin Bad
            <4> HIDE DEF Bad
            <4> QED
                BY <1>1, <3>1
        <3>3. PICK w : Rounds(s, k, m-1, w)
            BY <3>1, <3>2
        <3> DEFINE v == [i \in k..m |-> IF i = m THEN Round(w[m-1], m) ELSE w[i]]
        <3>4. \A i \in k..m : i = m \/ i \in k..(m-1)
            BY <3>1
        <3>5. \A i \in k..m : v[i] = IF i = k THEN s ELSE Round(v[i-1], i)
            <4> SUFFICES ASSUME NEW i \in k..m
                         PROVE  v[i] = IF i = k THEN s ELSE Round(v[i-1], i)
                OBVIOUS
            <4>1. CASE i = m
                <5>1. m-1 \in k..m /\ m-1 # m
                    BY <3>1
                <5>2. v[m-1] = w[m-1]
                    BY <5>1
                <5> QED
                    BY <4>1, <5>2, <2>2
            <4>2. CASE i # m
                <5>1. i \in k..(m-1) /\ v[i] = w[i]
                    BY <3>4, <4>2
                <5>2. w[i] = IF i = k THEN s ELSE Round(w[i-1], i)
                    BY <3>3, <5>1 DEF Rounds
                <5>3. i # k => v[i-1] = w[i-1]
                    <6>1. i # k => i-1 \in k..m /\ i-1 # m
                        BY <5>1, <3>1
                    <6> QED
                        BY <6>1
                <5> QED
                    BY <5>1, <5>2, <5>3
            <4> QED
                BY <4>1, <4>2
        <3>6. v = [i \in k..m |-> v[i]]
            OBVIOUS
        <3>7. Rounds(s, k, m, v)
            <4> HIDE DEF v
            <4> QED
                BY <3>5, <3>6 DEF Rounds
        <3> QED
            BY <3>7
    <2> QED
        BY <2>1, <2>2
<1>2. Bad = {}
    <2>1. Bad \in SUBSET Nat
        OBVIOUS
    <2> HIDE DEF Bad
    <2> QED
        BY <1>1, <2>1, Least
<1> QED
    BY <1>2

-----------------------------------------------------------------------------
(* EquivalenceProof.                                                         *)

\* The events the snapshot and the run from k both have, or both lack.
Gap(k) == IF k < snapAt THEN TracesOf(k, snapAt) ELSE TracesOf(snapAt, k)

\* What a replay from the snapshot over the events k+1 to m knows: the numbers
\* of those events, and the snapshot's of the traces they leave alone.
Behind(k, m, r) ==
    /\ r \in Snapshot
    /\ \A t \in Trace :
         \/ /\ \A i \in (k+1)..m : store.log[i].trace # t
            /\ r.lastSeq[t] = snap.lastSeq[t]
         \/ \E i \in (k+1)..m : LastTo(store.log, m, t, i) /\ r.lastSeq[t] = store.log[i].seq

LEMMA RecoveredFields ==
    ASSUME Fits, StoreInv(store), NEW p \in 1..Len(store.log)
    PROVE  /\ Recovered(p) \in Event
           /\ Recovered(p).trace = store.log[p].trace /\ Recovered(p).seq = store.log[p].seq
           /\ store.log[p].trace \in Trace /\ store.log[p].seq \in Nat /\ store.log[p].seq >= 1
BY LogTypes, DecodedTypes DEF Fits, Recovered

LEMMA InTracesOf ==
    ASSUME Fits, StoreInv(store), NEW k \in Nat, NEW n \in 0..Len(store.log), NEW t
    PROVE  t \in TracesOf(k, n) <=> \E i \in (k+1)..n : store.log[i].trace = t
<1>1. \A i \in (k+1)..n : i \in 1..Len(store.log)
    BY LogTypes
<1>2. \A i \in (k+1)..n : Recovered(i).trace = store.log[i].trace
    BY <1>1, RecoveredFields
<1> QED
    BY <1>2 DEF TracesOf

\* An event of a trace outside the gap is the one the replay waits for.
LEMMA OutsideGapAccepted ==
    ASSUME Fits, StoreInv(store), Counters, Knows,
           NEW k \in Nat, NEW p \in 1..Len(store.log), k < p,
           NEW r, Behind(k, p-1, r), store.log[p].trace \notin Gap(k)
    PROVE  ReplayOk(r, Recovered(p))
<1> DEFINE L == store.log
           t == L[p].trace
<1>1. Len(L) \in Nat /\ snapAt \in Nat /\ snapAt <= Len(L) /\ t \in Trace
    BY LogTypes DEF Counters
<1>2. CASE \E i \in (k+1)..(p-1) : LastTo(L, p-1, t, i) /\ r.lastSeq[t] = L[i].seq
    <2>1. SeqTip(L, p-1, t, r.lastSeq[t])
        BY <1>2 DEF SeqTip
    <2> QED
        BY <2>1, ReplayAccepts DEF Recovered
<1>3. CASE (\A i \in (k+1)..(p-1) : L[i].trace # t) /\ r.lastSeq[t] = snap.lastSeq[t]
    <2>1. snapAt <= p-1 /\ \A i \in (snapAt+1)..(p-1) : L[i].trace # t
        <3>1. CASE k < snapAt
            <4>1. \A i \in (k+1)..snapAt : L[i].trace # t
                BY <1>1, <3>1, InTracesOf DEF Gap
            <4>2. snapAt < p
                BY <1>1, <4>1
            <4> QED
                BY <1>1, <1>3, <3>1, <4>2
        <3>2. CASE ~(k < snapAt)
            <4>1. k \in 0..Len(L)
                BY <1>1
            <4>2. \A i \in (snapAt+1)..k : L[i].trace # t
                BY <1>1, <3>2, <4>1, InTracesOf DEF Gap
            <4> QED
                BY <1>1, <1>3, <3>2, <4>2
        <3> QED
            BY <3>1, <3>2
    <2>2. SeqTip(L, snapAt, t, snap.lastSeq[t])
        BY <1>1, TipHasSeq DEF Knows, TipsAt
    <2>3. SeqTip(L, p-1, t, snap.lastSeq[t])
        <3>1. CASE NoneTo(L, snapAt, t) /\ snap.lastSeq[t] = NoEntry
            <4>1. NoneTo(L, p-1, t)
                BY <1>1, <2>1, <3>1 DEF NoneTo
            <4> QED
                BY <3>1, <4>1 DEF SeqTip
        <3>2. ASSUME NEW i \in 1..snapAt, LastTo(L, snapAt, t, i), snap.lastSeq[t] = L[i].seq
              PROVE  SeqTip(L, p-1, t, snap.lastSeq[t])
            <4>1. LastTo(L, p-1, t, i) /\ i \in 1..(p-1)
                BY <1>1, <2>1, <3>2 DEF LastTo
            <4> QED
                BY <3>2, <4>1 DEF SeqTip
        <3> QED
            BY <2>2, <3>1, <3>2 DEF SeqTip
    <2> QED
        BY <1>3, <2>3, ReplayAccepts DEF Recovered
<1> QED
    BY <1>1, <1>2, <1>3 DEF Behind

\* The first event of a trace in the gap is a repetition, or comes too early.
LEMMA InsideGapRefused ==
    ASSUME Fits, StoreInv(store), Counters, Knows,
           NEW k \in Nat, NEW p \in 1..Len(store.log), k < p,
           NEW r, Behind(k, p-1, r), store.log[p].trace \in Gap(k),
           store.log[p].trace \notin TracesOf(k, p-1)
    PROVE  ~ReplayOk(r, Recovered(p))
<1> DEFINE L == store.log
           t == L[p].trace
<1>1. Len(L) \in Nat /\ snapAt \in Nat /\ snapAt <= Len(L) /\ t \in Trace
    BY LogTypes DEF Counters
<1>2. p-1 \in 0..Len(L)
    BY <1>1
<1>3. \A i \in (k+1)..(p-1) : L[i].trace # t
    BY <1>2, InTracesOf
<1>4. r.lastSeq[t] = snap.lastSeq[t]
    BY <1>1, <1>3 DEF Behind, LastTo
<1>5. Recovered(p).trace = t /\ Recovered(p).seq = L[p].seq /\ L[p].seq \in Nat
    BY RecoveredFields
<1>6. SeqTip(L, snapAt, t, snap.lastSeq[t])
    BY <1>1, TipHasSeq DEF Knows, TipsAt
<1>7. CASE k < snapAt
    <2>0. snapAt \in 0..Len(L) /\ t \in TracesOf(k, snapAt)
        BY <1>1, <1>7 DEF Gap
    <2>1. PICK q \in (k+1)..snapAt : L[q].trace = t
        BY <2>0, InTracesOf
    <2>2. p <= q
        BY <1>1, <1>3, <2>1
    <2>3. q \in 1..snapAt /\ ~NoneTo(L, snapAt, t)
        BY <1>1, <2>1 DEF NoneTo
    <2>4. PICK i \in 1..snapAt : LastTo(L, snapAt, t, i) /\ snap.lastSeq[t] = L[i].seq
        BY <1>6, <2>3 DEF SeqTip
    <2>5. ~(i < q)
        BY <1>1, <2>1, <2>3, <2>4 DEF LastTo
    <2>6. i \in 1..Len(L) /\ p <= i /\ L[i].trace = t
        BY <1>1, <2>1, <2>2, <2>4, <2>5 DEF LastTo
    <2>7. L[i].seq \in Nat /\ L[p].seq <= L[i].seq
        <3>1. CASE p = i
            BY <1>5, <3>1
        <3>2. CASE p < i
            <4>1. L[p].seq < L[i].seq
                BY <2>6, <3>2, SeqsGrow
            <4> QED
                BY <1>5, <2>6, <4>1, RecoveredFields
        <3> QED
            BY <2>6, <3>1, <3>2
    <2>8. snap.lastSeq[t] # NoEntry /\ L[p].seq # snap.lastSeq[t] + 1
        BY <1>5, <2>4, <2>7, EventLogAssumption
    <2> QED
        BY <1>4, <1>5, <2>8 DEF ReplayOk
<1>8. CASE ~(k < snapAt)
    <2>1. k \in 0..Len(L) /\ t \in TracesOf(snapAt, k)
        BY <1>1, <1>8 DEF Gap
    <2>2. PICK q \in (snapAt+1)..k : L[q].trace = t
        BY <1>1, <2>1, InTracesOf
    <2>3. q \in 1..Len(L) /\ q < p /\ snapAt < q
        BY <1>1, <2>1, <2>2
    <2>4. L[q].seq < L[p].seq /\ L[q].seq \in Nat /\ L[q].seq >= 1
        BY <2>2, <2>3, SeqsGrow, RecoveredFields
    <2>5. CASE snap.lastSeq[t] = NoEntry
        BY <1>4, <1>5, <2>4, <2>5 DEF ReplayOk
    <2>6. ASSUME NEW i \in 1..snapAt, LastTo(L, snapAt, t, i), snap.lastSeq[t] = L[i].seq
          PROVE  ~ReplayOk(r, Recovered(p))
        <3>1. i \in 1..Len(L) /\ i < q /\ L[i].trace = t
            BY <1>1, <2>3, <2>6 DEF LastTo
        <3>2. L[i].seq < L[q].seq /\ L[i].seq \in Nat
            BY <2>2, <2>3, <3>1, SeqsGrow, RecoveredFields
        <3>3. L[p].seq # L[i].seq + 1
            BY <1>5, <2>4, <3>2
        <3>4. snap.lastSeq[t] # NoEntry
            BY <2>6, <3>2, EventLogAssumption
        <3> QED
            BY <1>4, <1>5, <2>6, <3>3, <3>4 DEF ReplayOk
    <2> QED
        BY <1>6, <2>5, <2>6 DEF SeqTip
<1> QED
    BY <1>7, <1>8

\* Event p of the run, accepted: the replay knows it too.
LEMMA RoundKnows ==
    ASSUME Fits, StoreInv(store),
           NEW k \in Nat, NEW p \in 1..Len(store.log), k < p, NEW r, Behind(k, p-1, r)
    PROVE  Behind(k, p, ReplayTips(r, Recovered(p)))
<1> DEFINE L == store.log
           x == ReplayTips(r, Recovered(p))
<1>1. x \in Snapshot /\ \A t \in Trace :
            x.lastSeq[t] = IF t = L[p].trace THEN L[p].seq ELSE r.lastSeq[t]
    BY RecoveredFields, ReplayTipsTypes DEF Behind
<1>2. p \in Nat /\ p \in (k+1)..p
    OBVIOUS
<1> HIDE DEF x
<1>3. ASSUME NEW t \in Trace, t = L[p].trace
      PROVE  \E i \in (k+1)..p : LastTo(L, p, t, i) /\ x.lastSeq[t] = L[i].seq
    <2>1. LastTo(L, p, t, p)
        BY <1>2, <1>3 DEF LastTo
    <2> QED
        BY <1>1, <1>2, <1>3, <2>1
<1>4. ASSUME NEW t \in Trace, t # L[p].trace
      PROVE  \/ (\A i \in (k+1)..p : L[i].trace # t) /\ x.lastSeq[t] = snap.lastSeq[t]
             \/ \E i \in (k+1)..p : LastTo(L, p, t, i) /\ x.lastSeq[t] = L[i].seq
    <2>1. x.lastSeq[t] = r.lastSeq[t]
        BY <1>1, <1>4
    <2>2. CASE (\A i \in (k+1)..(p-1) : L[i].trace # t) /\ r.lastSeq[t] = snap.lastSeq[t]
        BY <1>2, <1>4, <2>1, <2>2
    <2>3. ASSUME NEW i \in (k+1)..(p-1), LastTo(L, p-1, t, i), r.lastSeq[t] = L[i].seq
          PROVE  \E j \in (k+1)..p : LastTo(L, p, t, j) /\ x.lastSeq[t] = L[j].seq
        <3>1. LastTo(L, p, t, i) /\ i \in (k+1)..p
            BY <1>2, <1>4, <2>3 DEF LastTo
        <3> QED
            BY <2>1, <2>3, <3>1
    <2> QED
        BY <2>2, <2>3 DEF Behind
<1>5. Behind(k, p, x)
    BY <1>1, <1>3, <1>4 DEF Behind
<1> QED
    BY <1>5 DEF x

\* What FastReplay of the snapshot and the events k+1 to n returns.
LEMMA RunOutcome ==
    ASSUME Fits, StoreInv(store), Counters, Knows,
           NEW n \in 0..Len(store.log), NEW k \in 0..n
    PROVE  IF TracesOf(k, n) \cap Gap(k) = {}
           THEN Behind(k, n, FastReplay(snap, k, n))
           ELSE FastReplay(snap, k, n) = NoEntry
<1> DEFINE u == CHOOSE u : Rounds(snap, k, n, u)
           L == store.log
           Right(m) == IF TracesOf(k, m) \cap Gap(k) = {} THEN Behind(k, m, u[m])
                       ELSE u[m] = NoEntry
           Bad == {m \in k..n : ~Right(m)}
<1>1. Len(L) \in Nat /\ k \in Nat /\ n \in Nat /\ k <= n
    BY LogTypes
<1>2. Rounds(snap, k, n, u)
    BY <1>1, RoundsExist
<1>3. FastReplay(snap, k, n) = u[n]
    BY FastReplayIsRounds
<1> HIDE DEF u
<1>4. Right(k)
    <2>1. u[k] = snap
        BY <1>1, <1>2 DEF Rounds
    <2>2. TracesOf(k, k) = {}
        BY <1>1 DEF TracesOf
    <2>3. Behind(k, k, snap)
        BY <1>1 DEF Behind, Counters
    <2> QED
        BY <2>1, <2>2, <2>3
<1>5. ASSUME NEW p \in (k+1)..n, Right(p-1)
      PROVE  Right(p)
    <2>1. /\ p \in 1..Len(L) /\ k < p /\ p-1 \in 0..Len(L) /\ p \in 0..Len(L)
          /\ p \in k..n /\ p # k
        BY <1>1
    <2>2. u[p] = Round(u[p-1], p)
        BY <1>2, <2>1 DEF Rounds
    <2>3. TracesOf(k, p) = TracesOf(k, p-1) \cup {L[p].trace}
        <3>1. \A i \in (k+1)..p : i = p \/ i \in (k+1)..(p-1)
            BY <1>1, <2>1
        <3>2. p \in (k+1)..p /\ \A i \in (k+1)..(p-1) : i \in (k+1)..p
            BY <1>1, <2>1
        <3>3. Recovered(p).trace = L[p].trace
            BY <2>1, RecoveredFields
        <3> QED
            BY <3>1, <3>2, <3>3 DEF TracesOf
    <2>4. CASE TracesOf(k, p-1) \cap Gap(k) # {}
        BY <1>5, <2>2, <2>3, <2>4 DEF Round
    <2>5. CASE TracesOf(k, p-1) \cap Gap(k) = {} /\ L[p].trace \in Gap(k)
        <3>1. Behind(k, p-1, u[p-1]) /\ L[p].trace \notin TracesOf(k, p-1)
            BY <1>5, <2>5
        <3>2. ~ReplayOk(u[p-1], Recovered(p))
            BY <1>1, <2>1, <2>5, <3>1, InsideGapRefused
        <3> QED
            BY <2>2, <2>3, <2>5, <3>2 DEF Round
    <2>6. CASE TracesOf(k, p-1) \cap Gap(k) = {} /\ L[p].trace \notin Gap(k)
        <3>1. Behind(k, p-1, u[p-1])
            BY <1>5, <2>6
        <3>2. ReplayOk(u[p-1], Recovered(p))
            BY <1>1, <2>1, <2>6, <3>1, OutsideGapAccepted
        <3>3. u[p-1] # NoEntry
            BY <3>1, RecoveryAssumption DEF Behind
        <3>4. Behind(k, p, u[p])
            BY <1>1, <2>1, <2>2, <3>1, <3>2, <3>3, RoundKnows DEF Round
        <3>5. TracesOf(k, p) \cap Gap(k) = {}
            BY <2>3, <2>6
        <3> QED
            BY <3>4, <3>5
    <2> QED
        BY <2>4, <2>5, <2>6
<1>6. ASSUME NEW m \in Bad, \A j \in Bad : m <= j
      PROVE  FALSE
    <2>1. m \in k..n /\ ~Right(m) /\ m # k
        <3> HIDE DEF Right
        <3> QED
            BY <1>4, <1>6
    <2>2. m \in (k+1)..n /\ m-1 \in k..n /\ ~(m <= m-1)
        BY <1>1, <2>1
    <2>3. m-1 \notin Bad
        <3> HIDE DEF Bad
        <3> QED
            BY <1>6, <2>2
    <2>4. Right(m-1)
        <3> HIDE DEF Right
        <3> QED
            BY <2>2, <2>3
    <2> HIDE DEF Right
    <2> QED
        BY <1>5, <2>1, <2>2, <2>4
<1>7. Bad = {}
    <2>1. Bad \in SUBSET Nat
        BY <1>1
    <2> HIDE DEF Bad
    <2> QED
        BY <1>6, <2>1, Least
<1>8. n \in k..n
    BY <1>1
<1>9. Right(n)
    <2> HIDE DEF Right
    <2> QED
        BY <1>7, <1>8
<1> QED
    BY <1>3, <1>9

\* The final number EquivalenceProof computes for a trace is its last event's.
LEMMA FinalSeqIsLast ==
    ASSUME Fits, StoreInv(store), NEW k \in Nat, NEW n \in 0..Len(store.log), NEW t,
           NEW i \in (k+1)..n, LastTo(store.log, n, t, i)
    PROVE  FinalSeq(t, k, n) = store.log[i].seq
<1> DEFINE Final(j) == Recovered(j).trace = t /\ \A h \in (j+1)..n : Recovered(h).trace # t
           c == CHOOSE j \in (k+1)..n : Final(j)
<1>0. n \in Nat /\ Len(store.log) \in Nat
    BY LogTypes
<1>1. \A j \in (k+1)..n : j \in 1..Len(store.log)
    BY <1>0
<1>2. \A j \in (k+1)..n :
         Recovered(j).trace = store.log[j].trace /\ Recovered(j).seq = store.log[j].seq
    BY <1>1, RecoveredFields
<1>3. Final(i)
    <2>1. \A h \in (i+1)..n : h \in (k+1)..n
        BY <1>0
    <2> QED
        BY <1>2, <2>1 DEF LastTo
<1>4. ASSUME NEW j \in (k+1)..n, Final(j)
      PROVE  j = i
    <2>1. ~(i < j) /\ ~(j < i)
        BY <1>0, <1>3, <1>4
    <2> QED
        BY <1>0, <2>1
<1>5. c \in (k+1)..n /\ Final(c)
    <2> HIDE DEF Final
    <2> QED
        BY <1>3
<1>6. c = i
    <2> HIDE DEF Final, c
    <2> QED
        BY <1>4, <1>5
<1>7. FinalSeq(t, k, n) = Recovered(c).seq
    BY DEF FinalSeq
<1> QED
    BY <1>2, <1>6, <1>7

\* EquivalenceProof returns no error on any run of the log's events: it panics
\* on a run that repeats or skips events of a trace it has, and accepts every
\* other, even one behind a gap (invariant ProofExact).
THEOREM ProofAlwaysExact == ASSUME Fits PROVE RecoverySpec => []ProofExact
<1>1. StoreInv(store) /\ Counters /\ Knows => ProofExact
    <2> SUFFICES ASSUME StoreInv(store), Counters, Knows,
                        NEW n \in 0..Len(store.log), NEW k \in 0..n
                 PROVE  EquivalenceProof(k, n) =
                            IF TracesOf(k, n) \cap Gap(k) = {} THEN "nil" ELSE "panic"
        BY DEF ProofExact, Gap
    <2> DEFINE r == FastReplay(snap, k, n)
    <2>0. k \in Nat
        BY LogTypes
    <2>1. CASE TracesOf(k, n) \cap Gap(k) # {}
        BY <2>1, RunOutcome DEF EquivalenceProof
    <2>2. CASE TracesOf(k, n) \cap Gap(k) = {}
        <3>1. Behind(k, n, r)
            BY <2>2, RunOutcome
        <3>2. r # NoEntry
            BY <3>1, RecoveryAssumption DEF Behind
        <3>3. ASSUME NEW t \in TracesOf(k, n)
              PROVE  ~SeqMismatch(t, r, FinalSeq(t, k, n))
            <4>1. PICK j \in (k+1)..n : store.log[j].trace = t
                BY <2>0, InTracesOf
            <4>2. t \in Trace
                <5>1. j \in 1..Len(store.log)
                    BY <2>0, LogTypes
                <5> QED
                    BY <4>1, <5>1, LogTypes
            <4> HIDE DEF r
            <4>3. PICK i \in (k+1)..n :
                        LastTo(store.log, n, t, i) /\ r.lastSeq[t] = store.log[i].seq
                BY <3>1, <4>1, <4>2 DEF Behind
            <4>4. r.lastSeq[t] = FinalSeq(t, k, n)
                BY <2>0, <4>3, FinalSeqIsLast
            <4> QED
                BY <4>4 DEF SeqMismatch
        <3> QED
            BY <2>2, <3>2, <3>3 DEF EquivalenceProof
    <2> QED
        BY <2>1, <2>2
<1> QED
    BY <1>1, KnowsAlways, PTL
=============================================================================
