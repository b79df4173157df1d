--------------------------- MODULE ClockGEBProofs ---------------------------
(***************************************************************************)
(* The clock and the barrier for any goroutines, epochs and bounds: types, *)
(* and, as long as 64 bits are enough for what the callers ask (NoWrap),   *)
(* the order of the ticks and what a snapshot is good for.                 *)
(*                                                                         *)
(* Calls of Tick that have begun may take the tick past MaxTick; Room      *)
(* counts them in.  A goroutine between the two reads of Snapshot knows a  *)
(* tick that all ticks given out before do not exceed (Reading).           *)
(***************************************************************************)
EXTENDS ClockGEB, FiniteSets, FiniteSetTheorems, TLAPS

Highest == IF MaxTick > MaxTarget + 1 THEN MaxTick ELSE MaxTarget + 1

\* The clock does not come to its modulus.
NoWrap == IsFiniteSet(Thread) /\ Highest + Cardinality(Thread) < Modulus

\* The goroutines that have still to advance the clock.
Busy == {p \in Thread : pc[p] \in {"waiting", "locked"}}

Room == tick + Cardinality(Busy) <= Highest + Cardinality(Thread)

Ordered ==
    /\ TicksIncrease
    /\ \A i \in 1..Len(issued) : issued[i] <= tick

Reading ==
    \A p \in Thread : pc[p] = "reading" =>
        /\ taken[p].tick <= tick
        /\ taken[p].given <= Len(issued)
        /\ \A i \in 1..taken[p].given : issued[i] <= taken[p].tick
        /\ <<taken[p].tick, taken[p].epoch>> \in past

Inv == TypeOK /\ Room /\ Ordered /\ Reading /\ <<tick, epochMs>> \in past

-----------------------------------------------------------------------------
\* uint64 arithmetic: a sum is cut to a tick, and a tick is not cut.
LEMMA Cut ==
    ASSUME NEW n \in Nat
    PROVE  /\ n % Modulus \in Tick
           /\ n < Modulus => n % Modulus = n
BY ClockAssumption DEF Tick

LEMMA InitTypes == Init => TypeOK
<1> SUFFICES ASSUME Init PROVE TypeOK
    OBVIOUS
<1>1. 0 \in Tick /\ epochMs \in Epoch
    BY ClockAssumption DEF Init, Tick
<1>2. \A p \in Thread : pc[p] # "locked" /\ gebMu # p
    BY ClockAssumption DEF Init
<1>3. taken \in [Thread -> [tick : Tick, epoch : Epoch, given : Nat]]
    BY <1>1, ClockAssumption DEF Init, NotTaken
<1> QED
    BY <1>1, <1>2, <1>3 DEF Init, TypeOK

\* Every step keeps the types; for Tick's, that the barrier has one holder.
LEMMA StepTypes ==
    ASSUME TypeOK, [Next]_vars
    PROVE  TypeOK'
<1> USE DEF TypeOK
<1>0. tick \in Nat /\ MaxTarget \in Nat /\ (tick + 1) % Modulus \in Tick
    <2>1. tick \in Nat /\ tick + 1 \in Nat /\ MaxTarget \in Nat
        BY ClockAssumption DEF Tick
    <2> QED
        BY <2>1, Cut
<1>1. ASSUME NEW p \in Thread, Advance(p)
      PROVE  TypeOK'
    BY <1>0, <1>1 DEF Advance, Advanced, Recorded
<1>2. ASSUME NEW p \in Thread, TickCall(p)
      PROVE  TypeOK'
    BY <1>2 DEF TickCall, Goto
<1>3. ASSUME NEW p \in Thread, TickLock(p)
      PROVE  TypeOK'
    BY <1>3, ClockAssumption DEF TickLock, Goto
<1>4. ASSUME NEW p \in Thread, TickAdvance(p)
      PROVE  TypeOK'
    <2>1. \A q \in Thread : pc'[q] # "locked"
        BY <1>4 DEF TickAdvance, Goto
    <2>2. \A q \in Thread : gebMu' # q
        BY <1>4, ClockAssumption DEF TickAdvance
    <2> QED
        BY <1>0, <1>4, <2>1, <2>2 DEF TickAdvance, Advanced, Recorded, Goto
<1>5. ASSUME NEW p \in Thread, NEW target \in 0..MaxTarget, AdvanceTo(p, target)
      PROVE  TypeOK'
    <2>1. AdvancedTo(target) \in Tick
        BY <1>0, Cut DEF AdvancedTo
    <2> QED
        BY <1>5, <2>1 DEF AdvanceTo, Recorded
<1>6. ASSUME NEW p \in Thread, NEW e \in Epoch, SetEpochMs(p, e)
      PROVE  TypeOK'
    BY <1>6 DEF SetEpochMs, Recorded
<1>7. ASSUME NEW p \in Thread, SnapshotTick(p)
      PROVE  TypeOK'
    <2>1. [tick |-> Now, epoch |-> epochMs, given |-> Len(issued)]
            \in [tick : Tick, epoch : Epoch, given : Nat]
        BY DEF Now
    <2> QED
        BY <1>7, <2>1 DEF SnapshotTick, Goto
<1>8. ASSUME NEW p \in Thread, SnapshotEpoch(p)
      PROVE  TypeOK'
    <2>1. NotTaken \in [tick : Tick, epoch : Epoch, given : Nat]
        BY ClockAssumption DEF NotTaken, Tick
    <2> QED
        BY <1>8, <2>1 DEF SnapshotEpoch, Goto
<1>9. CASE UNCHANGED vars
    BY <1>9 DEF vars
<1> QED
    BY <1>1, <1>2, <1>3, <1>4, <1>5, <1>6, <1>7, <1>8, <1>9 DEF Next

\* The type invariant, whatever the bounds and the modulus.
THEOREM ClockTypes == Spec => []TypeOK
<1>1. TypeOK /\ [Next]_vars => TypeOK'
    BY StepTypes
<1> QED
    BY InitTypes, <1>1, PTL DEF Spec

-----------------------------------------------------------------------------
\* Some goroutines are no more than all.
LEMMA Counted ==
    ASSUME NoWrap, NEW S \in SUBSET Thread
    PROVE  /\ IsFiniteSet(S)
           /\ Cardinality(S) \in Nat /\ Cardinality(Thread) \in Nat
           /\ Cardinality(S) <= Cardinality(Thread)
BY FS_Subset, FS_CardinalityType DEF NoWrap

LEMMA Bounds ==
    /\ Highest \in Nat /\ MaxTick \in Nat /\ MaxTarget \in Nat
    /\ MaxTick <= Highest /\ MaxTarget + 1 <= Highest
BY ClockAssumption DEF Highest

\* An issued tick is a later one than all before; nothing else changes.
LEMMA AdvancedKeeps ==
    ASSUME NoWrap, Inv, Advanced, tick + 1 < Modulus,
           taken' = taken, \A p \in Thread : pc'[p] = "reading" => pc[p] = "reading"
    PROVE  tick' = tick + 1 /\ Ordered' /\ Reading' /\ <<tick, epochMs>>' \in past'
<1>0. tick \in Nat /\ tick + 1 \in Nat /\ issued \in Seq(Tick) /\ Len(issued) \in Nat
    BY ClockAssumption DEF Inv, TypeOK, Tick
<1>1. tick' = tick + 1
    BY <1>0, Cut DEF Advanced
<1>2. /\ Len(issued') = Len(issued) + 1
      /\ issued'[Len(issued) + 1] = tick + 1
      /\ \A i \in 1..Len(issued) : issued'[i] = issued[i] /\ issued[i] \in Nat
    BY <1>0, <1>1, ClockAssumption DEF Advanced, Tick
<1>3. Ordered'
    <2>1. \A i \in 1..Len(issued') : issued'[i] <= tick'
        BY <1>0, <1>1, <1>2 DEF Inv, Ordered
    <2>2. ASSUME NEW i \in 1..Len(issued'), NEW j \in 1..Len(issued'), i < j
          PROVE  issued'[i] < issued'[j]
        <3>1. CASE j = Len(issued) + 1
            <4>1. i \in 1..Len(issued) /\ issued'[j] = tick + 1
                BY <1>0, <1>2, <2>2, <3>1
            <4>2. issued'[i] = issued[i] /\ issued[i] \in Nat /\ issued[i] <= tick
                BY <1>2, <4>1 DEF Inv, Ordered
            <4> QED
                BY <1>0, <4>1, <4>2
        <3>2. CASE j \in 1..Len(issued)
            BY <1>0, <1>2, <2>2, <3>2 DEF Inv, Ordered, TicksIncrease
        <3> QED
            BY <1>0, <1>2, <2>2, <3>1, <3>2
    <2> QED
        BY <2>1, <2>2 DEF Ordered, TicksIncrease
<1>4. Reading'
    <2> SUFFICES ASSUME NEW p \in Thread, pc'[p] = "reading"
                 PROVE  /\ taken[p].tick <= tick'
                        /\ taken[p].given <= Len(issued')
                        /\ \A i \in 1..taken[p].given : issued'[i] <= taken[p].tick
                        /\ <<taken[p].tick, taken[p].epoch>> \in past'
        BY DEF Reading
    <2>1. taken[p] \in [tick : Tick, epoch : Epoch, given : Nat]
        BY DEF Inv, TypeOK
    <2>2. taken[p].tick \in Nat /\ taken[p].given \in Nat
        BY <2>1, ClockAssumption DEF Tick
    <2>3. /\ taken[p].tick <= tick
          /\ taken[p].given <= Len(issued)
          /\ \A i \in 1..taken[p].given : issued[i] <= taken[p].tick
          /\ <<taken[p].tick, taken[p].epoch>> \in past
        BY DEF Inv, Reading
    <2>4. \A i \in 1..taken[p].given : i \in 1..Len(issued)
        BY <1>0, <2>2, <2>3
    <2> QED
        BY <1>0, <1>1, <1>2, <2>2, <2>3, <2>4 DEF Advanced, Recorded
<1>5. <<tick, epochMs>>' \in past'
    BY DEF Advanced, Recorded
<1> QED
    BY <1>1, <1>3, <1>4, <1>5

\* A step that gives out no tick and does not lower the clock keeps what was
\* ordered and read.
LEMMA NoneIssued ==
    ASSUME Inv, issued' = issued, tick' \in Nat, tick <= tick', taken' = taken,
           \A p \in Thread : pc'[p] = "reading" => pc[p] = "reading",
           past' = past \cup {<<tick', epochMs'>>}
    PROVE  Ordered' /\ Reading' /\ <<tick, epochMs>>' \in past'
<1>0. tick \in Nat /\ \A i \in 1..Len(issued) : issued[i] \in Nat
    BY ClockAssumption DEF Inv, TypeOK, Tick
<1>1. Ordered'
    BY <1>0 DEF Inv, Ordered, TicksIncrease
<1>2. \A p \in Thread : taken[p].tick \in Nat
    <2> SUFFICES ASSUME NEW p \in Thread PROVE taken[p].tick \in Nat
        OBVIOUS
    <2>1. taken[p] \in [tick : Tick, epoch : Epoch, given : Nat]
        BY DEF Inv, TypeOK
    <2> QED
        BY <2>1, ClockAssumption DEF Tick
<1>3. Reading'
    BY <1>0, <1>2 DEF Inv, Reading
<1> QED
    BY <1>1, <1>3

LEMMA InitInv == NoWrap /\ Init => Inv
<1> SUFFICES ASSUME NoWrap, Init PROVE Inv
    OBVIOUS
<1>1. TypeOK
    BY InitTypes
<1>2. Busy = {}
    BY DEF Init, Busy
<1>3. Room
    BY <1>2, Counted, Bounds, FS_EmptySet DEF Init, Room
<1>4. Len(issued) = 0
    BY DEF Init
<1>5. Ordered
    BY <1>4 DEF Ordered, TicksIncrease
<1>6. Reading /\ <<tick, epochMs>> \in past
    BY DEF Init, Reading
<1> QED
    BY <1>1, <1>3, <1>5, <1>6 DEF Inv

\* Every step keeps the invariant while the clock has room.
LEMMA StepInv ==
    ASSUME NoWrap, Inv, [Next]_vars
    PROVE  Inv'
<1> DEFINE All == Cardinality(Thread)
<1>0. /\ tick \in Nat /\ tick + 1 \in Nat /\ Modulus \in Nat
      /\ pc \in [Thread -> {"idle", "waiting", "locked", "reading"}]
      /\ IsFiniteSet(Busy) /\ Cardinality(Busy) \in Nat /\ All \in Nat
      /\ Cardinality(Busy) <= All /\ Cardinality(Busy)' \in Nat /\ Cardinality(Busy)' <= All
    <2>1. Busy \in SUBSET Thread /\ Busy' \in SUBSET Thread
        BY DEF Busy
    <2>2. Cardinality(Busy') \in Nat /\ Cardinality(Busy') <= All
        BY <2>1, Counted
    <2> QED
        BY <2>1, <2>2, Counted, ClockAssumption DEF Inv, TypeOK, Tick
<1>00. Highest + All < Modulus /\ tick + Cardinality(Busy) <= Highest + All
    BY DEF NoWrap, Inv, Room
<1>01. TypeOK'
    BY StepTypes DEF Inv
<1>1. ASSUME NEW p \in Thread, Advance(p)
      PROVE  Inv'
    <2>1. tick + 1 < Modulus /\ tick + 1 <= Highest
        BY <1>0, <1>00, <1>1, Bounds DEF Advance
    <2>2. tick' = tick + 1 /\ Ordered' /\ Reading' /\ <<tick, epochMs>>' \in past'
        BY <1>1, <2>1, AdvancedKeeps DEF Advance
    <2>3. Room'
        BY <1>0, <2>1, <2>2, Bounds DEF Room, Highest
    <2> QED
        BY <1>01, <2>2, <2>3 DEF Inv
<1>2. ASSUME NEW p \in Thread, TickCall(p)
      PROVE  Inv'
    <2>1. Room'
        BY <1>0, <1>2, Bounds DEF Room, TickCall, Highest
    <2>2. Ordered' /\ Reading' /\ <<tick, epochMs>>' \in past'
        <3>1. \A q \in Thread : pc'[q] = "reading" => pc[q] = "reading"
            BY <1>0, <1>2 DEF TickCall, Goto
        <3> QED
            BY <1>0, <1>2, <3>1, NoneIssued DEF TickCall, Inv
    <2> QED
        BY <1>01, <2>1, <2>2 DEF Inv
<1>3. ASSUME NEW p \in Thread, TickLock(p)
      PROVE  Inv'
    <2>1. Busy' = Busy
        BY <1>0, <1>3 DEF TickLock, Goto, Busy
    <2>2. Room'
        BY <1>3, <2>1 DEF Room, TickLock, Highest, Inv
    <2>3. Ordered' /\ Reading' /\ <<tick, epochMs>>' \in past'
        <3>1. \A q \in Thread : pc'[q] = "reading" => pc[q] = "reading"
            BY <1>0, <1>3 DEF TickLock, Goto
        <3> QED
            BY <1>0, <1>3, <3>1, NoneIssued DEF TickLock, Inv
    <2> QED
        BY <1>01, <2>2, <2>3 DEF Inv
<1>4. ASSUME NEW p \in Thread, TickAdvance(p)
      PROVE  Inv'
    <2>1. p \in Busy /\ Busy' = Busy \ {p}
        BY <1>0, <1>4 DEF TickAdvance, Goto, Busy
    <2>2. Cardinality(Busy)' = Cardinality(Busy) - 1
        BY <1>0, <2>1, FS_RemoveElement
    <2>3. tick + 1 < Modulus
        BY <1>0, <1>00, <2>2, Bounds
    <2>4. tick' = tick + 1 /\ Ordered' /\ Reading' /\ <<tick, epochMs>>' \in past'
        <3>1. \A q \in Thread : pc'[q] = "reading" => pc[q] = "reading"
            BY <1>0, <1>4 DEF TickAdvance, Goto
        <3> QED
            BY <1>4, <2>3, <3>1, AdvancedKeeps DEF TickAdvance
    <2>5. Room'
        BY <1>0, <1>00, <2>2, <2>4 DEF Room, Highest
    <2> QED
        BY <1>01, <2>4, <2>5 DEF Inv
<1>5. ASSUME NEW p \in Thread, NEW target \in 0..MaxTarget, AdvanceTo(p, target)
      PROVE  Inv'
    <2>1. target + 1 \in Nat /\ target + 1 < Modulus /\ tick + 1 < Modulus
          /\ target + 1 <= Highest /\ tick + 1 <= Highest
        BY <1>0, <1>00, <1>5, Bounds DEF AdvanceTo
    <2>2. AdvancedTo(target) = IF target >= tick THEN target + 1 ELSE tick + 1
        BY <1>0, <2>1, Cut DEF AdvancedTo
    <2>3. tick' \in Nat /\ tick <= tick' /\ tick' <= Highest
        BY <1>0, <1>5, <2>1, <2>2, Bounds DEF AdvanceTo
    <2>4. Room'
        BY <1>0, <2>3, Bounds DEF Room, Highest
    <2>5. Ordered' /\ Reading' /\ <<tick, epochMs>>' \in past'
        BY <1>5, <2>3, NoneIssued DEF AdvanceTo, Recorded
    <2> QED
        BY <1>01, <2>4, <2>5 DEF Inv
<1>6. ASSUME NEW p \in Thread, NEW e \in Epoch, SetEpochMs(p, e)
      PROVE  Inv'
    <2>1. Busy' = Busy
        BY <1>6 DEF SetEpochMs, Busy
    <2>2. Room'
        BY <1>6, <2>1 DEF Room, SetEpochMs, Highest, Inv
    <2>3. Ordered' /\ Reading' /\ <<tick, epochMs>>' \in past'
        BY <1>0, <1>6, NoneIssued DEF SetEpochMs, Recorded
    <2> QED
        BY <1>01, <2>2, <2>3 DEF Inv
<1>7. ASSUME NEW p \in Thread, SnapshotTick(p)
      PROVE  Inv'
    <2>1. Busy' = Busy
        BY <1>0, <1>7 DEF SnapshotTick, Goto, Busy
    <2>2. Room'
        BY <1>7, <2>1 DEF Room, SnapshotTick, Highest, Inv
    <2>3. Ordered' /\ <<tick, epochMs>>' \in past'
        BY <1>7 DEF SnapshotTick, Inv, Ordered, TicksIncrease
    <2>4. Reading'
        <3> SUFFICES ASSUME NEW q \in Thread, pc'[q] = "reading"
                     PROVE  /\ taken'[q].tick <= tick'
                            /\ taken'[q].given <= Len(issued')
                            /\ \A i \in 1..taken'[q].given : issued'[i] <= taken'[q].tick
                            /\ <<taken'[q].tick, taken'[q].epoch>> \in past'
            BY DEF Reading
        <3>1. CASE q = p
            <4>1. taken'[p] = [tick |-> tick, epoch |-> epochMs, given |-> Len(issued)]
                BY <1>7 DEF SnapshotTick, Now, Inv, TypeOK
            <4>2. Len(issued) \in Nat
                BY DEF Inv, TypeOK
            <4> QED
                BY <1>0, <1>7, <3>1, <4>1, <4>2 DEF SnapshotTick, Inv, Ordered
        <3>2. CASE q # p
            <4>1. taken'[q] = taken[q] /\ pc[q] = "reading"
                BY <1>0, <1>7, <3>2 DEF SnapshotTick, Goto, Inv, TypeOK
            <4> QED
                BY <1>7, <4>1 DEF SnapshotTick, Inv, Reading
        <3> QED
            BY <3>1, <3>2
    <2> QED
        BY <1>01, <2>2, <2>3, <2>4 DEF Inv
<1>8. ASSUME NEW p \in Thread, SnapshotEpoch(p)
      PROVE  Inv'
    <2>1. Busy' = Busy
        BY <1>0, <1>8 DEF SnapshotEpoch, Goto, Busy
    <2>2. Room'
        BY <1>8, <2>1 DEF Room, SnapshotEpoch, Highest, Inv
    <2>3. Ordered' /\ <<tick, epochMs>>' \in past'
        BY <1>8 DEF SnapshotEpoch, Inv, Ordered, TicksIncrease
    <2>4. \A q \in Thread : pc'[q] = "reading" => pc[q] = "reading" /\ taken'[q] = taken[q]
        BY <1>0, <1>8 DEF SnapshotEpoch, Goto, Inv, TypeOK
    <2>5. Reading'
        BY <1>8, <2>4 DEF SnapshotEpoch, Inv, Reading
    <2> QED
        BY <1>01, <2>2, <2>3, <2>5 DEF Inv
<1>9. CASE UNCHANGED vars
    <2>1. Busy' = Busy
        BY <1>9 DEF vars, Busy
    <2>2. Room'
        BY <1>9, <2>1 DEF Room, vars, Highest, Inv
    <2> QED
        BY <1>9, <1>01, <2>2 DEF vars, Inv, Ordered, TicksIncrease, Reading
<1> QED
    BY <1>1, <1>2, <1>3, <1>4, <1>5, <1>6, <1>7, <1>8, <1>9 DEF Next

LEMMA InvAlways == NoWrap => (Spec => []Inv)
<1> SUFFICES ASSUME NoWrap PROVE Spec => []Inv
    OBVIOUS
<1>1. Init => Inv
    BY InitInv
<1>2. Inv /\ [Next]_vars => Inv'
    BY StepInv
<1> QED
    BY <1>1, <1>2, PTL DEF Spec

\* No tick is given out twice and a later call has a later tick, through the
\* barrier and past it, for any number of goroutines.
THEOREM TicksInOrder == NoWrap => (Spec => []TicksIncrease)
<1> SUFFICES ASSUME NoWrap PROVE Spec => []TicksIncrease
    OBVIOUS
<1>1. Inv => TicksIncrease
    BY DEF Inv, Ordered
<1> QED
    BY <1>1, InvAlways, PTL

\* A snapshot, read in two calls, restores to a tick not given out before it,
\* and is a pair the clock has held unless both halves moved in between.
THEOREM SnapshotsRestore == NoWrap => (Spec => SnapshotRestores)
<1> SUFFICES ASSUME NoWrap PROVE Spec => SnapshotRestores
    OBVIOUS
<1>1. Inv /\ [Next]_vars =>
        [\A p \in Thread : pc[p] = "reading" /\ pc'[p] = "idle" =>
            /\ \A i \in 1..taken[p].given : issued[i] < taken[p].tick + 1
            /\ \/ <<taken[p].tick, epochMs>> \in past
               \/ tick # taken[p].tick /\ epochMs # taken[p].epoch]_vars
    <2> SUFFICES ASSUME Inv, NEW p \in Thread, pc[p] = "reading"
                 PROVE  /\ \A i \in 1..taken[p].given : issued[i] < taken[p].tick + 1
                        /\ \/ <<taken[p].tick, epochMs>> \in past
                           \/ tick # taken[p].tick /\ epochMs # taken[p].epoch
        OBVIOUS
    <2>1. taken[p] \in [tick : Tick, epoch : Epoch, given : Nat]
        BY DEF Inv, TypeOK
    <2>2. taken[p].tick \in Nat /\ taken[p].given \in Nat
        BY <2>1, ClockAssumption DEF Tick
    <2>3. \A i \in 1..Len(issued) : issued[i] \in Nat
        BY ClockAssumption DEF Inv, TypeOK, Tick
    <2>4. /\ taken[p].given <= Len(issued) /\ Len(issued) \in Nat
          /\ \A i \in 1..taken[p].given : issued[i] <= taken[p].tick
          /\ <<taken[p].tick, taken[p].epoch>> \in past /\ <<tick, epochMs>> \in past
        BY DEF Inv, Reading, TypeOK
    <2>5. \A i \in 1..taken[p].given : issued[i] < taken[p].tick + 1
        <3>1. \A i \in 1..taken[p].given : i \in 1..Len(issued)
            BY <2>2, <2>4
        <3> QED
            BY <2>2, <2>3, <2>4, <3>1
    <2> QED
        BY <2>4, <2>5
<1> QED
    BY <1>1, InvAlways, PTL DEF Spec, SnapshotRestores
=============================================================================
