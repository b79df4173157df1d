------------------------------ MODULE ClockGEB ------------------------------
(***************************************************************************)
(* The logical clock (src/pkg/clock/clock.go), the global execution        *)
(* barrier in front of it (src/pkg/geb/geb.go) and the goroutines that     *)
(* call them.  Each method of the clock runs under the clock's mutex and   *)
(* is one step.  GEB.Tick holds the barrier's own mutex around Advance,    *)
(* and GEB.Snapshot reads the tick and the epoch in two calls.             *)
(*                                                                         *)
(* The tick is a uint64: it is kept modulo Modulus.  issued, past and two  *)
(* fields of taken are history: they change nothing that the code does.    *)
(***************************************************************************)
EXTENDS Integers, Sequences

CONSTANTS
    Thread,     \* the goroutines
    Free,       \* the barrier's mutex when nobody holds it
    Epoch,      \* values of epochMs
    Modulus,    \* 2^64
    MaxTarget,  \* bound: the largest target given to AdvanceTo
    MaxTick     \* bound: no call that moves the tick starts at this tick

ASSUME ClockAssumption ==
    /\ Free \notin Thread
    /\ Modulus \in Nat \ {0}
    /\ MaxTarget \in 0..(Modulus - 1)
    /\ MaxTick \in 0..(Modulus - 1)
    /\ 0 \in Epoch

VARIABLES
    tick,       \* LogicalClock.tick
    epochMs,    \* LogicalClock.epochMs
    gebMu,      \* the holder of GEB.mu, or Free
    pc,         \* where each goroutine is
    taken,      \* taken[p]: the tick p's Snapshot has read; when it did, the epoch
                \* and how many ticks were given out (history)
    issued,     \* the ticks Advance returned, in the order it returned them
    past        \* the pairs (tick, epochMs) the clock has held

vars == <<tick, epochMs, gebMu, pc, taken, issued, past>>

Tick == 0..(Modulus - 1)

NotTaken == [tick |-> 0, epoch |-> 0, given |-> 0]

Init ==
    /\ tick = 0
    /\ epochMs \in Epoch                \* New() or NewWithEpoch(e)
    /\ gebMu = Free
    /\ pc = [p \in Thread |-> "idle"]
    /\ taken = [p \in Thread |-> NotTaken]
    /\ issued = <<>>
    /\ past = {<<0, epochMs>>}

\* History: the pair the clock holds after a step that changes it.
Recorded(t, e) == past' = past \cup {<<t, e>>}

Goto(p, from, to) == pc[p] = from /\ pc' = [pc EXCEPT ![p] = to]

\* tick++ under the clock's mutex; the new value is returned.
Advanced ==
    /\ tick' = (tick + 1) % Modulus
    /\ issued' = Append(issued, tick')
    /\ Recorded(tick', epochMs)
    /\ UNCHANGED epochMs

\* Advance called on the clock itself, past the barrier.
Advance(p) ==
    /\ pc[p] = "idle" /\ tick < MaxTick
    /\ Advanced
    /\ UNCHANGED <<gebMu, pc, taken>>

\* GEB.Tick, and GEBNode.Commit which calls it, waits for the barrier's mutex,
TickCall(p) ==
    /\ Goto(p, "idle", "waiting")
    /\ tick < MaxTick
    /\ UNCHANGED <<tick, epochMs, gebMu, taken, issued, past>>

\* locks it,
TickLock(p) ==
    /\ Goto(p, "waiting", "locked")
    /\ gebMu = Free
    /\ gebMu' = p
    /\ UNCHANGED <<tick, epochMs, taken, issued, past>>

\* Slip: Tick returns without unlocking.
TickAdvanceKeeping(p) ==
    /\ Goto(p, "locked", "idle")
    /\ Advanced
    /\ UNCHANGED <<gebMu, taken>>

\* and advances the clock; the deferred Unlock runs on return.
TickAdvance(p) ==
    /\ Goto(p, "locked", "idle")
    /\ Advanced
    /\ gebMu' = Free
    /\ UNCHANGED taken

\* Slip: target+1 is stored whatever the tick is.
AdvancedToAlways(target) == (target + 1) % Modulus

\* The tick AdvanceTo leaves behind.
AdvancedTo(target) ==
    IF target >= tick THEN (target + 1) % Modulus ELSE (tick + 1) % Modulus

\* LogicalClock.AdvanceTo, on the clock itself.
AdvanceTo(p, target) ==
    /\ pc[p] = "idle" /\ tick < MaxTick
    /\ tick' = AdvancedTo(target)
    /\ Recorded(tick', epochMs)
    /\ UNCHANGED <<epochMs, gebMu, pc, taken, issued>>

SetEpochMs(p, e) ==
    /\ pc[p] = "idle"
    /\ epochMs' = e
    /\ Recorded(tick, e)
    /\ UNCHANGED <<tick, gebMu, pc, taken, issued>>

\* LogicalClock.Now and GEB.Now, which nobody's state depends on but Snapshot's.
Now == tick

\* GEB.Snapshot calls Now ...
SnapshotTick(p) ==
    /\ Goto(p, "idle", "reading")
    /\ taken' = [taken EXCEPT ![p] = [tick |-> Now, epoch |-> epochMs, given |-> Len(issued)]]
    /\ UNCHANGED <<tick, epochMs, gebMu, issued, past>>

\* ... then EpochMs, and returns the pair (taken[p].tick, epochMs).
SnapshotEpoch(p) ==
    /\ Goto(p, "reading", "idle")
    /\ taken' = [taken EXCEPT ![p] = NotTaken]
    /\ UNCHANGED <<tick, epochMs, gebMu, issued, past>>

Next ==
    \E p \in Thread :
        \/ Advance(p)
        \/ TickCall(p)
        \/ TickLock(p)
        \/ TickAdvance(p)
        \/ \E target \in 0..MaxTarget : AdvanceTo(p, target)
        \/ \E e \in Epoch : SetEpochMs(p, e)
        \/ SnapshotTick(p)
        \/ SnapshotEpoch(p)

\* The scheduler runs a goroutine that can run, and sync.Mutex hands itself to
\* a waiter that has starved for a millisecond; nobody has to call.
Fairness ==
    \A p \in Thread :
        /\ SF_vars(TickLock(p))
        /\ WF_vars(TickAdvance(p))
        /\ WF_vars(SnapshotEpoch(p))

Spec == Init /\ [][Next]_vars /\ Fairness

-----------------------------------------------------------------------------
(* Properties *)

\* Type invariant: as well, the barrier is held by the goroutine inside Tick.
TypeOK ==
    /\ tick \in Tick
    /\ epochMs \in Epoch
    /\ gebMu \in Thread \cup {Free}
    /\ pc \in [Thread -> {"idle", "waiting", "locked", "reading"}]
    /\ \A p \in Thread : (pc[p] = "locked") <=> (gebMu = p)
    /\ taken \in [Thread -> [tick : Tick, epoch : Epoch, given : Nat]]
    /\ issued \in Seq(Tick)
    /\ past \subseteq Tick \X Epoch

\* No tick is given out twice, and a later call is given a later tick: through
\* the barrier, past it, and with batch advances (AdvanceTo) in between.
TicksIncrease ==
    \A i, j \in 1..Len(issued) : i < j => issued[i] < issued[j]

\* Every goroutine that calls Tick is given its tick, whatever the others do.
TickServed == \A p \in Thread : (pc[p] = "waiting") ~> (pc[p] = "idle")

\* What Snapshot returns is fit for recovery, although the pair is read in two
\* calls while others move both: a new clock that AdvanceTo brings to its tick
\* is past every tick given out before the call, and only if both tick and epoch
\* moved between the reads is it a pair that the clock never held.  "Snapshot
\* returns the current clock state for checkpointing" (geb.go:43) is no more
\* than that.
SnapshotRestores ==
    [][\A p \in Thread : pc[p] = "reading" /\ pc'[p] = "idle" =>
         /\ \A i \in 1..taken[p].given : issued[i] < taken[p].tick + 1
         /\ \/ <<taken[p].tick, epochMs>> \in past
            \/ tick # taken[p].tick /\ epochMs # taken[p].epoch]_vars
=============================================================================
