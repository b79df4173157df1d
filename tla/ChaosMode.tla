------------------------------ MODULE ChaosMode ------------------------------
(***************************************************************************)
(* chaos.Mode (src/pkg/chaos/mode.go) with the injectors it sets           *)
(* (src/pkg/failure/failure.go) and the trace it records (src/pkg/trace/   *)
(* recorder.go), while goroutines of the tested system ask the injectors.  *)
(*                                                                         *)
(* Start, Stop and Tick run under the mutex of the mode, SetDuration is    *)
(* one store without it: each is one step.  ShouldKill and CorruptFile     *)
(* count their call with an atomic add and compare it with the threshold   *)
(* later, outside any lock.  Both are the same here: calls up to the       *)
(* threshold are spared, the others hit.  What a hit does to a file is the *)
(* subject of WAL.  roll stands for the seed and the four Enable flags,    *)
(* which are set before the first Start, as the tests do: what the code    *)
(* draws at each tick, with the failures that are not enabled left out.    *)
(* Only Tick sets the injectors, nobody goes behind it through the getters.*)
(*                                                                         *)
(* A call belongs to the period in which it was counted: period p of an    *)
(* injector lies between its Resets p and p+1.  resets, the period in call,*)
(* spared and runs are history.                                            *)
(***************************************************************************)
EXTENDS Integers, Sequences, FiniteSets, FiniteSetsExt, SequencesExt

CONSTANTS
    Caller,     \* goroutines that call ShouldKill and CorruptFile
    MaxTick,    \* bound: the longest duration, in ticks
    MaxStarts,  \* bound: calls of Start
    MaxCalls,   \* bound: calls of each counting injector
    MaxResets   \* bound: calls of Reset on each

ASSUME ChaosAssumption ==
    /\ IsFiniteSet(Caller)
    /\ MaxTick \in Nat /\ MaxStarts \in Nat /\ MaxCalls \in Nat /\ MaxResets \in Nat

VARIABLES
    roll,       \* the failure of each tick, or "none": a function of the seed
    active, elapsed, duration,  \* fields of Mode
    trace,      \* its trace, a list of <<tick, failure>>
    partitioned,    \* Partition.isPartitioned
    threshold,  \* ProcessKill.injectAfter and WALCorruptor.corruptAt
    count,      \* their call counters
    call,       \* each caller's call under way: injector, number and period, or <<>>
    runs,       \* ticks of the runs before the last Start
    spared,     \* spared[i][p]: calls of i counted in period p that were not hit
    resets      \* calls of Reset on each injector: its period

mode == <<roll, active, elapsed, duration, trace, runs>>
injectors == <<partitioned, threshold>>
calls == <<count, call, spared, resets>>
chaosVars == <<mode, injectors, calls>>

Counting == {"process_kill", "wal_corruption"}
Failure  == Counting \cup {"partition", "scheduler_shuffle"}

Period == 0..MaxResets

ChaosInit ==
    /\ roll \in [1..MaxTick -> Failure \cup {"none"}]
    /\ active = FALSE /\ elapsed = 0 /\ duration = MaxTick
    /\ trace = <<>> /\ runs = <<>>
    /\ partitioned = FALSE
    /\ threshold = [i \in Counting |-> 0]
    /\ count = [i \in Counting |-> 0]
    /\ call = [c \in Caller |-> <<>>]
    /\ spared = [i \in Counting |-> [p \in Period |-> 0]]
    /\ resets = [i \in Counting |-> 0]

-----------------------------------------------------------------------------
(* Mode *)

\* A new run: the trace and the injectors stay as they are.
Start ==
    /\ Len(runs) < MaxStarts
    /\ active' = TRUE
    /\ elapsed' = 0
    /\ runs' = Append(runs, elapsed)
    /\ UNCHANGED <<roll, duration, trace, injectors, calls>>

Stop ==
    /\ active' = FALSE
    /\ UNCHANGED <<roll, elapsed, duration, trace, runs, injectors, calls>>

SetDuration(d) ==
    /\ duration' = d
    /\ UNCHANGED <<roll, active, elapsed, trace, runs, injectors, calls>>

\* Slips: the draw depends on what was recorded; a kill adds to the threshold.
DrawnByTrace(t) == roll[1 + (Len(trace) % t)]
InjectMore(f, t) ==
    /\ threshold' = [i \in Counting |-> IF i = f THEN threshold[i] + t ELSE threshold[i]]
    /\ partitioned' = (partitioned \/ f = "partition")

\* What is drawn for tick t.
Drawn(t) == roll[t]

\* Failure f at tick t: InjectAfter, CorruptAt, Break, or nothing to set.
Inject(f, t) ==
    /\ threshold' = [i \in Counting |-> IF i = f THEN t ELSE threshold[i]]
    /\ partitioned' = (partitioned \/ f = "partition")

\* A tick of an active run within its duration; it returns at once otherwise.
Tick ==
    /\ active /\ elapsed < duration
    /\ elapsed' = elapsed + 1
    /\ LET f == Drawn(elapsed + 1)
       IN  IF f = "none"
           THEN UNCHANGED <<trace, injectors>>
           ELSE /\ Inject(f, elapsed + 1)
                /\ trace' = Append(trace, <<elapsed + 1, f>>)
    /\ UNCHANGED <<roll, active, duration, runs, calls>>

-----------------------------------------------------------------------------
(* The tested system: it may heal the partition, ask, and reset *)

Heal ==
    /\ partitioned' = FALSE
    /\ UNCHANGED <<mode, threshold, calls>>

\* ShouldKill or CorruptFile is called: the atomic add.
Count(c, i) ==
    /\ call[c] = <<>> /\ count[i] < MaxCalls
    /\ count' = [count EXCEPT ![i] = @ + 1]
    /\ call' = [call EXCEPT ![c] = <<i, count[i] + 1, resets[i]>>]
    /\ UNCHANGED <<mode, injectors, spared, resets>>

\* The call of c has been judged, and hits or is spared.
Judged(c, hit) ==
    /\ call' = [call EXCEPT ![c] = <<>>]
    /\ spared' = [spared EXCEPT ![call[c][1]][call[c][3]] = IF hit THEN @ ELSE @ + 1]
    /\ UNCHANGED <<mode, injectors, count, resets>>

\* Slip: the counter is read again, in place of the number the add returned.
JudgeByCounter(c) ==
    call[c] # <<>> /\ Judged(c, count[call[c][1]] > threshold[call[c][1]])

\* The comparison with the threshold, whatever it is by now.
Judge(c) ==
    call[c] # <<>> /\ Judged(c, call[c][2] > threshold[call[c][1]])

\* Reset of either counter, in the middle of calls or not.
Reset(i) ==
    /\ resets[i] < MaxResets
    /\ count' = [count EXCEPT ![i] = 0]
    /\ resets' = [resets EXCEPT ![i] = @ + 1]
    /\ UNCHANGED <<mode, injectors, call, spared>>

ChaosNext ==
    \/ Start \/ Stop \/ Tick \/ Heal
    \/ \E d \in 0..MaxTick : SetDuration(d)
    \/ \E c \in Caller : Judge(c) \/ \E i \in Counting : Count(c, i)
    \/ \E i \in Counting : Reset(i)

ChaosSpec == ChaosInit /\ [][ChaosNext]_chaosVars

-----------------------------------------------------------------------------
(* Properties *)

\* Where the trace shows failure f.
Shown(f) == {k \in 1..Len(trace) : trace[k][2] = f}

\* Type invariant: as well, what the injectors are set to is what the trace shows
\* last, whatever was started, stopped and healed.
ChaosTypeOK ==
    /\ active \in BOOLEAN /\ elapsed \in 0..MaxTick /\ duration \in 0..MaxTick
    /\ trace \in Seq((1..MaxTick) \X Failure)
    /\ DOMAIN threshold = Counting
    /\ \A i \in Counting :
         IF Shown(i) = {} THEN threshold[i] = 0
         ELSE \E k \in Shown(i) : (\A j \in Shown(i) : j <= k) /\ threshold[i] = trace[k][1]
    /\ partitioned => Shown("partition") # {}
    /\ count \in [Counting -> 0..MaxCalls]
    /\ \A c \in Caller : call[c] # <<>> => call[c] \in Counting \X (1..MaxCalls) \X Period

\* The trace of a run of n ticks with this seed.
TraceOf(n) ==
    FlattenSeq([t \in 1..n |-> IF roll[t] = "none" THEN <<>> ELSE <<<<t, roll[t]>>>>])

\* "Injects failures deterministically using a fixed seed so every run is
\* reproducible" (mode.go:2): however often the mode is stopped, started again or
\* given another duration, its trace is that of one run after the other, each
\* with the failures the seed gives from tick 1 on.
RunsRepeat == trace = FlattenSeq([k \in 1..Len(runs) |-> TraceOf(runs[k])]) \o TraceOf(elapsed)

\* "Inject after this many calls" (failure.go:42), "corrupt after this many writes"
\* (failure.go:82): of the calls counted between two Resets, no more are spared
\* than the latest tick at which the trace shows the injector, whichever callers
\* were counted at the same time, whatever was set in between, a lower threshold
\* by a new run or a higher one by its next tick, and although a call may be
\* judged after the Reset that ended its period.  So before the first such tick
\* every call hits.
SparedBounded ==
    \A i \in Counting : \A p \in Period :
        spared[i][p] <= Max({0} \cup {trace[k][1] : k \in Shown(i)})
=============================================================================
