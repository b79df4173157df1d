--------------------------- MODULE HarnessProofs ---------------------------
(***************************************************************************)
(* The two harnesses that disturb the system: the stress run and chaos     *)
(* mode.                                                                   *)
(*                                                                         *)
(* The stress run, for any number of nodes, any number of events and any   *)
(* crashes, partitions and restarts: the inductive invariant says that a   *)
(* log is a strictly increasing list of event numbers, that a node that    *)
(* was never down has missed nothing, and that without a restart these are *)
(* all the live nodes: so the checks pass.  That equal counts are equal    *)
(* logs needs the order of the numbers as well.                            *)
(*                                                                         *)
(* Chaos mode, for any seed, duration and number of callers: the trace is  *)
(* what FlattenSeq joins from the runs, by induction over it; and for each *)
(* number a caller may be given, the calls in flight and the calls spared  *)
(* come to one at most in each period between Resets (SparedInv).          *)
(***************************************************************************)
EXTENDS StressRun, ChaosMode, FiniteSetTheorems, SequenceTheorems, WellFoundedInduction, TLAPS

\* Logs hold each event number at most once, in the order of the broadcasts.
Ordered ==
    \A n \in Node :
        /\ Len(events[n]) <= i
        /\ \A j, k \in 1..Len(events[n]) : j < k => events[n][j] < events[n][k]

\* A node that was never down is never behind: it holds the whole log of every
\* other node as a subset, and all such nodes hold the same log.
FreshKnowsAll ==
    \A f \in fresh, n \in Node :
        /\ \A k \in 1..Len(events[n]) : \E j \in 1..Len(events[f]) : events[f][j] = events[n][k]
        /\ n \in fresh => events[n] = events[f]

Inv ==
    /\ TypeOK
    /\ Ordered
    /\ FreshKnowsAll
    /\ restarted = {} => fresh = Live(crashed)
    /\ RunSucceeds

Logs == [Node -> Seq(Nat)]

-----------------------------------------------------------------------------
(* The checks *)

\* Whatever logs the nodes hold, at most one has more events than all others:
\* CheckNoSplitBrain cannot return false, and no run can report a split brain.
LEMMA OneLeader ==
    ASSUME NEW ev \in Logs
    PROVE  CheckNoSplitBrain(ev)
<1>1. ASSUME NEW m \in Leaders(ev), NEW n \in Leaders(ev), m # n
      PROVE  FALSE
    <2>1. m \in Node /\ n \in Node
        BY DEF Leaders
    <2>2. Len(ev[m]) \in Nat /\ Len(ev[n]) \in Nat
        BY <2>1 DEF Logs
    <2>3. Len(ev[m]) < Len(ev[n]) /\ Len(ev[n]) < Len(ev[m])
        BY <1>1, <2>1 DEF Leaders
    <2> QED
        BY <2>2, <2>3
<1>2. Leaders(ev) = {} \/ \E n : Leaders(ev) = {n}
    BY <1>1
<1>3. Cardinality(Leaders(ev)) \in {0, 1}
    BY <1>2, FS_EmptySet, FS_Singleton
<1> QED
    BY <1>3 DEF CheckNoSplitBrain

\* A set paired with one value has as many members.
LEMMA PairedCount ==
    ASSUME NEW S, IsFiniteSet(S), NEW k
    PROVE  Cardinality(S \X {k}) = Cardinality(S)
<1> DEFINE f == [n \in S |-> <<n, k>>]
<1>1. f \in [S -> S \X {k}]
    OBVIOUS
<1>2. \A m, n \in S : f[m] = f[n] => m = n
    OBVIOUS
<1>3. \A t \in S \X {k} : \E n \in S : f[n] = t
    OBVIOUS
<1> HIDE DEF f
<1>4. f \in Bijection(S, S \X {k})
    BY <1>1, <1>2, <1>3 DEF Bijection, Injection, Surjection, IsInjective
<1>5. ExistsBijection(S, S \X {k})
    BY <1>4 DEF ExistsBijection
<1> QED
    BY <1>5, FS_Bijection

\* When all live nodes hold the same log, with no number twice, they hold each
\* number as often as there are live nodes, or not at all.
LEMMA SameLogsConverge ==
    ASSUME NEW ev \in Logs, NEW down,
           \A n \in Node : Len(ev[n]) <= Events,
           \A n \in Node : \A j, k \in 1..Len(ev[n]) : j < k => ev[n][j] < ev[n][k],
           \A m, n \in Live(down) : ev[m] = ev[n]
    PROVE  CheckConvergence(ev, down)
<1> SUFFICES ASSUME NEW seq \in 0..(Events - 1)
             PROVE  EventCount(ev, down, seq) \in {0, Cardinality(Live(down))}
    BY DEF CheckConvergence
<1> DEFINE Held == {h \in Live(down) \X (1..Events) :
                        h[2] <= Len(ev[h[1]]) /\ ev[h[1]][h[2]] = seq}
<1>1. IsFiniteSet(Live(down))
    <2>1. IsFiniteSet(Node)
        BY FS_Interval, StressAssumption DEF Node
    <2>2. Live(down) \subseteq Node
        BY DEF Live
    <2> QED
        BY <2>1, <2>2, FS_Subset
<1>2. CASE Held = {}
    BY <1>2, FS_EmptySet DEF EventCount
<1>3. CASE Held # {}
    <2>1. PICK h \in Held : TRUE
        BY <1>3
    <2> DEFINE m == h[1]
               k == h[2]
    <2>2. /\ m \in Live(down) /\ m \in Node
          /\ k \in 1..Events /\ k \in 1..Len(ev[m]) /\ ev[m][k] = seq
        BY <2>1 DEF Live, Logs
    <2>3. ASSUME NEW n \in Live(down), NEW j \in 1..Events
          PROVE  j <= Len(ev[n]) /\ ev[n][j] = seq <=> j = k
        <3>1. ev[n] = ev[m]
            BY <2>2
        <3>2. Len(ev[m]) \in Nat /\ \A x \in 1..Len(ev[m]) : ev[m][x] \in Nat
            BY <2>2 DEF Logs
        <3>3. \A x \in 1..Len(ev[m]) : ev[m][x] = seq => ~(x < k) /\ ~(k < x)
            BY <2>2, <3>2
        <3> QED
            BY <2>2, <3>1, <3>2, <3>3
    <2>4. Held = Live(down) \X {k}
        BY <2>2, <2>3
    <2> HIDE DEF k
    <2>5. Cardinality(Held) = Cardinality(Live(down))
        BY <1>1, <2>4, PairedCount
    <2> QED
        BY <2>5 DEF EventCount
<1> QED
    BY <1>2, <1>3
\* Nodes that hold the same log are compared without a difference.
LEMMA SameLogsPass ==
    ASSUME NEW ev \in Logs, NEW down,
           \A n \in Node : Len(ev[n]) <= Events,
           \A n \in Node : \A j, k \in 1..Len(ev[n]) : j < k => ev[n][j] < ev[n][k],
           \A m, n \in Live(down) : ev[m] = ev[n]
    PROVE  Verdict(ev, down) = ""
<1>1. CheckReplayEquivalence(ev, down)
    BY DEF CheckReplayEquivalence
<1> QED
    BY <1>1, OneLeader, SameLogsConverge DEF Verdict

-----------------------------------------------------------------------------
(* The check that counts says as much as comparing the logs.                 *)

\* Induction: a set of naturals that is not empty has a least member.
LessNat == {ss \in Nat \X Nat : ss[1] < ss[2]}

LEMMA LessWF == IsWellFoundedOn(LessNat, Nat)
<1>1. OpToRel(<, Nat) = LessNat
    BY DEF OpToRel, LessNat
<1> QED
    BY <1>1, NatLessThanWellFounded

LEMMA Least ==
    ASSUME NEW S \in SUBSET Nat, S # {}
    PROVE  \E m \in S : \A n \in S : m <= n
<1>1. PICK x \in S : \A y \in S : ~(<<y, x>> \in LessNat)
    BY WFMin, LessWF
<1>2. \A y \in S : <<y, x>> \in Nat \X Nat
    OBVIOUS
<1>3. \A y \in S : ~(y < x)
    BY <1>1, <1>2 DEF LessNat
<1> QED
    BY <1>3

Increasing(s) == \A j, k \in 1..Len(s) : j < k => s[j] < s[k]

\* Every member of s is one of t.
MembersOf(s, t) == \A j \in 1..Len(s) : \E k \in 1..Len(t) : t[k] = s[j]

\* An increasing list is determined by its members: the list with fewer is a
\* prefix of the other.
LEMMA MembersInOrder ==
    ASSUME NEW s \in Seq(Nat), NEW t \in Seq(Nat), Increasing(s), Increasing(t),
           MembersOf(s, t), MembersOf(t, s), NEW k \in 1..Len(s)
    PROVE  k <= Len(t) /\ s[k] = t[k]
<1> DEFINE Good(n) == n <= Len(t) /\ s[n] = t[n]
           Bad == {n \in 1..Len(s) : ~Good(n)}
<1>1. Len(s) \in Nat /\ Len(t) \in Nat
    BY LenProperties
<1>2. ASSUME NEW m \in Bad, \A n \in Bad : m <= n
      PROVE  FALSE
    <2>1. m \in 1..Len(s) /\ m \in Nat
        BY <1>1
    <2>2. ASSUME NEW n \in 1..Len(s), n < m
          PROVE  n <= Len(t) /\ s[n] = t[n]
        <3>1. ~(m <= n)
            BY <1>1, <2>1, <2>2
        <3>2. n \notin Bad
            <4> HIDE DEF Bad
            <4> QED
                BY <1>2, <3>1
        <3> QED
            BY <3>2
    <2>3. PICK q \in 1..Len(t) : t[q] = s[m]
        BY <2>1 DEF MembersOf
    <2>4. s[m] \in Nat
        BY <2>1, ElementOfSeq
    <2>5. ~(q < m)
        <3> SUFFICES ASSUME q < m PROVE FALSE
            OBVIOUS
        <3>1. q \in 1..Len(s)
            BY <1>1, <2>1
        <3>2. s[q] = t[q] /\ s[q] < s[m]
            BY <2>1, <2>2, <3>1 DEF Increasing
        <3> QED
            BY <2>3, <2>4, <3>2
    <2>6. m \in 1..Len(t) /\ m <= Len(t)
        BY <1>1, <2>1, <2>3, <2>5
    <2>7. t[m] \in Nat
        BY <2>6, ElementOfSeq
    <2>8. t[m] <= s[m]
        <3>1. CASE q = m
            BY <2>3, <2>4, <3>1
        <3>2. CASE q # m
            <4>1. m < q
                BY <1>1, <2>1, <2>3, <2>5, <3>2
            <4> QED
                BY <2>3, <2>4, <2>6, <2>7, <4>1 DEF Increasing
        <3> QED
            BY <3>1, <3>2
    <2>9. PICK p \in 1..Len(s) : s[p] = t[m]
        BY <2>6 DEF MembersOf
    <2>10. ~(p < m)
        <3> SUFFICES ASSUME p < m PROVE FALSE
            OBVIOUS
        <3>1. s[p] = t[p] /\ p \in 1..Len(t)
            BY <1>1, <2>2, <2>9
        <3>2. t[p] < t[m]
            BY <2>6, <3>1 DEF Increasing
        <3> QED
            BY <2>7, <2>9, <3>1, <3>2
    <2>11. s[m] <= t[m]
        <3>1. CASE p = m
            BY <2>4, <2>9, <3>1
        <3>2. CASE p # m
            <4>1. m < p
                BY <1>1, <2>1, <2>9, <2>10, <3>2
            <4> QED
                BY <2>1, <2>4, <2>7, <2>9, <4>1 DEF Increasing
        <3> QED
            BY <3>1, <3>2
    <2>12. s[m] = t[m]
        BY <2>4, <2>7, <2>8, <2>11
    <2> QED
        BY <2>6, <2>12
<1>3. Bad = {}
    <2>1. Bad \in SUBSET Nat
        BY <1>1
    <2> HIDE DEF Bad
    <2> QED
        BY <1>2, <2>1, Least
<1> QED
    BY <1>3

LEMMA SameMembersEqual ==
    ASSUME NEW s \in Seq(Nat), NEW t \in Seq(Nat), Increasing(s), Increasing(t),
           MembersOf(s, t), MembersOf(t, s)
    PROVE  s = t
<1>1. Len(s) \in Nat /\ Len(t) \in Nat
    BY LenProperties
<1>2. \A k \in 1..Len(s) : k <= Len(t) /\ s[k] = t[k]
    BY MembersInOrder
<1>3. \A k \in 1..Len(t) : k <= Len(s)
    BY MembersInOrder
<1>4. Len(s) = Len(t)
    BY <1>1, <1>2, <1>3
<1> QED
    BY <1>2, <1>4, SeqEqual

\* A number that is held as often as there are live nodes is held by all of them.
LEMMA HeldByAll ==
    ASSUME NEW ev \in Logs, NEW down,
           \A n \in Node : Len(ev[n]) <= Events,
           \A n \in Node : Increasing(ev[n]),
           \A n \in Node : \A k \in 1..Len(ev[n]) : ev[n][k] < Events,
           CheckConvergence(ev, down),
           NEW m \in Live(down), NEW n \in Live(down)
    PROVE  MembersOf(ev[m], ev[n])
<1> SUFFICES ASSUME NEW p \in 1..Len(ev[m])
             PROVE  \E k \in 1..Len(ev[n]) : ev[n][k] = ev[m][p]
    BY DEF MembersOf
<1> DEFINE seq == ev[m][p]
           L == Live(down)
           H == {h \in L \X (1..Events) : h[2] <= Len(ev[h[1]]) /\ ev[h[1]][h[2]] = seq}
           pr == [h \in H |-> h[1]]
           P == {h[1] : h \in H}
<1>1. /\ L \subseteq Node /\ m \in Node /\ n \in Node /\ Events \in Nat /\ N \in Nat
      /\ \A x \in Node : ev[x] \in Seq(Nat) /\ Len(ev[x]) \in Nat
    BY StressAssumption, LenProperties DEF Live, Logs
<1>2. IsFiniteSet(L)
    <2>0. 1 \in Int /\ N \in Int
        BY <1>1
    <2>1. IsFiniteSet(Node)
        <3>1. IsFiniteSet(1..N)
            BY ONLY <2>0, FS_Interval
        <3> QED
            BY <3>1 DEF Node
    <2> HIDE DEF L
    <2> QED
        BY <1>1, <2>1, FS_Subset
<1>3. seq \in Nat /\ seq < Events
    BY <1>1, ElementOfSeq
<1>4. Cardinality(H) \in {0, Cardinality(L)}
    <2>1. seq \in 0..(Events - 1)
        BY <1>1, <1>3
    <2> HIDE DEF seq
    <2> QED
        BY <2>1 DEF CheckConvergence, EventCount
<1>5. <<m, p>> \in H
    <2>1. p \in 1..Events
        BY <1>1
    <2> QED
        BY <2>1
\* A node holds a number at one place.
<1>6. ASSUME NEW g \in H, NEW h \in H, g[1] = h[1]
      PROVE  g = h
    <2> DEFINE x == g[1]
    <2>1. /\ x \in Node /\ g[2] \in 1..Len(ev[x]) /\ h[2] \in 1..Len(ev[x])
          /\ ev[x][g[2]] = seq /\ ev[x][h[2]] = seq
          /\ g = <<x, g[2]>> /\ h = <<x, h[2]>>
        BY <1>1, <1>6
    <2>2. ~(g[2] < h[2]) /\ ~(h[2] < g[2])
        <3> HIDE DEF H, x, seq
        <3>1. ev[x][g[2]] \in Nat /\ Increasing(ev[x])
            BY <1>1, <2>1, ElementOfSeq
        <3> QED
            BY <2>1, <3>1 DEF Increasing
    <2>3. g[2] = h[2]
        <3> HIDE DEF H, x
        <3> QED
            BY <1>1, <2>1, <2>2
    <2> QED
        BY <2>1, <2>3
<1> HIDE DEF H
<1>7. pr \in Bijection(H, P)
    <2>1. pr \in [H -> P]
        OBVIOUS
    <2>2. \A g, h \in H : pr[g] = pr[h] => g = h
        BY <1>6
    <2>3. \A x \in P : \E h \in H : pr[h] = x
        OBVIOUS
    <2> HIDE DEF pr, P
    <2> QED
        BY <2>1, <2>2, <2>3 DEF Bijection, Injection, Surjection, IsInjective
<1>8. P \subseteq L
    BY DEF H
<1>9. IsFiniteSet(P) /\ Cardinality(P) = Cardinality(H) /\ IsFiniteSet(H)
    <2>1. IsFiniteSet(H)
        <3>1. H \subseteq L \X (1..Events)
            BY DEF H
        <3>0. 1 \in Int /\ Events \in Int
            BY <1>1
        <3>2. IsFiniteSet(1..Events)
            BY ONLY <3>0, FS_Interval
        <3> HIDE DEF L
        <3>3. IsFiniteSet(L \X (1..Events))
            BY <1>2, <3>2, FS_Product
        <3> QED
            BY <3>1, <3>3, FS_Subset
    <2>2. ExistsBijection(H, P)
        BY <1>7 DEF ExistsBijection
    <2> HIDE DEF P, pr
    <2> QED
        BY <2>1, <2>2, FS_Bijection
<1>10. P = L
    <2>1. Cardinality(H) # 0
        BY <1>5, <1>9, FS_EmptySet
    <2> HIDE DEF P, L
    <2> QED
        BY <1>2, <1>4, <1>8, <1>9, <2>1, FS_Subset
<1>11. PICK h \in H : h[1] = n
    BY <1>10
<1>12. h[2] \in 1..Len(ev[n]) /\ ev[n][h[2]] = seq
    BY <1>1, <1>11 DEF H
<1> QED
    BY <1>12

\* When the counts agree the live nodes hold the same log.
LEMMA ConvergedLogsSame ==
    ASSUME NEW ev \in Logs, NEW down,
           \A n \in Node : Len(ev[n]) <= Events,
           \A n \in Node : Increasing(ev[n]),
           \A n \in Node : \A k \in 1..Len(ev[n]) : ev[n][k] < Events,
           CheckConvergence(ev, down),
           NEW m \in Live(down), NEW n \in Live(down)
    PROVE  ev[m] = ev[n]
<1>1. MembersOf(ev[m], ev[n]) /\ MembersOf(ev[n], ev[m])
    BY HeldByAll
<1>2. ev[m] \in Seq(Nat) /\ ev[n] \in Seq(Nat) /\ Increasing(ev[m]) /\ Increasing(ev[n])
    BY DEF Live, Logs
<1> QED
    BY <1>1, <1>2, SameMembersEqual

-----------------------------------------------------------------------------
(* The inductive invariant *)

\* A run starts with no event, no crash and no verdict, which the invariant allows.
LEMMA InitInv == Init => Inv
<1> SUFFICES ASSUME Init
             PROVE  Inv
    OBVIOUS
<1>1. \A n \in Node : events[n] = <<>>
    BY DEF Init
<1>2. TypeOK
    <2>1. i \in 0..Events
        <3>1. i = 0
            BY DEF Init
        <3> QED
            BY <3>1, StressAssumption
    <2>2. events \in [Node -> Seq(0..(i - 1))]
        BY EmptySeq DEF Init
    <2> QED
        BY <2>1, <2>2 DEF Init, TypeOK
<1>3. Ordered
    <2>1. i = 0 /\ Len(<<>>) = 0
        BY DEF Init
    <2> QED
        BY <1>1, <2>1 DEF Ordered
<1>4. FreshKnowsAll
    BY <1>1 DEF Init, FreshKnowsAll
<1> QED
    BY <1>2, <1>3, <1>4 DEF Init, Inv, RunSucceeds, Live

\* Appending x to s.
LEMMA Appended ==
    ASSUME NEW S, NEW s \in Seq(S), NEW x \in S
    PROVE  /\ Append(s, x) \in Seq(S)
           /\ Len(s) \in Nat /\ Len(Append(s, x)) = Len(s) + 1
           /\ \A k \in 1..Len(s) : Append(s, x)[k] = s[k]
           /\ Append(s, x)[Len(s) + 1] = x
OBVIOUS

\* The counter of the loop.
LEMMA Counted ==
    ASSUME Inv, NEW crash \in BOOLEAN, NEW cut \in BOOLEAN, Iterate(crash, cut)
    PROVE  i \in Nat /\ i' = i + 1 /\ i' \in 0..Events
<1>1. i \in 0..Events
    BY DEF Inv, TypeOK
<1>2. i < Events /\ i' = i + 1
    BY DEF Iterate
<1> QED
    BY <1>1, <1>2, StressAssumption

\* What an iteration does to the logs.
LEMMA IterateLogs ==
    ASSUME Inv, NEW crash \in BOOLEAN, NEW cut \in BOOLEAN, Iterate(crash, cut)
    PROVE  /\ crashed \subseteq crashed' /\ crashed' \subseteq Node
           /\ events' \in [Node -> Seq(0..i)]
           /\ Ordered'
<1>1. i \in Nat /\ i' = i + 1 /\ i' \in 0..Events
    BY Counted
<1>2. crashed \subseteq crashed' /\ crashed' \subseteq Node
    BY DEF Iterate, CrashFirst, First, Live, Inv, TypeOK
<1>3. \A n \in Node : events'[n] \in {events[n], Append(events[n], i)}
    BY DEF Iterate, Broadcast, Inv, TypeOK
<1>4. \A n \in Node : events[n] \in Seq(0..i) /\ events[n] \in Seq(0..(i - 1))
    <2>1. \A n \in Node : events[n] \in Seq(0..(i - 1))
        BY DEF Inv, TypeOK
    <2>2. 0..(i - 1) \subseteq 0..i
        BY <1>1
    <2> QED
        BY <2>1, <2>2, SeqMonotonic
<1>5. \A n \in Node : events'[n] \in Seq(0..i)
    <2>1. i \in 0..i
        BY <1>1
    <2>2. \A n \in Node : Append(events[n], i) \in Seq(0..i)
        BY <1>4, <2>1, Appended
    <2> QED
        BY <1>3, <1>4, <2>2
<1>6. events' = [n \in Node |-> events'[n]]
    BY DEF Iterate, Broadcast, Inv, TypeOK
<1>7. ASSUME NEW n \in Node
      PROVE  /\ Len(events'[n]) <= i'
             /\ \A j, k \in 1..Len(events'[n]) : j < k => events'[n][j] < events'[n][k]
    <2>1. /\ Len(events[n]) <= i
          /\ \A j, k \in 1..Len(events[n]) : j < k => events[n][j] < events[n][k]
        BY DEF Inv, Ordered
    <2>2. CASE events'[n] = events[n]
        BY <1>1, <1>4, <2>1, <2>2
    <2>3. CASE events'[n] = Append(events[n], i)
        <3>1. \A j \in 1..Len(events[n]) : events[n][j] \in 0..(i - 1)
            BY <1>4, ElementOfSeq
        <3>2. i \in 0..i
            BY <1>1
        <3>3. /\ Len(events[n]) \in Nat /\ Len(events'[n]) = Len(events[n]) + 1
              /\ \A k \in 1..Len(events[n]) : events'[n][k] = events[n][k]
              /\ events'[n][Len(events[n]) + 1] = i
            BY <1>4, <2>3, <3>2, Appended
        <3> DEFINE l == Len(events[n])
        <3>4. Len(events'[n]) <= i'
            BY <1>1, <2>1, <3>3
        <3>5. ASSUME NEW j \in 1..Len(events'[n]), NEW k \in 1..Len(events'[n]), j < k
              PROVE  events'[n][j] < events'[n][k]
            <4>1. j \in 1..l /\ (k \in 1..l \/ k = l + 1)
                BY <3>3, <3>5
            <4>2. CASE k \in 1..l
                BY <2>1, <3>3, <3>5, <4>1, <4>2
            <4>3. CASE k = l + 1
                <5>1. events'[n][j] \in 0..(i - 1) /\ events'[n][k] = i
                    BY <3>1, <3>3, <4>1, <4>3
                <5> QED
                    BY <1>1, <5>1
            <4> QED
                BY <4>1, <4>2, <4>3
        <3> QED
            BY <3>4, <3>5
    <2> QED
        BY <1>3, <2>2, <2>3
<1> QED
    BY <1>2, <1>5, <1>6, <1>7 DEF Ordered

\* A node that stays up receives whatever any node receives.
LEMMA IterateFresh ==
    ASSUME Inv, NEW crash \in BOOLEAN, NEW cut \in BOOLEAN, Iterate(crash, cut)
    PROVE  FreshKnowsAll'
<1> SUFFICES ASSUME NEW f \in fresh', NEW n \in Node
             PROVE  /\ \A k \in 1..Len(events'[n]) :
                            \E j \in 1..Len(events'[f]) : events'[f][j] = events'[n][k]
                    /\ n \in fresh' => events'[n] = events'[f]
    BY DEF FreshKnowsAll
<1>1. f \in fresh /\ f \in Node /\ f \notin crashed' /\ fresh' = fresh \ crashed'
    BY DEF Iterate, Inv, TypeOK
<1>2. /\ \A k \in 1..Len(events[n]) : \E j \in 1..Len(events[f]) : events[f][j] = events[n][k]
      /\ n \in fresh => events[n] = events[f]
    BY <1>1 DEF Inv, FreshKnowsAll
<1>3. CASE cut
    BY <1>1, <1>2, <1>3 DEF Iterate
<1>4. CASE ~cut
    <2>1. events'[f] = Append(events[f], i)
        BY <1>1, <1>4 DEF Iterate, Broadcast
    <2>2. events'[n] = IF n \in crashed' THEN events[n] ELSE Append(events[n], i)
        BY <1>4 DEF Iterate, Broadcast
    <2>3. events[f] \in Seq(0..(i - 1)) /\ events[n] \in Seq(0..(i - 1))
        BY <1>1 DEF Inv, TypeOK
    <2>4. \A j \in 1..Len(events[f]) : events'[f][j] = events[f][j]
        BY <2>1, <2>3
    <2>5. /\ Len(events'[f]) = Len(events[f]) + 1
          /\ events'[f][Len(events[f]) + 1] = i
          /\ Len(events[f]) \in Nat
        BY <2>1, <2>3
    <2>6. ASSUME NEW k \in 1..Len(events'[n])
          PROVE  \E j \in 1..Len(events'[f]) : events'[f][j] = events'[n][k]
        <3>1. CASE k \in 1..Len(events[n])
            <4>1. events'[n][k] = events[n][k]
                BY <2>2, <2>3, <3>1
            <4>2. PICK j \in 1..Len(events[f]) : events[f][j] = events[n][k]
                BY <1>2, <3>1
            <4> QED
                BY <2>4, <2>5, <4>1, <4>2
        <3>2. CASE k \notin 1..Len(events[n])
            <4>1. events'[n][k] = i
                BY <2>2, <2>3, <3>2
            <4> QED
                BY <2>5, <4>1
        <3> QED
            BY <3>1, <3>2
    <2> QED
        BY <1>1, <1>2, <2>1, <2>2, <2>6
<1> QED
    BY <1>3, <1>4

\* Neither an iteration nor a restart breaks the invariant.
LEMMA StepInv == Inv /\ [Next]_vars => Inv'
<1> SUFFICES ASSUME Inv, [Next]_vars
             PROVE  Inv'
    OBVIOUS
<1>1. ASSUME NEW crash \in BOOLEAN, NEW cut \in BOOLEAN, Iterate(crash, cut)
      PROVE  Inv'
    <2>1. /\ crashed \subseteq crashed' /\ crashed' \subseteq Node
          /\ events' \in [Node -> Seq(0..i)] /\ Ordered'
        BY <1>1, IterateLogs
    <2>2. FreshKnowsAll'
        BY <1>1, IterateFresh
    <2>3. i \in Nat /\ i' = i + 1 /\ i' \in 0..Events /\ i' - 1 = i
        <3>1. i \in Nat /\ i' = i + 1 /\ i' \in 0..Events
            BY <1>1, Counted
        <3> QED
            BY <3>1
    <2>4. restarted' = {} => fresh' = Live(crashed')
        BY <1>1, <2>1 DEF Iterate, Live, Inv
    <2>5. TypeOK'
        BY <1>1, <2>1, <2>3 DEF Iterate, Inv, TypeOK, Verdict
    <2>6. RunSucceeds'
        <3> SUFFICES ASSUME restarted' = {}
                     PROVE  verdict' = ""
            BY DEF RunSucceeds
        <3>1. \A m, n \in Live(crashed') : events'[m] = events'[n]
            BY <2>2, <2>4 DEF FreshKnowsAll, Live
        <3>2. events' \in Logs
            BY <2>1, <2>3 DEF Logs
        <3>3. \A n \in Node :
                /\ Len(events'[n]) <= Events
                /\ \A j, k \in 1..Len(events'[n]) : j < k => events'[n][j] < events'[n][k]
            <4>1. \A n \in Node : Len(events'[n]) \in Nat
                BY <3>2 DEF Logs
            <4> QED
                BY <2>1, <2>3, <4>1, StressAssumption DEF Ordered
        <3>4. Verdict(events', crashed') = ""
            BY <3>1, <3>2, <3>3, SameLogsPass
        <3> QED
            BY <1>1, <3>4 DEF Iterate
    <2> QED
        BY <2>1, <2>2, <2>4, <2>5, <2>6 DEF Inv
<1>2. ASSUME RestartRandomNode
      PROVE  Inv'
    <2>1. crashed' \subseteq Node /\ fresh \cap crashed' = {}
        BY <1>2 DEF RestartRandomNode, Inv, TypeOK
    <2>2. TypeOK'
        BY <1>2, <2>1 DEF RestartRandomNode, First, Inv, TypeOK
    <2>3. Ordered' /\ FreshKnowsAll'
        <3>1. i' = i /\ events' = events /\ fresh' = fresh
            BY <1>2 DEF RestartRandomNode
        <3>2. Ordered'
            BY <3>1 DEF Inv, Ordered
        <3>3. FreshKnowsAll'
            BY <3>1 DEF Inv, FreshKnowsAll
        <3> QED
            BY <3>2, <3>3
    <2>4. RunSucceeds'
        BY <1>2 DEF RestartRandomNode, RunSucceeds
    <2>5. restarted' = {} => fresh' = Live(crashed')
        <3>1. CASE First(crashed) = {}
            BY <1>2, <3>1 DEF RestartRandomNode, Inv
        <3>2. CASE First(crashed) # {}
            BY <1>2, <3>2 DEF RestartRandomNode
        <3> QED
            BY <3>1, <3>2
    <2> QED
        BY <2>2, <2>3, <2>4, <2>5 DEF Inv
<1>3. CASE UNCHANGED vars
    <2>1. TypeOK' /\ RunSucceeds' /\ (restarted' = {} => fresh' = Live(crashed'))
        BY <1>3 DEF vars, Inv, TypeOK, RunSucceeds
    <2>2. Ordered'
        BY <1>3 DEF vars, Inv, Ordered
    <2>3. FreshKnowsAll'
        BY <1>3 DEF vars, Inv, FreshKnowsAll
    <2> QED
        BY <2>1, <2>2, <2>3 DEF Inv
<1> QED
    BY <1>1, <1>2, <1>3 DEF Next

\* The inductive invariant holds throughout every run.
THEOREM InvAlways == Spec => []Inv
BY InitInv, StepInv, PTL DEF Spec

-----------------------------------------------------------------------------
(* The theorems *)

\* TypeOK of the stress run.
THEOREM TypeCorrect == Spec => []TypeOK
<1>1. Inv => TypeOK
    BY DEF Inv
<1> QED
    BY <1>1, InvAlways, PTL

\* RunLongTerm returns nil for every configuration: without a restart no choice
\* of crashes and partitions makes a check fail.
THEOREM LongRunsSucceed == Spec => []RunSucceeds
<1>1. Inv => RunSucceeds
    BY DEF Inv
<1> QED
    BY <1>1, InvAlways, PTL

\* A node that never went down holds everything any node holds.
THEOREM FreshNodesKnowAll == Spec => []FreshKnowsAll
<1>1. Inv => FreshKnowsAll
    BY DEF Inv
<1> QED
    BY <1>1, InvAlways, PTL

\* INV_NoSplitBrain is never reported, with restarts as without.
THEOREM SplitBrainNeverReported == Spec => [](verdict # "INV_NoSplitBrain")
<1>1. Init => verdict # "INV_NoSplitBrain"
    BY DEF Init
<1>2. Inv /\ Inv' /\ verdict # "INV_NoSplitBrain" /\ [Next]_vars
        => (verdict # "INV_NoSplitBrain")'
    <2> SUFFICES ASSUME Inv, Inv', verdict # "INV_NoSplitBrain", [Next]_vars
                 PROVE  verdict' # "INV_NoSplitBrain"
        OBVIOUS
    <2>1. ASSUME NEW crash \in BOOLEAN, NEW cut \in BOOLEAN, Iterate(crash, cut)
          PROVE  verdict' # "INV_NoSplitBrain"
        <3>1. events' \in Logs
            <4>1. events' \in [Node -> Seq(0..(i' - 1))]
                BY DEF Inv, TypeOK
            <4>2. 0..(i' - 1) \subseteq Nat
                OBVIOUS
            <4>3. \A n \in Node : events'[n] \in Seq(Nat)
                BY <4>1, <4>2, SeqMonotonic
            <4> QED
                BY <4>1, <4>3 DEF Logs
        <3>2. CheckNoSplitBrain(events')
            BY <3>1, OneLeader
        <3> QED
            BY <2>1, <3>2 DEF Iterate, Verdict
    <2> QED
        BY <2>1 DEF Next, RestartRandomNode, vars
<1> QED
    BY <1>1, <1>2, InvAlways, PTL DEF Spec

\* Counting the event numbers says as much as comparing the logs, whatever was
\* crashed, cut off and restarted.
THEOREM CountingIsExact == Spec => []ConvergenceIsExact
<1>1. Inv => ConvergenceIsExact
    <2> SUFFICES ASSUME Inv PROVE ConvergenceIsExact
        OBVIOUS
    <2>1. i \in 0..Events /\ i \in Nat /\ Events \in Nat
        <3>1. Events \in Nat
            BY StressAssumption
        <3>2. i \in 0..Events
            BY DEF Inv, TypeOK
        <3> QED
            BY <3>1, <3>2
    <2>2. \A n \in Node : events[n] \in Seq(0..(i-1))
        BY DEF Inv, TypeOK
    <2>3. 0..(i-1) \subseteq Nat
        BY <2>1
    <2>4. \A n \in Node : events[n] \in Seq(Nat)
        BY <2>2, <2>3, SeqMonotonic
    <2>5. events \in Logs
        BY <2>4 DEF Logs, Inv, TypeOK
    <2>6. \A n \in Node : Len(events[n]) <= Events
        BY <2>1, <2>4, LenProperties DEF Inv, Ordered
    <2>7. \A n \in Node : Increasing(events[n])
        BY DEF Inv, Ordered, Increasing
    <2>8. \A n \in Node : \A k \in 1..Len(events[n]) : events[n][k] < Events
        BY <2>1, <2>2, ElementOfSeq
    <2>9. CheckConvergence(events, crashed) =>
                \A m, n \in Live(crashed) : events[m] = events[n]
        BY <2>5, <2>6, <2>7, <2>8, ConvergedLogsSame
    <2>10. (\A m, n \in Live(crashed) : events[m] = events[n]) =>
                CheckConvergence(events, crashed)
        BY <2>5, <2>6, <2>7, SameLogsConverge DEF Increasing
    <2> QED
        BY <2>9, <2>10 DEF ConvergenceIsExact
<1> QED
    BY <1>1, InvAlways, PTL

\* Nodes that differ have missed different events, and no step brings an event of
\* an earlier number: they differ for ever.
THEOREM DifferForEver == Spec => NeverCatchesUp
<1>1. ASSUME Inv, [Next]_vars, NEW m \in Node, NEW n \in Node, events[m] # events[n]
      PROVE  events'[m] # events'[n]
    <2>1. i \in Nat /\ \A x \in Node : events[x] \in Seq(0..(i-1)) /\ Len(events[x]) \in Nat
        <3>1. i \in 0..Events /\ Events \in Nat
            BY <1>1, StressAssumption DEF Inv, TypeOK
        <3>2. i \in Nat
            BY <3>1
        <3>3. \A x \in Node : events[x] \in Seq(0..(i-1))
            BY <1>1 DEF Inv, TypeOK
        <3> QED
            BY <3>2, <3>3, LenProperties
    <2>2. CASE events' = events
        BY <1>1, <2>2
    <2>3. ASSUME NEW down, events' = Broadcast(down)
          PROVE  events'[m] # events'[n]
        <3>1. \A x \in Node : events'[x] \in {events[x], Append(events[x], i)}
            BY <2>3 DEF Broadcast
        \* The event of this step is in no log yet.
        <3>2. ASSUME NEW x \in Node, NEW y \in Node
              PROVE  events[x] # Append(events[y], i)
            <4>1. ASSUME events[x] = Append(events[y], i)
                  PROVE  FALSE
                <5>1. i \in Nat /\ events[y] \in Seq(Nat)
                    <6>1. 0..(i-1) \subseteq Nat
                        BY <2>1
                    <6> QED
                        BY <2>1, <6>1, SeqMonotonic
                <5>2. Len(events[x]) = Len(events[y]) + 1 /\ events[x][Len(events[y]) + 1] = i
                    BY <4>1, <5>1, AppendProperties
                <5>3. events[x][Len(events[y]) + 1] \in 0..(i-1)
                    BY <2>1, <5>2, ElementOfSeq
                <5> QED
                    BY <2>1, <5>2, <5>3
            <4> QED
                BY <4>1
        <3>3. Append(events[m], i) # Append(events[n], i)
            <4>1. ASSUME Append(events[m], i) = Append(events[n], i)
                  PROVE  events[m] = events[n]
                <5>1. \A x \in Node : /\ Len(Append(events[x], i)) = Len(events[x]) + 1
                                      /\ \A k \in 1..Len(events[x]) :
                                            Append(events[x], i)[k] = events[x][k]
                    BY <2>1
                <5>2. Len(events[m]) = Len(events[n])
                    BY <2>1, <4>1, <5>1
                <5>3. \A k \in 1..Len(events[m]) : events[m][k] = events[n][k]
                    BY <4>1, <5>1, <5>2
                <5> QED
                    BY <2>1, <5>2, <5>3, SeqEqual
            <4> QED
                BY <1>1, <4>1
        <3> QED
            BY <1>1, <3>1, <3>2, <3>3
    <2>4. events' = events \/ \E down : events' = Broadcast(down)
        BY <1>1 DEF Next, Iterate, RestartRandomNode, vars
    <2> QED
        BY <2>2, <2>3, <2>4
<1>2. Inv /\ [Next]_vars =>
        [\A m, n \in Node : events[m] # events[n] => events'[m] # events'[n]]_vars
    BY <1>1
<1> QED
    BY <1>2, InvAlways, PTL DEF Spec, NeverCatchesUp

-----------------------------------------------------------------------------
(* FlattenSeq, by induction on the number of sequences it joins.             *)

Joins(w, f) == f = [k \in 1..Len(w) |-> IF k = 1 THEN w[k] ELSE f[k-1] \o w[k]]

LEMMA FlattenJoins ==
    ASSUME NEW w, Len(w) # 0
    PROVE  FlattenSeq(w) = (CHOOSE f : Joins(w, f))[Len(w)]
BY DEF FlattenSeq, Joins

LEMMA JoinsAt ==
    ASSUME NEW w, NEW f, Joins(w, f), NEW k \in 1..Len(w)
    PROVE  f[k] = IF k = 1 THEN w[k] ELSE f[k-1] \o w[k]
BY DEF Joins

\* The recursive function that FlattenSeq names exists.
LEMMA JoinsExists ==
    ASSUME NEW S, NEW w \in Seq(S)
    PROVE  \E f : Joins(w, f)
<1> DEFINE Part(n, f) == f = [k \in 1..n |-> IF k = 1 THEN w[k] ELSE f[k-1] \o w[k]]
           Bad == {n \in Nat : ~\E f : Part(n, f)}
<1>1. ASSUME NEW n \in Bad, \A m \in Bad : n <= m
      PROVE  FALSE
    <2>1. CASE n = 0
        <3> DEFINE v == [k \in 1..0 |-> 0]
        <3>1. v = [k \in 1..0 |-> IF k = 1 THEN w[k] ELSE v[k-1] \o w[k]]
            OBVIOUS
        <3>2. Part(0, v)
            <4> HIDE DEF v
            <4> QED
                BY <3>1
        <3> QED
            BY <2>1, <3>2
    <2>2. CASE n # 0
        <3>1. n-1 \in Nat /\ ~(n <= n-1)
            BY <2>2
        <3>2. n-1 \notin Bad
            <4> HIDE DEF Bad
            <4> QED
                BY <1>1, <3>1
        <3>3. PICK g : Part(n-1, g)
            BY <3>1, <3>2
        <3> DEFINE top == IF n = 1 THEN w[n] ELSE g[n-1] \o w[n]
                   v == [k \in 1..n |-> IF k = n THEN top ELSE g[k]]
        <3>4. \A k \in 1..n : v[k] = IF k = 1 THEN w[k] ELSE v[k-1] \o w[k]
            <4> SUFFICES ASSUME NEW k \in 1..n
                         PROVE  v[k] = IF k = 1 THEN w[k] ELSE v[k-1] \o w[k]
                OBVIOUS
            <4>1. k # 1 => v[k-1] = g[k-1]
                <5>1. k # 1 => k-1 \in 1..n /\ k-1 # n
                    BY <3>1
                <5> QED
                    BY <5>1
            <4>2. CASE k = n
                BY <4>1, <4>2
            <4>3. CASE k # n
                <5>1. k \in 1..(n-1) /\ v[k] = g[k]
                    BY <3>1, <4>3
                <5>2. g[k] = IF k = 1 THEN w[k] ELSE g[k-1] \o w[k]
                    BY <3>3, <5>1
                <5> HIDE DEF v
                <5> QED
                    BY <4>1, <5>1, <5>2
            <4> QED
                BY <4>2, <4>3
        <3>5. v = [k \in 1..n |-> v[k]]
            OBVIOUS
        <3>6. Part(n, v)
            <4> HIDE DEF v
            <4> QED
                BY <3>4, <3>5
        <3> QED
            BY <3>6
    <2> QED
        BY <2>1, <2>2
<1>2. Bad = {}
    <2>1. Bad \in SUBSET Nat
        OBVIOUS
    <2> HIDE DEF Bad
    <2> QED
        BY <1>1, <2>1, Least
<1>3. Len(w) \in Nat
    BY LenProperties
<1>4. PICK f : Part(Len(w), f)
    BY <1>2, <1>3
<1> QED
    BY <1>4 DEF Joins

\* Up to a position, the function depends on the sequences up to it.
SameTo(w, x, n) == \A k \in 1..n : w[k] = x[k]

LEMMA JoinsSame ==
    ASSUME NEW w, NEW x, NEW f, NEW g, Joins(w, f), Joins(x, g),
           NEW n \in Nat, n <= Len(w), n <= Len(x), Len(w) \in Nat, Len(x) \in Nat,
           SameTo(w, x, n)
    PROVE  SameTo(f, g, n)
<1> DEFINE Bad == {k \in 1..n : f[k] # g[k]}
<1>1. ASSUME NEW k \in Bad, \A j \in Bad : k <= j
      PROVE  FALSE
    <2>1. k \in 1..n /\ k \in 1..Len(w) /\ k \in 1..Len(x) /\ w[k] = x[k]
        BY DEF SameTo
    <2>2. CASE k = 1
        <3>1. f[k] = g[k]
            BY <2>1, <2>2, JoinsAt
        <3> QED
            BY <3>1
    <2>3. CASE k # 1
        <3>1. k-1 \in 1..n /\ ~(k <= k-1)
            BY <2>1, <2>3
        <3>2. f[k-1] = g[k-1]
            <4>1. k-1 \notin Bad
                <5> HIDE DEF Bad
                <5> QED
                    BY <1>1, <3>1
            <4> QED
                BY <3>1, <4>1
        <3>3. f[k] = g[k]
            BY <2>1, <2>3, <3>2, JoinsAt
        <3> QED
            BY <3>3
    <2> QED
        BY <2>2, <2>3
<1>2. Bad = {}
    <2>1. Bad \in SUBSET Nat
        OBVIOUS
    <2> HIDE DEF Bad
    <2> QED
        BY <1>1, <2>1, Least
<1> QED
    BY <1>2 DEF SameTo

LEMMA FlattenEmpty == FlattenSeq(<<>>) = <<>>
BY DEF FlattenSeq

\* The last sequence is joined last.
LEMMA FlattenAppend ==
    ASSUME NEW S, NEW w \in Seq(Seq(S)), NEW s \in Seq(S)
    PROVE  FlattenSeq(Append(w, s)) = FlattenSeq(w) \o s
<1> DEFINE x == Append(w, s)
           n == Len(w)
<1>1. /\ x \in Seq(Seq(S)) /\ n \in Nat /\ Len(x) = n + 1 /\ x[n+1] = s
      /\ \A k \in 1..n : x[k] = w[k]
    BY AppendProperties, LenProperties
<1> HIDE DEF x
<1> DEFINE g == CHOOSE g : Joins(x, g)
           f == CHOOSE f : Joins(w, f)
<1>2. Joins(x, g) /\ Joins(w, f)
    BY <1>1, JoinsExists
<1>3. FlattenSeq(x) = g[n+1]
    BY <1>1, FlattenJoins
<1>4. n # 0 => FlattenSeq(w) = f[n]
    BY FlattenJoins
<1> HIDE DEF f, g
<1>5. g[n+1] = IF n + 1 = 1 THEN s ELSE g[n+1-1] \o s
    <2>1. n+1 \in 1..Len(x)
        BY <1>1
    <2> QED
        BY <1>1, <1>2, <2>1, JoinsAt
<1>6. n # 0 => g[n] = f[n]
    <2>0. n <= Len(x) /\ n <= Len(w) /\ Len(x) \in Nat /\ Len(w) \in Nat
        BY <1>1
    <2>1. SameTo(x, w, n)
        BY <1>1 DEF SameTo
    <2>2. SameTo(g, f, n)
        <3> HIDE DEF n
        <3> QED
            BY <1>1, <1>2, <2>0, <2>1, JoinsSame
    <2> QED
        BY <1>1, <2>2 DEF SameTo
<1>7. n+1-1 = n /\ (n + 1 = 1 <=> n = 0)
    BY <1>1
<1>8. CASE n = 0
    <2>1. w = <<>>
        BY <1>8, EmptySeq
    <2>2. <<>> \o s = s
        BY ConcatEmptySeq
    <2>3. FlattenSeq(w) = <<>>
        BY <2>1, FlattenEmpty
    <2>4. FlattenSeq(x) = s
        BY <1>3, <1>5, <1>7, <1>8
    <2> QED
        BY <2>2, <2>3, <2>4 DEF x
<1>9. CASE n # 0
    BY <1>3, <1>4, <1>5, <1>6, <1>7, <1>9 DEF x
<1> QED
    BY <1>8, <1>9

\* What it joins are sequences, and so is the result.
LEMMA FlattenType ==
    ASSUME NEW S, NEW w \in Seq(Seq(S))
    PROVE  FlattenSeq(w) \in Seq(S)
<1> DEFINE f == CHOOSE f : Joins(w, f)
           Bad == {k \in 1..Len(w) : f[k] \notin Seq(S)}
<1>1. Len(w) \in Nat /\ Joins(w, f) /\ \A k \in 1..Len(w) : w[k] \in Seq(S)
    BY LenProperties, ElementOfSeq, JoinsExists
<1>2. Len(w) # 0 => FlattenSeq(w) = f[Len(w)]
    BY FlattenJoins
<1> HIDE DEF f
<1>3. ASSUME NEW k \in Bad, \A j \in Bad : k <= j
      PROVE  FALSE
    <2>1. k \in 1..Len(w) /\ w[k] \in Seq(S)
        BY <1>1
    <2>2. CASE k = 1
        <3>1. f[k] \in Seq(S)
            BY <1>1, <2>1, <2>2, JoinsAt
        <3> QED
            BY <3>1
    <2>3. CASE k # 1
        <3>1. k-1 \in 1..Len(w) /\ ~(k <= k-1)
            BY <1>1, <2>1, <2>3
        <3>2. f[k-1] \in Seq(S)
            <4>1. k-1 \notin Bad
                <5> HIDE DEF Bad
                <5> QED
                    BY <1>3, <3>1
            <4> QED
                BY <3>1, <4>1
        <3>3. f[k] = f[k-1] \o w[k]
            BY <1>1, <2>1, <2>3, JoinsAt
        <3>4. f[k] \in Seq(S)
            BY <2>1, <3>2, <3>3, ConcatProperties
        <3> QED
            BY <3>4
    <2> QED
        BY <2>2, <2>3
<1>4. Bad = {}
    <2>1. Bad \in SUBSET Nat
        BY <1>1
    <2> HIDE DEF Bad
    <2> QED
        BY <1>3, <2>1, Least
<1>5. CASE Len(w) = 0
    <2>1. w = <<>>
        BY <1>5, EmptySeq
    <2>2. <<>> \in Seq(S)
        OBVIOUS
    <2> QED
        BY <2>1, <2>2, FlattenEmpty
<1>6. CASE Len(w) # 0
    BY <1>1, <1>2, <1>4, <1>6
<1> QED
    BY <1>5, <1>6

-----------------------------------------------------------------------------
(* Chaos mode: types, and the trace of the injectors.                        *)

ShownIn(tr, f) == {k \in 1..Len(tr) : tr[k][2] = f}

Entries == (1..MaxTick) \X Failure

\* The threshold of an injector is the tick of its last entry in the trace.
ThresholdIs(tr, f, n) ==
    IF ShownIn(tr, f) = {} THEN n = 0
    ELSE \E k \in ShownIn(tr, f) : (\A j \in ShownIn(tr, f) : j <= k) /\ n = tr[k][1]

ChaosTypes ==
    /\ roll \in [1..MaxTick -> Failure \cup {"none"}]
    /\ active \in BOOLEAN /\ elapsed \in 0..MaxTick /\ duration \in 0..MaxTick
    /\ trace \in Seq(Entries) /\ runs \in Seq(0..MaxTick)
    /\ DOMAIN threshold = Counting
    /\ \A f \in Counting : ThresholdIs(trace, f, threshold[f])
    /\ partitioned => ShownIn(trace, "partition") # {}
    /\ count \in [Counting -> 0..MaxCalls]
    /\ call \in [Caller -> (Counting \X (1..MaxCalls) \X Period) \cup {<<>>}]
    /\ spared \in [Counting -> [Period -> Nat]] /\ resets \in [Counting -> Period]

LEMMA CountingFails == Counting \subseteq Failure /\ Counting = {"process_kill", "wal_corruption"}
BY DEF Counting, Failure

Adds(tr, e, x) == x = Append(tr, e)

LEMMA AddedEntry ==
    ASSUME NEW tr \in Seq(Entries), NEW e \in Entries, NEW x, Adds(tr, e, x)
    PROVE  /\ Len(tr) \in Nat /\ Len(x) = Len(tr) + 1 /\ x[Len(tr) + 1] = e
           /\ \A k \in 1..Len(tr) : x[k] = tr[k] /\ tr[k] \in Entries
<1>1. /\ Len(tr) \in Nat /\ Len(Append(tr, e)) = Len(tr) + 1
      /\ \A k \in 1..Len(tr) : Append(tr, e)[k] = tr[k] /\ tr[k] \in Entries
      /\ Append(tr, e)[Len(tr) + 1] = e
    BY AppendProperties, LenProperties, ElementOfSeq
<1> QED
    BY <1>1 DEF Adds

LEMMA ShownAdded ==
    ASSUME NEW tr \in Seq(Entries), NEW e \in Entries, NEW x, Adds(tr, e, x), NEW f
    PROVE  ShownIn(x, f) = IF e[2] = f THEN ShownIn(tr, f) \cup {Len(tr) + 1} ELSE ShownIn(tr, f)
<1>1. /\ Len(tr) \in Nat /\ Len(x) = Len(tr) + 1 /\ x[Len(tr) + 1] = e
      /\ \A k \in 1..Len(tr) : x[k] = tr[k]
    BY AddedEntry
<1>2. 1..(Len(tr) + 1) = (1..Len(tr)) \cup {Len(tr) + 1}
    BY <1>1
<1> QED
    BY <1>1, <1>2 DEF ShownIn

\* An entry of an injector sets its threshold, an entry of another leaves it.
LEMMA ThresholdSet ==
    ASSUME NEW tr \in Seq(Entries), NEW e \in Entries, NEW f, NEW n, ThresholdIs(tr, f, n),
           NEW x, Adds(tr, e, x)
    PROVE  ThresholdIs(x, f, IF e[2] = f THEN e[1] ELSE n)
<1> DEFINE n1 == Len(tr) + 1
<1>0. /\ Len(tr) \in Nat /\ x[n1] = e
      /\ \A k \in 1..Len(tr) : x[k] = tr[k]
    BY AddedEntry
<1>1. ShownIn(x, f) = IF e[2] = f THEN ShownIn(tr, f) \cup {n1} ELSE ShownIn(tr, f)
    BY ShownAdded
<1>2. \A k \in ShownIn(tr, f) : k \in 1..Len(tr)
    BY DEF ShownIn
<1>3. CASE e[2] = f
    <2>1. n1 \in ShownIn(x, f)
        BY <1>1, <1>3
    <2>2. \A j \in ShownIn(x, f) : j <= n1
        BY <1>0, <1>1, <1>2, <1>3
    <2> QED
        BY <1>0, <1>3, <2>1, <2>2 DEF ThresholdIs
<1>4. CASE e[2] # f
    <2>1. ShownIn(x, f) = ShownIn(tr, f)
        BY <1>1, <1>4
    <2>2. \A k \in ShownIn(tr, f) : x[k] = tr[k]
        BY <1>0, <1>2
    <2> QED
        BY <1>4, <2>1, <2>2 DEF ThresholdIs
<1> QED
    BY <1>3, <1>4

LEMMA ChaosStart == ChaosInit => ChaosTypes
<1> SUFFICES ASSUME ChaosInit PROVE ChaosTypes
    OBVIOUS
<1>1. \A f : ShownIn(<<>>, f) = {}
    BY DEF ShownIn
<1>2. \A f : ThresholdIs(<<>>, f, 0)
    BY <1>1 DEF ThresholdIs
<1>3. <<>> \in Seq(Entries) /\ <<>> \in Seq(0..MaxTick)
    OBVIOUS
<1>4. /\ 0 \in 0..MaxTick /\ MaxTick \in 0..MaxTick /\ 0 \in 0..MaxCalls /\ 0 \in Nat
      /\ 0 \in Period
    BY ChaosAssumption DEF Period
<1>5. \A f \in Counting : threshold[f] = 0
    BY DEF ChaosInit
<1> QED
    BY <1>2, <1>3, <1>4, <1>5 DEF ChaosInit, ChaosTypes

\* A tick of the mode records what it sets.
LEMMA TickKeepsTypes ==
    ASSUME ChaosTypes, Tick
    PROVE  ChaosTypes'
<1> DEFINE t == elapsed + 1
           f == Drawn(elapsed + 1)
<1>1. /\ t \in 1..MaxTick /\ elapsed' = t /\ t \in 0..MaxTick
      /\ UNCHANGED <<roll, active, duration, runs, count, call, spared, resets>>
    BY ChaosAssumption DEF Tick, ChaosTypes, calls
<1>2. f \in Failure \cup {"none"}
    BY <1>1 DEF Drawn, ChaosTypes
<1>3. CASE f = "none"
    BY <1>1, <1>3 DEF Tick, ChaosTypes, injectors
<1>4. CASE f # "none"
    <2> DEFINE e == <<t, f>>
    <2>1. e \in Entries /\ e[1] = t /\ e[2] = f
        BY <1>1, <1>2, <1>4 DEF Entries
    <2>2. /\ trace' = Append(trace, e)
          /\ threshold' = [j \in Counting |-> IF j = f THEN t ELSE threshold[j]]
          /\ partitioned' = (partitioned \/ f = "partition")
        BY <1>4 DEF Tick, Inject
    <2>0. Adds(trace, e, trace')
        BY <2>2 DEF Adds
    <2> HIDE DEF e, f, t
    <2>3. trace' \in Seq(Entries)
        BY <2>1, <2>2, AppendProperties DEF ChaosTypes
    <2>4. DOMAIN threshold' = Counting
        BY <2>2
    <2>5. \A j \in Counting : ThresholdIs(trace', j, threshold'[j])
        <3> SUFFICES ASSUME NEW j \in Counting
                     PROVE  ThresholdIs(trace', j, threshold'[j])
            OBVIOUS
        <3>1. threshold'[j] = IF e[2] = j THEN e[1] ELSE threshold[j]
            BY <2>1, <2>2
        <3> QED
            BY <2>0, <2>1, <3>1, ThresholdSet DEF ChaosTypes
    <2>6. partitioned' => ShownIn(trace', "partition") # {}
        <3> DEFINE g == "partition"
        <3>0. trace \in Seq(Entries)
            BY DEF ChaosTypes
        <3> HIDE DEF g
        <3>1. ShownIn(trace', g) =
                IF e[2] = g THEN ShownIn(trace, g) \cup {Len(trace) + 1} ELSE ShownIn(trace, g)
            BY <2>0, <2>1, <3>0, ShownAdded
        <3>2. ShownIn(trace, g) # {} \/ f = g => ShownIn(trace', g) # {}
            BY <2>1, <3>1
        <3> QED
            BY <2>2, <3>2 DEF ChaosTypes, g
    <2> QED
        BY <1>1, <2>3, <2>4, <2>5, <2>6 DEF ChaosTypes
<1> QED
    BY <1>3, <1>4

LEMMA ChaosKeepsTypes ==
    ASSUME ChaosTypes, [ChaosNext]_chaosVars
    PROVE  ChaosTypes'
<1>1. CASE Start
    <2>1. runs' \in Seq(0..MaxTick)
        BY <1>1, AppendProperties DEF Start, ChaosTypes
    <2>2. 0 \in 0..MaxTick
        BY ChaosAssumption
    <2> QED
        BY <1>1, <2>1, <2>2 DEF Start, ChaosTypes, injectors, calls
<1>2. CASE Stop
    BY <1>2 DEF Stop, ChaosTypes, injectors, calls
<1>3. CASE Tick
    BY <1>3, TickKeepsTypes
<1>4. CASE Heal
    BY <1>4 DEF Heal, ChaosTypes, mode, calls
<1>5. ASSUME NEW d \in 0..MaxTick, SetDuration(d)
      PROVE  ChaosTypes'
    BY <1>5 DEF SetDuration, ChaosTypes, injectors, calls
<1>6. ASSUME NEW c \in Caller, Judge(c)
      PROVE  ChaosTypes'
    <2>1. call[c][1] \in Counting /\ call[c][3] \in Period
        BY <1>6 DEF Judge, ChaosTypes
    <2>2. /\ call' \in [Caller -> (Counting \X (1..MaxCalls) \X Period) \cup {<<>>}]
          /\ spared' \in [Counting -> [Period -> Nat]]
        BY <1>6, <2>1 DEF Judge, Judged, ChaosTypes
    <2> QED
        BY <1>6, <2>2 DEF Judge, Judged, ChaosTypes, mode, injectors
<1>7. ASSUME NEW c \in Caller, NEW j \in Counting, Count(c, j)
      PROVE  ChaosTypes'
    <2>1. count[j] + 1 \in 1..MaxCalls /\ count[j] + 1 \in 0..MaxCalls
        BY <1>7, ChaosAssumption DEF Count, ChaosTypes
    <2>2. /\ call' \in [Caller -> (Counting \X (1..MaxCalls) \X Period) \cup {<<>>}]
          /\ count' \in [Counting -> 0..MaxCalls]
        BY <1>7, <2>1 DEF Count, ChaosTypes
    <2> QED
        BY <1>7, <2>2 DEF Count, ChaosTypes, mode, injectors
<1>8. ASSUME NEW j \in Counting, Reset(j)
      PROVE  ChaosTypes'
    <2>1. 0 \in 0..MaxCalls /\ resets[j] + 1 \in Period
        BY <1>8, ChaosAssumption DEF Reset, ChaosTypes, Period
    <2>2. count' \in [Counting -> 0..MaxCalls] /\ resets' \in [Counting -> Period]
        BY <1>8, <2>1 DEF Reset, ChaosTypes
    <2> QED
        BY <1>8, <2>2 DEF Reset, ChaosTypes, mode, injectors
<1>9. CASE UNCHANGED chaosVars
    BY <1>9 DEF chaosVars, mode, injectors, calls, ChaosTypes
<1> QED
    BY <1>1, <1>2, <1>3, <1>4, <1>5, <1>6, <1>7, <1>8, <1>9 DEF ChaosNext

THEOREM ChaosTypesAlways == ChaosSpec => []ChaosTypes
BY ChaosStart, ChaosKeepsTypes, PTL DEF ChaosSpec

\* The type invariant ChaosTypeOK: what the injectors are set to is what the
\* trace shows last, whatever was started, stopped and healed.
THEOREM InjectorsMatchTrace == ChaosSpec => []ChaosTypeOK
<1>1. ChaosTypes => ChaosTypeOK
    BY DEF ChaosTypes, ChaosTypeOK, ThresholdIs, Shown, ShownIn, Entries
<1> QED
    BY <1>1, ChaosTypesAlways, PTL

-----------------------------------------------------------------------------
(* The trace is a function of the seed.                                      *)

\* A sequence that has the elements of another and one more.
LEMMA AppendIs ==
    ASSUME NEW S, NEW w \in Seq(S), NEW p \in S, NEW x \in Seq(S), Len(x) = Len(w) + 1,
           x[Len(w) + 1] = p, \A k \in 1..Len(w) : x[k] = w[k]
    PROVE  Append(w, p) = x
<1> DEFINE y == Append(w, p)
<1>1. /\ y \in Seq(S) /\ Len(y) = Len(w) + 1 /\ y[Len(w) + 1] = p /\ Len(w) \in Nat
      /\ \A k \in 1..Len(w) : y[k] = w[k]
    BY AppendProperties, LenProperties
<1> HIDE DEF y
<1>2. \A k \in 1..Len(x) : x[k] = y[k]
    <2>1. \A k \in 1..Len(x) : k # Len(w) + 1 => k \in 1..Len(w)
        BY <1>1
    <2> QED
        BY <1>1, <2>1
<1>3. x = y
    BY <1>1, <1>2, SeqEqual
<1> QED
    BY <1>3 DEF y

PieceIn(r, t) == IF r[t] = "none" THEN <<>> ELSE <<<<t, r[t]>>>>
PiecesIn(r, n) == [t \in 1..n |-> PieceIn(r, t)]
TraceIn(r, n) == FlattenSeq(PiecesIn(r, n))
TracesIn(r, rs) == [k \in 1..Len(rs) |-> TraceIn(r, rs[k])]
RunsIn(r, rs) == FlattenSeq(TracesIn(r, rs))

Rolls == [1..MaxTick -> Failure \cup {"none"}]

LEMMA PieceType ==
    ASSUME NEW r \in Rolls, NEW t \in 1..MaxTick
    PROVE  PieceIn(r, t) \in Seq(Entries)
<1>1. CASE r[t] = "none"
    BY <1>1 DEF PieceIn
<1>2. CASE r[t] # "none"
    <2>1. <<t, r[t]>> \in Entries
        BY <1>2 DEF Rolls, Entries
    <2> HIDE DEF Entries
    <2>2. <<<<t, r[t]>>>> \in Seq(Entries)
        BY <2>1
    <2> QED
        BY <1>2, <2>2 DEF PieceIn
<1> QED
    BY <1>1, <1>2

LEMMA PiecesType ==
    ASSUME NEW r \in Rolls, NEW n \in 0..MaxTick
    PROVE  PiecesIn(r, n) \in Seq(Seq(Entries)) /\ Len(PiecesIn(r, n)) = n
<1>1. n \in Nat /\ \A t \in 1..n : t \in 1..MaxTick
    BY ChaosAssumption
<1>2. \A t \in 1..n : PieceIn(r, t) \in Seq(Entries)
    BY <1>1, PieceType
<1>3. PiecesIn(r, n) \in [1..n -> Seq(Entries)]
    BY <1>2 DEF PiecesIn
<1> QED
    BY <1>1, <1>3, SeqDef, LenProperties

LEMMA TraceInType ==
    ASSUME NEW r \in Rolls, NEW n \in 0..MaxTick
    PROVE  TraceIn(r, n) \in Seq(Entries)
BY PiecesType, FlattenType DEF TraceIn

LEMMA TraceInZero == ASSUME NEW r PROVE TraceIn(r, 0) = <<>>
<1>1. PiecesIn(r, 0) = <<>>
    BY DEF PiecesIn
<1> QED
    BY <1>1, FlattenEmpty DEF TraceIn

\* A run one tick longer has one entry more, or none.
LEMMA TraceInNext ==
    ASSUME NEW r \in Rolls, NEW n \in Nat, n < MaxTick
    PROVE  TraceIn(r, n+1) = TraceIn(r, n) \o PieceIn(r, n+1)
<1> DEFINE w == PiecesIn(r, n)
           p == PieceIn(r, n+1)
<1>1. n \in 0..MaxTick /\ n+1 \in 1..MaxTick
    BY ChaosAssumption
<1>2. w \in Seq(Seq(Entries)) /\ Len(w) = n /\ p \in Seq(Entries)
    BY <1>1, PiecesType, PieceType
<1>3. Append(w, p) = PiecesIn(r, n+1)
    <2> DEFINE x == PiecesIn(r, n+1)
    <2>1. n+1 \in 0..MaxTick
        BY <1>1
    <2>2. x \in Seq(Seq(Entries)) /\ Len(x) = n+1
        BY <2>1, PiecesType
    <2>3. x[n+1] = p /\ \A k \in 1..n : x[k] = w[k]
        BY DEF PiecesIn
    <2> HIDE DEF w, p, x
    <2>4. Append(w, p) = x
        BY <1>2, <2>2, <2>3, AppendIs
    <2> QED
        BY <2>4 DEF x
<1> HIDE DEF w, p
<1>4. FlattenSeq(Append(w, p)) = FlattenSeq(w) \o p
    BY <1>2, FlattenAppend
<1> QED
    BY <1>3, <1>4 DEF TraceIn, w, p

LEMMA TracesType ==
    ASSUME NEW r \in Rolls, NEW rs \in Seq(0..MaxTick)
    PROVE  TracesIn(r, rs) \in Seq(Seq(Entries)) /\ Len(TracesIn(r, rs)) = Len(rs)
<1>1. Len(rs) \in Nat /\ \A k \in 1..Len(rs) : rs[k] \in 0..MaxTick
    BY LenProperties, ElementOfSeq
<1>2. \A k \in 1..Len(rs) : TraceIn(r, rs[k]) \in Seq(Entries)
    BY <1>1, TraceInType
<1>3. TracesIn(r, rs) \in [1..Len(rs) -> Seq(Entries)]
    BY <1>2 DEF TracesIn
<1> QED
    BY <1>1, <1>3, SeqDef, LenProperties

LEMMA RunsInType ==
    ASSUME NEW r \in Rolls, NEW rs \in Seq(0..MaxTick)
    PROVE  RunsIn(r, rs) \in Seq(Entries)
BY TracesType, FlattenType DEF RunsIn

\* The run before is behind the earlier ones.
LEMMA RunsInNext ==
    ASSUME NEW r \in Rolls, NEW rs \in Seq(0..MaxTick), NEW n \in 0..MaxTick
    PROVE  RunsIn(r, Append(rs, n)) = RunsIn(r, rs) \o TraceIn(r, n)
<1> DEFINE w == TracesIn(r, rs)
           p == TraceIn(r, n)
           x == Append(rs, n)
           m == Len(rs)
<1>1. /\ w \in Seq(Seq(Entries)) /\ Len(w) = m /\ p \in Seq(Entries) /\ m \in Nat
      /\ Len(x) = m + 1 /\ x[m+1] = n /\ \A k \in 1..m : x[k] = rs[k]
    BY TracesType, TraceInType, AppendProperties, LenProperties
<1>2. Append(w, p) = TracesIn(r, x)
    <2> DEFINE y == TracesIn(r, x)
    <2>1. x \in Seq(0..MaxTick)
        BY AppendProperties
    <2> HIDE DEF x
    <2>2. y \in Seq(Seq(Entries)) /\ Len(y) = m + 1
        BY <1>1, <2>1, TracesType
    <2>3. m+1 \in 1..Len(x) /\ \A k \in 1..m : k \in 1..Len(x)
        BY <1>1
    <2>4. y[m+1] = p /\ \A k \in 1..m : y[k] = w[k]
        BY <1>1, <2>3 DEF TracesIn
    <2> HIDE DEF w, p, y
    <2>5. Append(w, p) = y
        BY <1>1, <2>2, <2>4, AppendIs
    <2> QED
        BY <2>5 DEF y
<1> HIDE DEF w, p, x
<1>3. FlattenSeq(Append(w, p)) = FlattenSeq(w) \o p
    BY <1>1, FlattenAppend
<1> QED
    BY <1>2, <1>3 DEF RunsIn, w, p, x

LEMMA RunsRepeatIs == RunsRepeat <=> trace = RunsIn(roll, runs) \o TraceIn(roll, elapsed)
<1>1. \A n : TraceOf(n) = TraceIn(roll, n)
    BY DEF TraceOf, TraceIn, PiecesIn, PieceIn
<1> QED
    BY <1>1 DEF RunsRepeat, RunsIn, TracesIn

\* "Injects failures deterministically using a fixed seed so every run is
\* reproducible": the trace is that of one run after the other, each with the
\* failures the seed gives from tick 1 on (invariant RunsRepeat).
THEOREM RunsAlwaysRepeat == ChaosSpec => []RunsRepeat
<1> DEFINE Same == trace = RunsIn(roll, runs) \o TraceIn(roll, elapsed)
<1>1. ChaosInit => Same
    <2> SUFFICES ASSUME ChaosInit PROVE Same
        OBVIOUS
    <2>1. TracesIn(roll, <<>>) = <<>>
        BY DEF TracesIn
    <2>2. RunsIn(roll, <<>>) = <<>> /\ TraceIn(roll, 0) = <<>>
        BY <2>1, FlattenEmpty, TraceInZero DEF RunsIn
    <2>3. <<>> \o <<>> = <<>>
        OBVIOUS
    <2> QED
        BY <2>2, <2>3 DEF ChaosInit
<1>2. ChaosTypes /\ Same /\ [ChaosNext]_chaosVars => Same'
    <2> SUFFICES ASSUME ChaosTypes, Same, [ChaosNext]_chaosVars
                 PROVE  trace' = RunsIn(roll', runs') \o TraceIn(roll', elapsed')
        OBVIOUS
    <2> DEFINE a == RunsIn(roll, runs)
               b == TraceIn(roll, elapsed)
    <2>1. /\ roll \in Rolls /\ runs \in Seq(0..MaxTick) /\ elapsed \in 0..MaxTick
          /\ a \in Seq(Entries) /\ b \in Seq(Entries) /\ trace = a \o b
        BY RunsInType, TraceInType DEF ChaosTypes, Rolls
    <2>2. CASE Start
        <3>1. /\ trace' = trace /\ roll' = roll
              /\ runs' = Append(runs, elapsed) /\ elapsed' = 0
            BY <2>2 DEF Start
        <3>2. RunsIn(roll, runs') = a \o b /\ TraceIn(roll, 0) = <<>>
            BY <2>1, <3>1, RunsInNext, TraceInZero
        <3>3. (a \o b) \in Seq(Entries)
            BY <2>1, ConcatProperties
        <3>4. (a \o b) \o <<>> = a \o b
            BY <3>3, ConcatEmptySeq
        <3> QED
            BY <2>1, <3>1, <3>2, <3>4
    <2>3. CASE Tick
        <3> DEFINE t == elapsed + 1
                   p == PieceIn(roll, t)
        <3>1. /\ elapsed \in Nat /\ elapsed < MaxTick /\ t \in 1..MaxTick
              /\ roll' = roll /\ runs' = runs /\ elapsed' = t
            BY <2>1, <2>3, ChaosAssumption DEF Tick, ChaosTypes
        <3>2. p \in Seq(Entries)
            BY <2>1, <3>1, PieceType
        <3>3. TraceIn(roll, t) = b \o p
            BY <2>1, <3>1, TraceInNext
        <3>4. trace' = trace \o p
            <4>1. CASE roll[t] = "none"
                <5>1. trace' = trace /\ p = <<>> /\ trace \in Seq(Entries)
                    BY <2>3, <4>1 DEF Tick, Drawn, PieceIn, ChaosTypes
                <5> QED
                    BY <5>1, ConcatEmptySeq
            <4>2. CASE roll[t] # "none"
                <5>1. trace' = Append(trace, <<t, roll[t]>>) /\ p = <<<<t, roll[t]>>>>
                    BY <2>3, <4>2 DEF Tick, Drawn, PieceIn
                <5>2. <<t, roll[t]>> \in Entries /\ trace \in Seq(Entries)
                    BY <2>1, <3>1, <4>2 DEF Entries, Rolls, ChaosTypes
                <5> QED
                    BY <5>1, <5>2, AppendIsConcat
            <4> QED
                BY <4>1, <4>2
        <3> HIDE DEF p, a, b, t
        <3>5. (a \o b) \o p = a \o (b \o p)
            <4>1. a \in Seq(Entries) /\ b \in Seq(Entries) /\ p \in Seq(Entries)
                BY <2>1, <3>2
            <4> QED
                BY ONLY <4>1, ConcatAssociative
        <3> QED
            BY <2>1, <3>1, <3>3, <3>4, <3>5 DEF a
    <2>4. CASE Stop \/ Heal \/ \E d \in 0..MaxTick : SetDuration(d)
        BY <2>4 DEF Stop, Heal, SetDuration, mode
    <2>5. ASSUME NEW c \in Caller, NEW j \in Counting, Judge(c) \/ Count(c, j) \/ Reset(j)
          PROVE  Same'
        BY <2>5 DEF Judge, Judged, Count, Reset, mode
    <2>6. CASE UNCHANGED chaosVars
        BY <2>6 DEF chaosVars, mode
    <2>7. Counting # {}
        BY DEF Counting
    <2> QED
        BY <2>2, <2>3, <2>4, <2>5, <2>6, <2>7 DEF ChaosNext, Judge, Judged, Reset, mode
<1>3. Same => RunsRepeat
    BY RunsRepeatIs
<1> QED
    BY <1>1, <1>2, <1>3, ChaosTypesAlways, PTL DEF ChaosSpec

-----------------------------------------------------------------------------
(* The calls that are spared.                                                *)

LEMMA MaxIs ==
    ASSUME NEW S \in SUBSET Nat, S # {}, NEW b \in Nat, \A s \in S : s <= b
    PROVE  Max(S) \in S /\ \A s \in S : s <= Max(S)
<1> DEFINE Below == {n \in Nat : \E s \in S : n = b - s}
<1>1. Below # {}
    <2>1. PICK s \in S : TRUE
        OBVIOUS
    <2>2. b - s \in Nat /\ s \in Nat
        BY <2>1
    <2> QED
        BY <2>2
<1>2. PICK n \in Below : \A m \in Below : n <= m
    <2>1. Below \in SUBSET Nat
        OBVIOUS
    <2> HIDE DEF Below
    <2> QED
        BY <1>1, <2>1, Least
<1>3. PICK s \in S : n = b - s
    OBVIOUS
<1>4. ASSUME NEW x \in S PROVE s >= x
    <2>1. b - x \in Below /\ x \in Nat /\ s \in Nat
        OBVIOUS
    <2>2. n <= b - x
        <3> HIDE DEF Below
        <3> QED
            BY <1>2, <2>1
    <2> QED
        BY <1>3, <2>1, <2>2
<1>5. Max(S) \in S /\ \A x \in S : Max(S) >= x
    BY <1>4 DEF Max
<1> QED
    BY <1>5

\* The latest tick at which a trace shows a failure, 0 before it shows one.
Ticks(tr, f) == {0} \cup {tr[k][1] : k \in ShownIn(tr, f)}
Latest(tr, f) == Max(Ticks(tr, f))

LEMMA LatestIs ==
    ASSUME NEW tr \in Seq(Entries), NEW f
    PROVE  /\ Latest(tr, f) \in Nat
           /\ Latest(tr, f) \in Ticks(tr, f)
           /\ \A t \in Ticks(tr, f) : t \in Nat /\ t <= Latest(tr, f)
<1>1. \A k \in ShownIn(tr, f) : tr[k][1] \in 1..MaxTick
    BY ElementOfSeq DEF ShownIn, Entries
<1>2. Ticks(tr, f) \in SUBSET Nat /\ Ticks(tr, f) # {} /\ \A t \in Ticks(tr, f) : t <= MaxTick
    BY <1>1, ChaosAssumption DEF Ticks
<1> HIDE DEF Ticks
<1>3. /\ Max(Ticks(tr, f)) \in Ticks(tr, f)
      /\ \A t \in Ticks(tr, f) : t <= Max(Ticks(tr, f))
    BY <1>2, MaxIs, ChaosAssumption
<1> QED
    BY <1>2, <1>3 DEF Latest

LEMMA LatestGrows ==
    ASSUME NEW tr \in Seq(Entries), NEW e \in Entries, NEW x, Adds(tr, e, x), NEW f
    PROVE  Latest(tr, f) <= Latest(x, f)
<1>1. x \in Seq(Entries)
    BY AppendProperties DEF Adds
<1>2. \A k \in ShownIn(tr, f) : k \in ShownIn(x, f) /\ x[k] = tr[k]
    BY ShownAdded, AddedEntry DEF ShownIn
<1>3. Ticks(tr, f) \subseteq Ticks(x, f)
    BY <1>2 DEF Ticks
<1>4. Latest(tr, f) \in Ticks(x, f)
    BY <1>3, LatestIs
<1> QED
    BY <1>1, <1>4, LatestIs

LEMMA ThresholdBelow ==
    ASSUME NEW tr \in Seq(Entries), NEW f, NEW n, ThresholdIs(tr, f, n)
    PROVE  n \in Nat /\ n <= Latest(tr, f)
<1>1. n \in Ticks(tr, f)
    BY DEF ThresholdIs, Ticks
<1> QED
    BY <1>1, LatestIs

\* The callers whose call of injector f, counted in period p, has number n, and
\* those with a number up to m.
InFlight(cl, f, p, n) == {c \in Caller : cl[c] = <<f, n, p>>}
Low(cl, f, p, m) ==
    {c \in Caller : cl[c] # <<>> /\ cl[c][1] = f /\ cl[c][2] <= m /\ cl[c][3] = p}

\* The numbers up to m that have not been given out, when g have.
Unused(g, m) == IF g < m THEN m - g ELSE 0

\* A number is given out at most once in a period.
Numbered(cl, g, f, p) ==
    \A n \in Nat : Cardinality(InFlight(cl, f, p, n)) <= (IF n <= g THEN 1 ELSE 0)

\* The calls of a period that were spared, those that may still be, and the
\* numbers left.
Budget(sp, cl, g, f, p, m) == sp + Cardinality(Low(cl, f, p, m)) + Unused(g, m) <= m

Calls == [Caller -> (Counting \X (1..MaxCalls) \X Period) \cup {<<>>}]

LEMMA CallersFinite ==
    ASSUME NEW cl, NEW f, NEW p, NEW n
    PROVE  /\ IsFiniteSet(InFlight(cl, f, p, n)) /\ Cardinality(InFlight(cl, f, p, n)) \in Nat
           /\ IsFiniteSet(Low(cl, f, p, n)) /\ Cardinality(Low(cl, f, p, n)) \in Nat
<1>1. InFlight(cl, f, p, n) \in SUBSET Caller /\ Low(cl, f, p, n) \in SUBSET Caller
    BY DEF InFlight, Low
<1> QED
    BY <1>1, FS_Subset, FS_CardinalityType, ChaosAssumption

\* A later tick allows one number more.
LEMMA BudgetNext ==
    ASSUME NEW cl \in Calls, NEW g \in Nat, NEW sp \in Nat, NEW f, NEW p,
           Numbered(cl, g, f, p), NEW m \in Nat, Budget(sp, cl, g, f, p, m)
    PROVE  Budget(sp, cl, g, f, p, m+1)
<1> DEFINE A == Low(cl, f, p, m)
           B == InFlight(cl, f, p, m+1)
           C == Low(cl, f, p, m+1)
<1>1. \A c \in Caller : cl[c] # <<>> => /\ cl[c] = <<cl[c][1], cl[c][2], cl[c][3]>>
                                       /\ cl[c][2] \in Nat
    BY DEF Calls
<1>2. C \subseteq A \cup B
    BY <1>1 DEF Low, InFlight
<1>3. /\ IsFiniteSet(A) /\ IsFiniteSet(B)
      /\ Cardinality(A) \in Nat /\ Cardinality(B) \in Nat /\ Cardinality(C) \in Nat
    BY CallersFinite
<1>4. Cardinality(C) <= Cardinality(A) + Cardinality(B)
    <2> HIDE DEF A, B, C
    <2>1. IsFiniteSet(A \cup B) /\ Cardinality(A \cup B) = Cardinality(A) + Cardinality(B)
                                        - Cardinality(A \cap B)
        BY <1>3, FS_Union
    <2>2. Cardinality(A \cap B) \in Nat
        BY <1>3, FS_Subset, FS_CardinalityType
    <2>3. Cardinality(C) <= Cardinality(A \cup B)
        BY <1>2, <2>1, FS_Subset
    <2> QED
        BY <1>3, <2>1, <2>2, <2>3
<1>5. Cardinality(B) <= (IF m+1 <= g THEN 1 ELSE 0)
    BY DEF Numbered
<1>6. /\ Unused(g, m+1) = Unused(g, m) + (IF m+1 <= g THEN 0 ELSE 1)
      /\ Unused(g, m) \in Nat
    BY DEF Unused
<1>7. sp + Cardinality(A) + Unused(g, m) <= m
    BY DEF Budget
<1> HIDE DEF A, B, C
<1>8. sp + Cardinality(C) + Unused(g, m+1) <= m+1
    BY <1>3, <1>4, <1>5, <1>6, <1>7
<1> QED
    BY <1>8 DEF Budget, C

LEMMA BudgetGrows ==
    ASSUME NEW cl \in Calls, NEW g \in Nat, NEW sp \in Nat, NEW f, NEW p,
           Numbered(cl, g, f, p), NEW m \in Nat, Budget(sp, cl, g, f, p, m),
           NEW n \in Nat, m <= n
    PROVE  Budget(sp, cl, g, f, p, n)
<1> DEFINE Bad == {j \in Nat : m <= j /\ ~Budget(sp, cl, g, f, p, j)}
<1>1. ASSUME NEW j \in Bad, \A h \in Bad : j <= h
      PROVE  FALSE
    <2>1. j \in Nat /\ m <= j /\ ~Budget(sp, cl, g, f, p, j) /\ j # m
        OBVIOUS
    <2>2. j-1 \in Nat /\ m <= j-1 /\ ~(j <= j-1) /\ (j-1)+1 = j
        BY <2>1
    <2>3. j-1 \notin Bad
        <3> HIDE DEF Bad
        <3> QED
            BY <1>1, <2>2
    <2>4. Budget(sp, cl, g, f, p, j-1)
        BY <2>2, <2>3
    <2>5. Budget(sp, cl, g, f, p, (j-1)+1)
        BY <2>2, <2>4, BudgetNext
    <2> QED
        BY <2>1, <2>2, <2>5
<1>2. Bad = {}
    <2>1. Bad \in SUBSET Nat
        OBVIOUS
    <2> HIDE DEF Bad
    <2> QED
        BY <1>1, <2>1, Least
<1> QED
    BY <1>2

\* In the present period the numbers up to the counter have been given out, in a
\* later one none, and in an earlier one as many as there were when it ended.
Given(f, p, g) ==
    /\ p = resets[f] => g = count[f]
    /\ p > resets[f] => g = 0

SparedInv ==
    \A f \in Counting : \A p \in Period : \E g \in Nat :
        /\ Given(f, p, g)
        /\ Numbered(call, g, f, p)
        /\ Budget(spared[f][p], call, g, f, p, Latest(trace, f))

LEMMA SparedStart == ChaosInit => SparedInv
<1> SUFFICES ASSUME ChaosInit, NEW f \in Counting, NEW p \in Period
             PROVE  /\ Given(f, p, 0)
                    /\ Numbered(call, 0, f, p)
                    /\ Budget(0, call, 0, f, p, Latest(<<>>, f))
    BY DEF ChaosInit, SparedInv
<1>1. \A n \in Nat : InFlight(call, f, p, n) = {} /\ Low(call, f, p, n) = {}
    BY DEF ChaosInit, InFlight, Low
<1>2. \A n \in Nat : /\ Cardinality(InFlight(call, f, p, n)) = 0
                     /\ Cardinality(Low(call, f, p, n)) = 0
    BY <1>1, FS_EmptySet
<1>3. Latest(<<>>, f) = 0
    <2>1. <<>> \in Seq(Entries)
        OBVIOUS
    <2>2. Ticks(<<>>, f) = {0}
        BY DEF Ticks, ShownIn
    <2> QED
        BY <2>1, <2>2, LatestIs
<1>4. Given(f, p, 0)
    BY DEF ChaosInit, Given
<1> QED
    BY <1>2, <1>3, <1>4 DEF Numbered, Budget, Unused

\* What a step sees of injector f in period p.
LEMMA SparedOf ==
    ASSUME ChaosTypes, SparedInv, NEW f \in Counting, NEW p \in Period
    PROVE  /\ call \in Calls /\ trace \in Seq(Entries)
           /\ p \in Nat /\ resets[f] \in Nat /\ count[f] \in Nat
           /\ spared[f][p] \in Nat /\ Latest(trace, f) \in Nat
           /\ \E g \in Nat : /\ Given(f, p, g)
                             /\ Numbered(call, g, f, p)
                             /\ Budget(spared[f][p], call, g, f, p, Latest(trace, f))
BY LatestIs, ChaosAssumption DEF ChaosTypes, SparedInv, Calls, Period

\* The number a call is given was not in use in this period.
LEMMA CountKeeps ==
    ASSUME ChaosTypes, SparedInv, NEW c \in Caller, NEW j \in Counting, Count(c, j)
    PROVE  SparedInv'
<1> DEFINE r0 == resets[j]
<1>0. PICK n0 \in Nat : n0 = count[j] + 1
    BY DEF ChaosTypes
<1>1. /\ call[c] = <<>> /\ call' = [call EXCEPT ![c] = <<j, n0, r0>>]
      /\ count' = [count EXCEPT ![j] = n0] /\ count \in [Counting -> 0..MaxCalls]
      /\ spared' = spared /\ resets' = resets /\ trace' = trace
      /\ n0 \in Nat /\ r0 \in Period
    BY <1>0, ChaosAssumption DEF Count, ChaosTypes, mode
<1> SUFFICES ASSUME NEW f \in Counting, NEW p \in Period
             PROVE  \E g \in Nat : /\ Given(f, p, g)'
                                   /\ Numbered(call', g, f, p)
                                   /\ Budget(spared[f][p], call', g, f, p, Latest(trace, f))
    BY <1>1 DEF SparedInv
<1> DEFINE m == Latest(trace, f)
<1>2. PICK g \in Nat : /\ Given(f, p, g)
                       /\ Numbered(call, g, f, p)
                       /\ Budget(spared[f][p], call, g, f, p, m)
    BY SparedOf
<1>3. /\ call \in Calls /\ m \in Nat /\ spared[f][p] \in Nat
      /\ p \in Nat /\ resets[f] \in Nat /\ count[f] \in Nat
    BY SparedOf
<1> HIDE DEF r0, m
<1>4. CASE ~(f = j /\ p = r0)
    <2>1. \A n \in Nat : InFlight(call', f, p, n) = InFlight(call, f, p, n)
        BY <1>1, <1>3, <1>4 DEF InFlight, Calls
    <2>2. Low(call', f, p, m) = Low(call, f, p, m)
        BY <1>1, <1>3, <1>4 DEF Low, Calls
    <2>3. Numbered(call', g, f, p)
        BY <1>2, <2>1 DEF Numbered
    <2>4. Budget(spared[f][p], call', g, f, p, m)
        BY <1>2, <2>2 DEF Budget
    <2>5. Given(f, p, g)'
        BY <1>1, <1>2, <1>4 DEF Given, r0
    <2> QED
        BY <2>3, <2>4, <2>5 DEF m
<1>5. CASE f = j /\ p = r0
    <2>0. g = count[f] /\ n0 = g + 1
        BY <1>0, <1>2, <1>5 DEF Given, r0
    <2>1. \A n \in Nat : InFlight(call', f, p, n) =
                IF n = n0 THEN InFlight(call, f, p, n) \cup {c} ELSE InFlight(call, f, p, n)
        BY <1>1, <1>3, <1>5 DEF InFlight, Calls
    <2>2. Low(call', f, p, m) = IF n0 <= m THEN Low(call, f, p, m) \cup {c}
                                           ELSE Low(call, f, p, m)
        BY <1>1, <1>3, <1>5 DEF Low, Calls
    <2>3. c \notin Low(call, f, p, m)
        BY <1>1 DEF Low
    <2>4. Cardinality(Low(call', f, p, m)) =
                Cardinality(Low(call, f, p, m)) + (IF n0 <= m THEN 1 ELSE 0)
        <3> DEFINE A == Low(call, f, p, m)
        <3>1. IsFiniteSet(A) /\ Cardinality(A) \in Nat
            BY CallersFinite
        <3> HIDE DEF A
        <3>2. Cardinality(A \cup {c}) = IF c \in A THEN Cardinality(A) ELSE Cardinality(A) + 1
            BY <3>1, FS_AddElement
        <3>3. Cardinality(A) + 0 = Cardinality(A)
            BY <3>1
        <3> QED
            BY <2>2, <2>3, <3>2, <3>3 DEF A
    <2>5. ASSUME NEW n \in Nat
          PROVE  Cardinality(InFlight(call', f, p, n)) <= (IF n <= n0 THEN 1 ELSE 0)
        <3> DEFINE A == InFlight(call, f, p, n)
        <3>1. /\ IsFiniteSet(A) /\ Cardinality(A) \in Nat
              /\ Cardinality(A) <= (IF n <= g THEN 1 ELSE 0)
            BY <1>2, CallersFinite DEF Numbered
        <3>2. InFlight(call', f, p, n) = IF n = n0 THEN A \cup {c} ELSE A
            BY <2>1
        <3> HIDE DEF A
        <3>3. Cardinality(A \cup {c}) = IF c \in A THEN Cardinality(A) ELSE Cardinality(A) + 1
            BY <3>1, FS_AddElement
        <3>4. CASE n = n0
            <4>1. g \in Nat /\ ~(n <= g) /\ n <= n0
                BY <1>1, <1>2, <2>0, <3>4
            <4>2. Cardinality(A) = 0
                BY <3>1, <4>1
            <4>3. Cardinality(A \cup {c}) <= 1
                BY <3>3, <4>2
            <4> QED
                BY <3>2, <3>4, <4>1, <4>3
        <3>5. CASE n # n0
            BY <1>1, <2>0, <3>1, <3>2, <3>5
        <3> QED
            BY <3>4, <3>5
    <2>6. Unused(n0, m) + (IF n0 <= m THEN 1 ELSE 0) = Unused(g, m)
        BY <1>3, <2>0 DEF Unused
    <2>7. Numbered(call', n0, f, p)
        BY <2>5 DEF Numbered
    <2>8. Budget(spared[f][p], call', n0, f, p, m)
        <3>1. /\ Cardinality(Low(call, f, p, m)) \in Nat /\ Unused(n0, m) \in Nat
            BY <1>1, <1>3, CallersFinite DEF Unused
        <3>2. spared[f][p] + Cardinality(Low(call, f, p, m)) + Unused(g, m) <= m
            BY <1>2 DEF Budget
        <3>3. spared[f][p] + Cardinality(Low(call', f, p, m)) + Unused(n0, m) <= m
            BY <1>3, <2>4, <2>6, <3>1, <3>2
        <3> QED
            BY <3>3 DEF Budget
    <2>9. Given(f, p, n0)'
        <3>1. p \in Nat /\ resets'[f] = p /\ ~(p > p)
            BY <1>1, <1>3, <1>5 DEF r0
        <3>2. count'[f] = n0
            BY <1>1, <1>5
        <3> QED
            BY <3>1, <3>2 DEF Given
    <2> QED
        BY <2>7, <2>8, <2>9 DEF m
<1> QED
    BY <1>4, <1>5

\* A call that is spared had a number up to the threshold, which is up to the
\* latest tick; it is spared in the period in which it was counted.
LEMMA JudgeKeeps ==
    ASSUME ChaosTypes, SparedInv, NEW c \in Caller, Judge(c)
    PROVE  SparedInv'
<1> DEFINE j == call[c][1]
           n0 == call[c][2]
           r0 == call[c][3]
<1>1. /\ call[c] = <<j, n0, r0>> /\ j \in Counting /\ n0 \in Nat /\ r0 \in Period
      /\ call[c] # <<>> /\ call' = [call EXCEPT ![c] = <<>>]
      /\ spared' = [spared EXCEPT ![j][r0] = IF n0 > threshold[j] THEN @ ELSE @ + 1]
      /\ spared \in [Counting -> [Period -> Nat]]
      /\ count' = count /\ resets' = resets /\ trace' = trace
    BY ChaosAssumption DEF Judge, Judged, ChaosTypes, mode
<1> SUFFICES ASSUME NEW f \in Counting, NEW p \in Period
             PROVE  \E g \in Nat : /\ Given(f, p, g)
                                   /\ Numbered(call', g, f, p)
                                   /\ Budget(spared'[f][p], call', g, f, p, Latest(trace, f))
    BY <1>1 DEF SparedInv, Given
<1> DEFINE m == Latest(trace, f)
<1>2. PICK g \in Nat : /\ Given(f, p, g)
                       /\ Numbered(call, g, f, p)
                       /\ Budget(spared[f][p], call, g, f, p, m)
    BY SparedOf
<1>3. call \in Calls /\ m \in Nat /\ spared[f][p] \in Nat
    BY SparedOf
<1>4. /\ threshold[f] \in Nat /\ threshold[f] <= m
      /\ spared'[f][p] = IF f = j /\ p = r0 /\ ~(n0 > threshold[f])
                         THEN spared[f][p] + 1 ELSE spared[f][p]
    BY <1>1, ThresholdBelow DEF ChaosTypes
<1> HIDE DEF n0, m, j, r0
<1>5. Numbered(call', g, f, p)
    <2> SUFFICES ASSUME NEW n \in Nat
                 PROVE  Cardinality(InFlight(call', f, p, n)) <= (IF n <= g THEN 1 ELSE 0)
        BY DEF Numbered
    <2>1. InFlight(call', f, p, n) \subseteq InFlight(call, f, p, n)
        BY <1>1, <1>3 DEF InFlight, Calls
    <2>2. /\ Cardinality(InFlight(call', f, p, n)) <= Cardinality(InFlight(call, f, p, n))
          /\ Cardinality(InFlight(call', f, p, n)) \in Nat
          /\ Cardinality(InFlight(call, f, p, n)) \in Nat
        BY <2>1, CallersFinite, FS_Subset
    <2> QED
        BY <1>2, <2>2 DEF Numbered
<1>6. Low(call', f, p, m) = Low(call, f, p, m) \ {c}
    BY <1>1, <1>3 DEF Low, Calls
<1>7. c \in Low(call, f, p, m) <=> f = j /\ p = r0 /\ n0 <= m
    BY <1>1 DEF Low, n0, j, r0
<1>8. Cardinality(Low(call', f, p, m)) =
            IF f = j /\ p = r0 /\ n0 <= m THEN Cardinality(Low(call, f, p, m)) - 1
                                          ELSE Cardinality(Low(call, f, p, m))
    <2> DEFINE A == Low(call, f, p, m)
    <2>1. IsFiniteSet(A)
        BY CallersFinite
    <2> HIDE DEF A
    <2>2. Cardinality(A \ {c}) = IF c \in A THEN Cardinality(A) - 1 ELSE Cardinality(A)
        BY <2>1, FS_RemoveElement
    <2> QED
        BY <1>6, <1>7, <2>2 DEF A
<1>9. Budget(spared'[f][p], call', g, f, p, m)
    <2>1. /\ Cardinality(Low(call, f, p, m)) \in Nat
          /\ Cardinality(Low(call', f, p, m)) \in Nat
          /\ Unused(g, m) \in Nat /\ spared'[f][p] \in Nat
          /\ ~(n0 > threshold[f]) => n0 <= m
        BY <1>1, <1>3, <1>4, CallersFinite DEF Unused
    <2>2. spared[f][p] + Cardinality(Low(call, f, p, m)) + Unused(g, m) <= m
        BY <1>2 DEF Budget
    <2>3. spared'[f][p] + Cardinality(Low(call', f, p, m)) + Unused(g, m) <= m
        BY <1>3, <1>4, <1>8, <2>1, <2>2
    <2> QED
        BY <2>3 DEF Budget
<1> QED
    BY <1>2, <1>5, <1>9 DEF m

\* Reset ends a period; in the next one no number has been given out.
LEMMA ResetKeeps ==
    ASSUME ChaosTypes, SparedInv, NEW j \in Counting, Reset(j)
    PROVE  SparedInv'
<1>1. /\ count' = [count EXCEPT ![j] = 0] /\ resets' = [resets EXCEPT ![j] = @ + 1]
      /\ count \in [Counting -> 0..MaxCalls] /\ resets \in [Counting -> Period]
      /\ call' = call /\ spared' = spared /\ trace' = trace
    BY DEF Reset, ChaosTypes, mode
<1>2. ASSUME NEW f \in Counting, NEW p \in Period, NEW g \in Nat, Given(f, p, g)
      PROVE  Given(f, p, g)'
    <2>1. p \in Nat /\ resets[f] \in Nat
        BY <1>1, ChaosAssumption DEF Period
    <2> QED
        BY <1>1, <1>2, <2>1 DEF Given
<1> QED
    BY <1>1, <1>2 DEF SparedInv

\* A tick may raise the latest tick.
LEMMA TickKeeps ==
    ASSUME ChaosTypes, SparedInv, Tick
    PROVE  SparedInv'
<1>1. /\ call' = call /\ spared' = spared /\ count' = count /\ resets' = resets
      /\ call \in Calls /\ trace \in Seq(Entries)
    BY DEF Tick, calls, ChaosTypes, Calls
<1>2. \A f \in Counting : Latest(trace', f) \in Nat /\ Latest(trace, f) <= Latest(trace', f)
    <2> DEFINE t == elapsed + 1
               e == <<t, Drawn(t)>>
    <2>1. CASE Drawn(t) = "none"
        <3>1. trace' = trace
            BY <2>1 DEF Tick
        <3> QED
            BY <1>1, <3>1, LatestIs
    <2>2. CASE Drawn(t) # "none"
        <3>1. t \in 1..MaxTick /\ Drawn(t) \in Failure \cup {"none"}
            BY ChaosAssumption DEF Tick, ChaosTypes, Drawn
        <3>2. e \in Entries /\ Adds(trace, e, trace')
            BY <2>2, <3>1 DEF Tick, Entries, Adds
        <3>3. trace' \in Seq(Entries)
            BY <1>1, <3>2, AppendProperties DEF Adds
        <3> HIDE DEF e
        <3> QED
            BY <1>1, <3>2, <3>3, LatestGrows, LatestIs
    <2> QED
        BY <2>1, <2>2
<1> SUFFICES ASSUME NEW f \in Counting, NEW p \in Period
             PROVE  \E g \in Nat : /\ Given(f, p, g)
                                   /\ Numbered(call, g, f, p)
                                   /\ Budget(spared[f][p], call, g, f, p, Latest(trace', f))
    BY <1>1 DEF SparedInv, Given
<1>3. PICK g \in Nat : /\ Given(f, p, g)
                       /\ Numbered(call, g, f, p)
                       /\ Budget(spared[f][p], call, g, f, p, Latest(trace, f))
    BY SparedOf
<1>4. spared[f][p] \in Nat /\ Latest(trace, f) \in Nat
    BY SparedOf
<1> QED
    BY <1>1, <1>2, <1>3, <1>4, BudgetGrows

\* Of the calls counted between two Resets, no more are spared than the latest
\* tick at which the trace shows the injector, however the calls overlap and
\* whenever they are judged (invariant SparedBounded).
THEOREM SparedAlwaysBounded == ChaosSpec => []SparedBounded
<1>1. ChaosTypes /\ SparedInv /\ [ChaosNext]_chaosVars => SparedInv'
    <2> SUFFICES ASSUME ChaosTypes, SparedInv, [ChaosNext]_chaosVars
                 PROVE  SparedInv'
        OBVIOUS
    <2>1. CASE UNCHANGED <<trace, call, count, spared, resets>>
        BY <2>1 DEF SparedInv, Given
    <2>2. Start \/ Stop \/ Heal \/ (\E d \in 0..MaxTick : SetDuration(d)) \/ UNCHANGED chaosVars
            => UNCHANGED <<trace, call, count, spared, resets>>
        BY DEF Start, Stop, Heal, SetDuration, chaosVars, mode, calls
    <2> QED
        BY <2>1, <2>2, TickKeeps, JudgeKeeps, CountKeeps, ResetKeeps DEF ChaosNext
<1>2. ChaosTypes /\ SparedInv => SparedBounded
    <2> SUFFICES ASSUME ChaosTypes, SparedInv, NEW f \in Counting, NEW p \in Period
                 PROVE  spared[f][p] <= Max({0} \cup {trace[k][1] : k \in Shown(f)})
        BY DEF SparedBounded
    <2> DEFINE m == Latest(trace, f)
    <2>1. m = Max({0} \cup {trace[k][1] : k \in Shown(f)})
        BY DEF Latest, Ticks, Shown, ShownIn
    <2>2. PICK g \in Nat : Budget(spared[f][p], call, g, f, p, m)
        BY SparedOf
    <2>3. /\ spared[f][p] \in Nat /\ m \in Nat
          /\ Cardinality(Low(call, f, p, m)) \in Nat /\ Unused(g, m) \in Nat
        BY SparedOf, CallersFinite DEF Unused
    <2>4. spared[f][p] + Cardinality(Low(call, f, p, m)) + Unused(g, m) <= m
        BY <2>2 DEF Budget
    <2> HIDE DEF m
    <2>5. spared[f][p] <= m
        BY <2>3, <2>4
    <2> QED
        BY <2>1, <2>5
<1> QED
    BY <1>1, <1>2, SparedStart, ChaosTypesAlways, PTL DEF ChaosSpec
=============================================================================
