----------------------------- MODULE WALProofs -----------------------------
(***************************************************************************)
(* What the write-ahead log keeps, for any entries of any lengths, any     *)
(* lengths of header and chunk, and any sequence of torn writes, failed    *)
(* syncs, failed reads and crashes.                                        *)
(*                                                                         *)
(* Parsed and StopAt are recursions over the cells of the file.  They are  *)
(* first shown to exist and said by positions (Chain, Complete), each time *)
(* by taking the least place where the claim would fail; from there on     *)
(* only three facts about files matter: a file in which less is intact has *)
(* a prefix of the log (LessIntactIsPrefix), a whole entry at the end of a *)
(* clean file is the next of the log (WholeIsNext), and a torn one, or any *)
(* behind a residue, is nothing (TornIsNothing, NothingBehindResidue).     *)
(***************************************************************************)
EXTENDS WAL, SequenceTheorems, WellFoundedInduction, TLAPS

-----------------------------------------------------------------------------
(* Induction: a set of naturals that is not empty has a least member.        *)

LessNat == {ss \in Nat \X Nat : ss[1] < ss[2]}

LEMMA LessWF == IsWellFoundedOn(LessNat, Nat)
<1>1. OpToRel(<, Nat) = LessNat
    BY DEF OpToRel, LessNat
<1> QED
    BY <1>1, NatLessThanWellFounded

LEMMA Least ==
    ASSUME NEW S \in SUBSET Nat, S # {}
    PROVE  \E m \in S : \A n \in S : m <= n
<1>1. PICK x \in S : \A y \in S : ~(<<y, x>> \in LessNat)
    BY WFMin, LessWF
<1>2. \A y \in S : <<y, x>> \in Nat \X Nat
    OBVIOUS
<1>3. \A y \in S : ~(y < x)
    BY <1>1, <1>2 DEF LessNat
<1> QED
    BY <1>3

-----------------------------------------------------------------------------
(* What Recover decodes, said by positions: from p on, chain s, q decodes    *)
(* entry s[k] at position q[k-1] of f, and the next at q[k].                 *)

Chain(f, p, s, q) ==
    /\ s \in Seq(Entry)
    /\ q \in [0..Len(s) -> Nat]
    /\ q[0] = p
    /\ \A k \in 1..Len(s) : /\ IntactAt(f, q[k-1], s[k])
                            /\ q[k] = q[k-1] + Size[s[k]]

\* Nothing intact follows.
Complete(f, p, s, q) ==
    /\ Chain(f, p, s, q)
    /\ \A e \in Entry : ~IntactAt(f, q[Len(s)], e)

\* What is intact in g is so in f.
NoMoreIntact(g, f) == \A p \in Nat \ {0}, e \in Entry : IntactAt(g, p, e) => IntactAt(f, p, e)

LEMMA SizeNat == \A e \in Entry : Size[e] \in Nat /\ Size[e] > 0
BY WALAssumption

\* Only one entry can stand at a position.
LEMMA IntactUnique ==
    ASSUME NEW f, NEW p \in Nat, NEW e \in Entry, NEW x \in Entry,
           IntactAt(f, p, e), IntactAt(f, p, x)
    PROVE  e = x
<1>1. f[p + 1 - 1] = <<e, 1>> /\ f[p + 1 - 1] = <<x, 1>>
    BY SizeNat DEF IntactAt
<1> QED
    BY <1>1

\* The recursion of Parsed from position p on.
FromEq(f, d, from) ==
    from = [p \in d |->
            IF \E e \in Entry : IntactAt(f, p, e)
            THEN LET e == CHOOSE e \in Entry : IntactAt(f, p, e)
                 IN  <<e>> \o from[p + Size[e]]
            ELSE <<>>]

LEMMA ParsedIsFrom ==
    ASSUME NEW f
    PROVE  Parsed(f) = (CHOOSE from : FromEq(f, 1..(Len(f)+1), from))[1]
BY DEF Parsed, FromEq

\* An entry that is intact at p lies in the file and the next position does too.
LEMMA IntactInFile ==
    ASSUME NEW f \in Seq(Cell), NEW p \in Nat, p >= 1, NEW e \in Entry, IntactAt(f, p, e)
    PROVE  p <= Len(f) /\ p + Size[e] \in (p+1)..(Len(f)+1)
BY SizeNat, LenProperties DEF IntactAt

\* The recursive function that Parsed names exists.
LEMMA FromExists ==
    ASSUME NEW f \in Seq(Cell)
    PROVE  \E from : FromEq(f, 1..(Len(f)+1), from)
<1> DEFINE N == Len(f)
           D(n) == (N + 1 - n)..(N + 1)
           Bad == {n \in 0..N : ~\E g : FromEq(f, D(n), g)}
<1>1. N \in Nat
    BY LenProperties
<1>2. 0 \notin Bad
    <2> DEFINE g == [p \in D(0) |-> <<>>]
    <2>1. D(0) = {N + 1}
        BY <1>1
    <2>2. ~\E e \in Entry : IntactAt(f, N + 1, e)
        BY <1>1, IntactInFile
    <2>3. FromEq(f, D(0), g)
        BY <2>1, <2>2 DEF FromEq
    <2> QED
        BY <2>3
<1>3. ASSUME NEW n \in 1..N, n - 1 \notin Bad
      PROVE  n \notin Bad
    <2>1. PICK h : FromEq(f, D(n-1), h)
        BY <1>1, <1>3
    <2> DEFINE p0 == N + 1 - n
               e0 == CHOOSE e \in Entry : IntactAt(f, p0, e)
               top == IF \E e \in Entry : IntactAt(f, p0, e)
                      THEN <<e0>> \o h[p0 + Size[e0]] ELSE <<>>
               g == [p \in D(n) |-> IF p = p0 THEN top ELSE h[p]]
    <2>2. \A p \in D(n) : p = p0 \/ p \in D(n-1)
        BY <1>1
    <2>3. ASSUME NEW p \in D(n), NEW e \in Entry, IntactAt(f, p, e)
          PROVE  p + Size[e] \in D(n-1) /\ p + Size[e] \in D(n) /\ p + Size[e] # p0
        BY <1>1, <2>3, IntactInFile
    <2>4. \A p \in D(n) : g[p] =
            IF \E e \in Entry : IntactAt(f, p, e)
            THEN LET e == CHOOSE e \in Entry : IntactAt(f, p, e)
                 IN  <<e>> \o g[p + Size[e]]
            ELSE <<>>
        <3> SUFFICES ASSUME NEW p \in D(n)
                     PROVE g[p] =
                        IF \E e \in Entry : IntactAt(f, p, e)
                        THEN LET e == CHOOSE e \in Entry : IntactAt(f, p, e)
                             IN  <<e>> \o g[p + Size[e]]
                        ELSE <<>>
            OBVIOUS
        <3> DEFINE c == CHOOSE e \in Entry : IntactAt(f, p, e)
        <3>1. CASE \E e \in Entry : IntactAt(f, p, e)
            <4>1. c \in Entry /\ IntactAt(f, p, c)
                BY <3>1
            <4>2. g[p + Size[c]] = h[p + Size[c]]
                BY <2>3, <4>1
            <4>3. g[p] = <<c>> \o h[p + Size[c]]
                <5>1. CASE p = p0
                    BY <5>1, <3>1
                <5>2. CASE p # p0
                    BY <5>2, <3>1, <2>1, <2>2 DEF FromEq
                <5> QED
                    BY <5>1, <5>2
            <4> QED
                BY <3>1, <4>2, <4>3
        <3>2. CASE ~\E e \in Entry : IntactAt(f, p, e)
            <4>1. CASE p = p0
                BY <4>1, <3>2
            <4>2. CASE p # p0
                BY <4>2, <3>2, <2>1, <2>2 DEF FromEq
            <4> QED
                BY <4>1, <4>2, <3>2
        <3> QED
            BY <3>1, <3>2
    <2>5. FromEq(f, D(n), g)
        BY <2>4 DEF FromEq
    <2> QED
        BY <2>5
<1>4. Bad = {}
    <2> SUFFICES ASSUME Bad # {} PROVE FALSE
        OBVIOUS
    <2>1. Bad \in SUBSET Nat
        BY <1>1
    <2>2. PICK m \in Bad : \A n \in Bad : m <= n
        BY <2>1, Least
    <2>3. m \in 0..N /\ m # 0
        BY <1>2, <2>2
    <2>4. m \in 1..N /\ ~(m <= m - 1)
        BY <1>1, <2>3
    <2>5. m - 1 \notin Bad
        <3> HIDE DEF Bad
        <3> QED
            BY <2>2, <2>4
    <2> QED
        BY <1>3, <2>2, <2>4, <2>5
<1>5. N \notin Bad /\ D(N) = 1..(N + 1)
    BY <1>1, <1>4
<1> QED
    BY <1>1, <1>5

\* From every position the recursion decodes a chain that nothing intact follows.
LEMMA FromComplete ==
    ASSUME NEW f \in Seq(Cell), NEW from, FromEq(f, 1..(Len(f)+1), from)
    PROVE  \E q : Complete(f, 1, from[1], q)
<1> DEFINE N == Len(f)
           Bad == {n \in 0..N : ~\E q : Complete(f, N + 1 - n, from[N + 1 - n], q)}
<1>1. N \in Nat
    BY LenProperties
<1>2. ASSUME NEW m \in 0..N, \A n \in 0..(m-1) : n \notin Bad
      PROVE  m \notin Bad
    <2> DEFINE p == N + 1 - m
    <2>1. p \in 1..(N+1)
        BY <1>1
    <2>2. CASE ~\E e \in Entry : IntactAt(f, p, e)
        <3> DEFINE q == [k \in 0..0 |-> p]
        <3>1. from[p] = <<>>
            BY <2>1, <2>2 DEF FromEq
        <3>2. Complete(f, p, <<>>, q)
            BY <2>1, <2>2 DEF Complete, Chain
        <3> QED
            BY <3>1, <3>2
    <2>3. CASE \E e \in Entry : IntactAt(f, p, e)
        <3> DEFINE c  == CHOOSE e \in Entry : IntactAt(f, p, e)
                   p2 == p + Size[c]
                   n2 == N + 1 - p2
        <3>1. c \in Entry /\ IntactAt(f, p, c)
            BY <2>3
        <3>2. from[p] = <<c>> \o from[p2]
            BY <2>1, <2>3 DEF FromEq
        <3>3. p2 \in (p+1)..(N+1) /\ p2 \in Nat /\ p2 \in Int
            BY <1>1, <2>1, <3>1, IntactInFile
        <3>4. n2 \in 0..(m-1) /\ N + 1 - n2 = p2 /\ n2 \in 0..N
            <4> HIDE DEF p2
            <4> QED
                BY <1>1, <2>1, <3>3
        <3>5. PICK q2 : Complete(f, p2, from[p2], q2)
            <4>1. n2 \notin Bad
                BY <1>2, <3>4
            <4>2. \E q : Complete(f, N + 1 - n2, from[N + 1 - n2], q)
                <5> HIDE DEF n2
                <5> QED
                    BY <3>4, <4>1
            <4> QED
                BY <3>4, <4>2
        <3> DEFINE t == from[p2]
                   L == Len(t)
                   s == <<c>> \o t
                   q == [k \in 0..(L+1) |-> IF k = 0 THEN p ELSE q2[k-1]]
        <3>6. t \in Seq(Entry) /\ L \in Nat /\ q2 \in [0..L -> Nat] /\ q2[0] = p2
            <4> HIDE DEF p2
            <4>1. Chain(f, p2, from[p2], q2)
                BY <3>5 DEF Complete
            <4> QED
                BY <4>1, LenProperties DEF Chain
        <3>7. /\ s \in Seq(Entry) /\ Len(s) = L + 1
              /\ s[1] = c /\ \A k \in 2..(L+1) : s[k] = t[k-1]
            <4> HIDE DEF t, c
            <4>1. <<c>> \in Seq(Entry) /\ Len(<<c>>) = 1 /\ <<c>>[1] = c
                BY <3>1
            <4> QED
                BY <3>6, <4>1, ConcatProperties
        <3>8. q \in [0..(L+1) -> Nat] /\ q[0] = p
            <4> HIDE DEF p, t, L
            <4>1. p \in Nat
                BY <2>1, <1>1
            <4>2. \A k \in 0..(L+1) : k # 0 => k - 1 \in 0..L
                BY <3>6
            <4>3. \A k \in 0..(L+1) : (IF k = 0 THEN p ELSE q2[k-1]) \in Nat
                BY <3>6, <4>1, <4>2
            <4> QED
                BY <3>6, <4>1, <4>3
        <3>9. \A k \in 1..(L+1) : IntactAt(f, q[k-1], s[k]) /\ q[k] = q[k-1] + Size[s[k]]
            <4> SUFFICES ASSUME NEW k \in 1..(L+1)
                         PROVE  IntactAt(f, q[k-1], s[k]) /\ q[k] = q[k-1] + Size[s[k]]
                OBVIOUS
            <4>1. CASE k = 1
                <5>1. q[k-1] = p /\ q[k] = q2[0] /\ s[k] = c
                    BY <4>1, <3>7, <3>6
                <5> QED
                    BY <5>1, <3>1, <3>6
            <4>2. CASE k # 1
                <5>1. k - 1 \in 1..L /\ k \in 2..(L+1) /\ k \in 0..(L+1) /\ k-1 \in 0..(L+1)
                    BY <4>2, <3>6
                <5>2. /\ IntactAt(f, q2[k-1-1], t[k-1])
                      /\ q2[k-1] = q2[k-1-1] + Size[t[k-1]]
                    BY <5>1, <3>5 DEF Complete, Chain
                <5>3. q[k-1] = q2[k-1-1] /\ q[k] = q2[k-1] /\ s[k] = t[k-1]
                    BY <5>1, <3>7
                <5> QED
                    BY <5>2, <5>3
            <4> QED
                BY <4>1, <4>2
        <3>10. q[L+1] = q2[L]
            BY <3>6
        <3>11. Complete(f, p, s, q)
            <4>1. Chain(f, p, s, q)
                <5> HIDE DEF s, q, p
                <5> QED
                    BY <3>7, <3>8, <3>9 DEF Chain
            <4>2. \A e \in Entry : ~IntactAt(f, q2[L], e)
                BY <3>5 DEF Complete
            <4> QED
                BY <4>1, <4>2, <3>7, <3>10 DEF Complete
        <3> QED
            BY <3>2, <3>11
    <2> QED
        BY <2>2, <2>3
<1>3. Bad = {}
    <2> SUFFICES ASSUME Bad # {} PROVE FALSE
        OBVIOUS
    <2>1. Bad \in SUBSET Nat
        BY <1>1
    <2>2. PICK m \in Bad : \A n \in Bad : m <= n
        BY <2>1, Least
    <2>3. m \in 0..N
        OBVIOUS
    <2>4. \A n \in 0..(m-1) : n \notin Bad
        <3> HIDE DEF Bad
        <3> QED
            BY <2>2, <2>3, <1>1
    <2> QED
        BY <1>2, <2>2, <2>3, <2>4
<1>4. N \notin Bad /\ N \in 0..N /\ N + 1 - N = 1
    BY <1>1, <1>3
<1> QED
    BY <1>4

\* The positions of a chain never go back.
LEMMA ChainAdvances ==
    ASSUME NEW f, NEW p, NEW s, NEW q, Chain(f, p, s, q),
           NEW i \in 0..Len(s), NEW j \in 0..Len(s), i <= j
    PROVE  q[i] <= q[j]
<1> DEFINE Bad == {n \in 0..Len(s) : n >= i /\ ~(q[i] <= q[n])}
<1>0. s \in Seq(Entry) /\ Len(s) \in Nat /\ q \in [0..Len(s) -> Nat] /\ q[i] \in Nat
    BY LenProperties DEF Chain
<1>1. ASSUME NEW m \in Bad, \A n \in Bad : m <= n
      PROVE  FALSE
    <2>1. m \in 0..Len(s) /\ m \in Nat /\ m >= i
        BY <1>0
    <2>2. m # i
        BY <1>0
    <2>3. m - 1 \in 0..Len(s) /\ ~(m <= m - 1) /\ m \in 1..Len(s) /\ m - 1 >= i
        BY <1>0, <2>1, <2>2
    <2>4. m - 1 \notin Bad
        <3> HIDE DEF Bad
        <3> QED
            BY <1>1, <2>3
    <2>5. q[m] = q[m-1] + Size[s[m]] /\ s[m] \in Entry
        BY <1>0, <2>3, ElementOfSeq DEF Chain
    <2>6. Size[s[m]] \in Nat /\ q[m-1] \in Nat /\ q[i] <= q[m-1]
        BY <1>0, <2>3, <2>4, <2>5, SizeNat
    <2>7. q[i] <= q[m]
        BY <1>0, <2>5, <2>6
    <2> QED
        BY <2>7
<1>2. Bad = {}
    <2>1. Bad \in SUBSET Nat
        BY <1>0
    <2> HIDE DEF Bad
    <2> QED
        BY <1>1, <2>1, Least
<1> QED
    BY <1>0, <1>2

\* Two chains from one place agree as far as both go.
LEMMA ChainsAgree ==
    ASSUME NEW f, NEW g, NEW p \in Nat \ {0}, NEW s, NEW q, NEW t, NEW r,
           Chain(f, p, s, q), Chain(g, p, t, r),
           NoMoreIntact(g, f), NEW k \in 0..Len(s), k <= Len(t)
    PROVE  q[k] = r[k] /\ (k > 0 => s[k] = t[k])
<1> DEFINE Bad == {n \in 0..Len(s) : n <= Len(t) /\ ~(q[n] = r[n] /\ (n > 0 => s[n] = t[n]))}
<1>0. Len(s) \in Nat /\ Len(t) \in Nat /\ s \in Seq(Entry) /\ t \in Seq(Entry)
    BY DEF Chain
<1>1. ASSUME NEW m \in Bad, \A n \in Bad : m <= n
      PROVE  FALSE
    <2>1. m \in 0..Len(s) /\ m <= Len(t) /\ m \in Nat
        BY <1>0
    <2>2. m # 0
        BY <1>0 DEF Chain
    <2>3. m - 1 \in 0..Len(s) /\ m - 1 <= Len(t) /\ ~(m <= m - 1)
        BY <1>0, <2>1, <2>2
    <2>4. m - 1 \notin Bad
        <3> HIDE DEF Bad
        <3> QED
            BY <1>1, <2>3
    <2>5. q[m-1] = r[m-1]
        BY <2>3, <2>4
    <2>6. m \in 1..Len(s) /\ m \in 1..Len(t)
        BY <1>0, <2>1, <2>2
    <2>7. IntactAt(f, q[m-1], s[m]) /\ IntactAt(g, r[m-1], t[m]) /\ q[m-1] \in Nat \ {0}
        <3>1. 0 \in 0..Len(s) /\ 0 <= m - 1
            BY <1>0, <2>1, <2>2
        <3>2. q[0] <= q[m-1]
            BY <2>3, <3>1, ChainAdvances
        <3>3. q[0] = p /\ q[m-1] \in Nat
            BY <2>3 DEF Chain
        <3>4. q[m-1] \in Nat \ {0}
            BY <3>2, <3>3
        <3> QED
            BY <2>6, <3>4 DEF Chain
    <2>8. s[m] \in Entry /\ t[m] \in Entry
        BY <1>0, <2>6, ElementOfSeq
    <2>9. s[m] = t[m]
        BY <2>5, <2>7, <2>8, IntactUnique DEF NoMoreIntact
    <2>10. q[m] = r[m]
        BY <2>5, <2>6, <2>9 DEF Chain
    <2> QED
        BY <2>9, <2>10
<1>2. Bad = {}
    <2>1. Bad \in SUBSET Nat
        BY <1>0
    <2> HIDE DEF Bad
    <2> QED
        BY <1>1, <2>1, Least
<1> QED
    BY <1>2

\* The entries and positions that StopAt counts are those of a complete chain.
LEMMA ParsedComplete ==
    ASSUME NEW f \in Seq(Cell)
    PROVE  \E q : Complete(f, 1, Parsed(f), q) /\ StopAt(f) = q[Len(Parsed(f))]
<1> DEFINE P == Parsed(f)
           NextEq(next) == next = [k \in 0..Len(P) |->
                                     IF k = 0 THEN 1 ELSE next[k-1] + Size[P[k]]]
<1>1. PICK q : Complete(f, 1, P, q)
    BY FromExists, FromComplete, ParsedIsFrom
<1>2. /\ P \in Seq(Entry) /\ Len(P) \in Nat
      /\ q \in [0..Len(P) -> Nat] /\ q[0] = 1
      /\ \A k \in 1..Len(P) : q[k] = q[k-1] + Size[P[k]]
    <2> HIDE DEF P
    <2> QED
        BY <1>1, LenProperties DEF Complete, Chain
<1>3. NextEq(q)
    <2> HIDE DEF P
    <2>1. \A k \in 0..Len(P) : q[k] = IF k = 0 THEN 1 ELSE q[k-1] + Size[P[k]]
        BY <1>2
    <2> QED
        BY <1>2, <2>1
<1> DEFINE next == CHOOSE next : NextEq(next)
<1>4. NextEq(next)
    BY <1>3
<1>5. \A k \in 0..Len(P) : next[k] = q[k]
    <2> HIDE DEF P
    <2> DEFINE Bad == {k \in 0..Len(P) : next[k] # q[k]}
    <2>1. ASSUME NEW m \in Bad, \A n \in Bad : m <= n
          PROVE  FALSE
        <3>1. m \in 0..Len(P) /\ m \in Nat
            BY <1>2
        <3>2. m # 0
            BY <1>2, <1>4
        <3>3. m - 1 \in 0..Len(P) /\ ~(m <= m - 1) /\ m \in 1..Len(P)
            BY <3>1, <3>2, <1>2
        <3>4. m - 1 \notin Bad
            <4> HIDE DEF Bad
            <4> QED
                BY <2>1, <3>3
        <3>5. next[m-1] = q[m-1]
            BY <3>3, <3>4
        <3>6. next[m] = next[m-1] + Size[P[m]]
            <4> HIDE DEF next
            <4> QED
                BY <1>4, <3>1, <3>2
        <3>7. q[m] = q[m-1] + Size[P[m]]
            BY <1>2, <3>3
        <3> QED
            BY <3>5, <3>6, <3>7
    <2>2. Bad = {}
        <3>1. Bad \in SUBSET Nat
            BY <1>2
        <3> HIDE DEF Bad
        <3> QED
            BY <2>1, <3>1, Least
    <2> QED
        BY <2>2
<1>6. StopAt(f) = next[Len(P)]
    BY DEF StopAt
<1>7. StopAt(f) = q[Len(P)]
    <2> HIDE DEF P, next
    <2> QED
        BY <1>2, <1>5, <1>6
<1> QED
    BY <1>1, <1>7

\* Every complete chain from the start is that one.
LEMMA CompleteIsParsed ==
    ASSUME NEW f \in Seq(Cell), NEW s, NEW q, Complete(f, 1, s, q)
    PROVE  Parsed(f) = s /\ StopAt(f) = q[Len(s)]
<1> DEFINE P == Parsed(f)
<1>1. PICK r : Complete(f, 1, P, r) /\ StopAt(f) = r[Len(P)]
    BY ParsedComplete
<1> HIDE DEF P
<1>2. /\ P \in Seq(Entry) /\ Len(P) \in Nat /\ s \in Seq(Entry) /\ Len(s) \in Nat
      /\ Chain(f, 1, P, r) /\ Chain(f, 1, s, q)
    BY <1>1, LenProperties DEF Complete, Chain
<1>3. \A k \in 0..Len(s) : k <= Len(P) => q[k] = r[k] /\ (k > 0 => s[k] = P[k])
    <2>1. NoMoreIntact(f, f) /\ 1 \in Nat \ {0}
        BY DEF NoMoreIntact
    <2> QED
        BY <1>2, <2>1, ChainsAgree
<1>4. ~(Len(s) < Len(P))
    <2> SUFFICES ASSUME Len(s) < Len(P) PROVE FALSE
        OBVIOUS
    <2>1. Len(s) + 1 \in 1..Len(P) /\ Len(s) \in 0..Len(s) /\ (Len(s) + 1) - 1 = Len(s)
        BY <1>2
    <2>2. IntactAt(f, r[Len(s)], P[Len(s)+1]) /\ P[Len(s)+1] \in Entry
        BY <1>2, <2>1, ElementOfSeq DEF Chain
    <2>3. q[Len(s)] = r[Len(s)]
        BY <1>2, <1>3, <2>1
    <2> QED
        BY <2>2, <2>3 DEF Complete
<1>5. ~(Len(P) < Len(s))
    <2> SUFFICES ASSUME Len(P) < Len(s) PROVE FALSE
        OBVIOUS
    <2>1. Len(P) + 1 \in 1..Len(s) /\ Len(P) \in 0..Len(s) /\ (Len(P) + 1) - 1 = Len(P)
        BY <1>2
    <2>2. IntactAt(f, q[Len(P)], s[Len(P)+1]) /\ s[Len(P)+1] \in Entry
        BY <1>2, <2>1, ElementOfSeq DEF Chain
    <2>3. q[Len(P)] = r[Len(P)]
        BY <1>2, <1>3, <2>1
    <2> QED
        BY <1>1, <2>2, <2>3 DEF Complete
<1>6. Len(P) = Len(s)
    BY <1>2, <1>4, <1>5
<1>7. \A k \in 1..Len(s) : P[k] = s[k]
    BY <1>2, <1>3, <1>6
<1>8. P = s
    BY <1>2, <1>6, <1>7, SeqEqual
<1>9. r[Len(P)] = q[Len(s)]
    BY <1>2, <1>3, <1>6
<1> QED
    BY <1>1, <1>8, <1>9 DEF P

\* The positions of a chain advance and stay in the file.
LEMMA ChainInFile ==
    ASSUME NEW f \in Seq(Cell), NEW s, NEW q, Chain(f, 1, s, q), NEW k \in 0..Len(s)
    PROVE  q[k] \in (k+1)..(Len(f)+1)
<1> DEFINE Bad == {n \in 0..Len(s) : ~(q[n] \in (n+1)..(Len(f)+1))}
<1>0. Len(s) \in Nat /\ Len(f) \in Nat /\ s \in Seq(Entry) /\ q \in [0..Len(s) -> Nat]
    BY LenProperties DEF Chain
<1>1. ASSUME NEW m \in Bad, \A n \in Bad : m <= n
      PROVE  FALSE
    <2>1. m \in 0..Len(s) /\ m \in Nat
        BY <1>0
    <2>2. m # 0
        BY <1>0 DEF Chain
    <2>3. m - 1 \in 0..Len(s) /\ ~(m <= m - 1) /\ m \in 1..Len(s)
        BY <1>0, <2>1, <2>2
    <2>4. m - 1 \notin Bad
        <3> HIDE DEF Bad
        <3> QED
            BY <1>1, <2>3
    <2>5. q[m-1] \in m..(Len(f)+1)
        BY <2>3, <2>4
    <2>6. /\ IntactAt(f, q[m-1], s[m]) /\ q[m] = q[m-1] + Size[s[m]]
          /\ s[m] \in Entry /\ q[m-1] \in Nat /\ q[m-1] >= 1
        BY <1>0, <2>3, <2>5, ElementOfSeq DEF Chain
    <2>7. q[m] \in (q[m-1]+1)..(Len(f)+1)
        BY <2>6, IntactInFile
    <2>8. q[m] \in (m+1)..(Len(f)+1)
        BY <2>5, <2>7, <1>0, <2>1
    <2> QED
        BY <2>8
<1>2. Bad = {}
    <2>1. Bad \in SUBSET Nat
        BY <1>0
    <2> HIDE DEF Bad
    <2> QED
        BY <1>1, <2>1, Least
<1> QED
    BY <1>2

\* The log a recovery of f returns, and the place where it stops.
LEMMA ParsedType ==
    ASSUME NEW f \in Seq(Cell)
    PROVE  /\ Parsed(f) \in Seq(Entry) /\ Len(Parsed(f)) \in Nat
           /\ StopAt(f) \in 1..(Len(f)+1)
<1>1. PICK q : Complete(f, 1, Parsed(f), q) /\ StopAt(f) = q[Len(Parsed(f))]
    BY ParsedComplete
<1>2. Parsed(f) \in Seq(Entry) /\ Len(Parsed(f)) \in Nat /\ Len(f) \in Nat
    BY <1>1, LenProperties DEF Complete, Chain
<1>3. q[Len(Parsed(f))] \in (Len(Parsed(f))+1)..(Len(f)+1)
    BY <1>1, <1>2, ChainInFile DEF Complete
<1> QED
    BY <1>1, <1>2, <1>3

\* A file in which less is intact gives a prefix of the log.
LEMMA LessIntactIsPrefix ==
    ASSUME NEW f \in Seq(Cell), NEW g \in Seq(Cell),
           NoMoreIntact(g, f)
    PROVE  /\ Len(Parsed(g)) <= Len(Parsed(f))
           /\ \A k \in 1..Len(Parsed(g)) : Parsed(g)[k] = Parsed(f)[k]
           /\ Parsed(g) = SubSeq(Parsed(f), 1, Len(Parsed(g)))
           /\ StopAt(g) <= StopAt(f)
<1>1. PICK q : Complete(f, 1, Parsed(f), q) /\ StopAt(f) = q[Len(Parsed(f))]
    BY ParsedComplete
<1>2. PICK r : Complete(g, 1, Parsed(g), r) /\ StopAt(g) = r[Len(Parsed(g))]
    BY ParsedComplete
<1> DEFINE s == Parsed(f)  t == Parsed(g)
<1>3. /\ s \in Seq(Entry) /\ Len(s) \in Nat /\ t \in Seq(Entry) /\ Len(t) \in Nat
      /\ Chain(f, 1, s, q) /\ Chain(g, 1, t, r)
    BY <1>1, <1>2, ParsedType DEF Complete
<1> HIDE DEF s, t
<1>4. \A k \in 0..Len(s) : k <= Len(t) => q[k] = r[k] /\ (k > 0 => s[k] = t[k])
    <2>1. ASSUME NEW k \in 0..Len(s), k <= Len(t)
          PROVE  q[k] = r[k] /\ (k > 0 => s[k] = t[k])
        <3>1. 1 \in Nat \ {0} /\ Chain(f, 1, s, q) /\ Chain(g, 1, t, r)
            BY <1>3
        <3> QED
            BY <2>1, <3>1, ChainsAgree
    <2> QED
        BY <2>1
<1>5. ~(Len(s) < Len(t))
    <2> SUFFICES ASSUME Len(s) < Len(t) PROVE FALSE
        OBVIOUS
    <2>1. Len(s) + 1 \in 1..Len(t) /\ Len(s) \in 0..Len(s) /\ (Len(s) + 1) - 1 = Len(s)
        BY <1>3
    <2>2. IntactAt(g, r[Len(s)], t[Len(s)+1]) /\ t[Len(s)+1] \in Entry /\ r[Len(s)] \in Nat
        <3>1. Len(s) \in 0..Len(t)
            BY <1>3, <2>1
        <3> QED
            BY <1>3, <2>1, <3>1, ElementOfSeq DEF Chain
    <2>3. q[Len(s)] = r[Len(s)]
        BY <1>3, <1>4, <2>1
    <2>4. IntactAt(f, q[Len(s)], t[Len(s)+1])
        <3>1. q[Len(s)] \in (Len(s)+1)..(Len(f)+1) /\ Len(f) \in Nat
            BY <1>3, <2>1, ChainInFile, LenProperties
        <3> QED
            BY <1>3, <2>2, <2>3, <3>1 DEF NoMoreIntact
    <2> QED
        BY <1>1, <2>2, <2>4 DEF Complete, s
<1>6. Len(t) <= Len(s) /\ \A k \in 1..Len(t) : t[k] = s[k]
    BY <1>3, <1>4, <1>5
<1>7. t = SubSeq(s, 1, Len(t))
    <2>1. \A k \in 1..Len(t) : s[k] \in Entry
        BY <1>3, <1>6, ElementOfSeq
    <2>2. /\ SubSeq(s, 1, Len(t)) \in Seq(Entry) /\ Len(SubSeq(s, 1, Len(t))) = Len(t)
          /\ \A k \in 1..Len(t) : SubSeq(s, 1, Len(t))[k] = s[k]
        BY <1>3, <2>1, SubSeqProperties
    <2> QED
        BY <1>3, <1>6, <2>2, SeqEqual
<1>8. r[Len(t)] <= q[Len(s)]
    <2>1. Len(t) \in 0..Len(s) /\ Len(s) \in 0..Len(s)
        BY <1>3, <1>6
    <2>2. q[Len(t)] = r[Len(t)]
        BY <1>3, <1>4, <2>1
    <2> QED
        BY <1>3, <1>6, <2>1, <2>2, ChainAdvances
<1> QED
    BY <1>1, <1>2, <1>6, <1>7, <1>8 DEF s, t

-----------------------------------------------------------------------------
(* What writing and crashing do to the log.                                  *)

\* g begins with all of f.
Extends(g, f) == Len(f) <= Len(g) /\ \A i \in 1..Len(f) : g[i] = f[i]

LEMMA ExtendsKeepsIntact ==
    ASSUME NEW f \in Seq(Cell), NEW g \in Seq(Cell), Extends(g, f)
    PROVE  NoMoreIntact(f, g)
<1> SUFFICES ASSUME NEW p \in Nat \ {0}, NEW e \in Entry, IntactAt(f, p, e)
             PROVE  IntactAt(g, p, e)
    BY DEF NoMoreIntact
<1>1. Len(f) \in Nat /\ Len(g) \in Nat
    BY LenProperties
<1>2. \A i \in 1..Size[e] : p + i - 1 \in 1..Len(f)
    BY <1>1, SizeNat DEF IntactAt
<1>3. \A i \in 1..Size[e] : g[p + i - 1] = <<e, i>>
    BY <1>2 DEF IntactAt, Extends
<1>4. p + Size[e] - 1 <= Len(g)
    BY <1>1, SizeNat DEF IntactAt, Extends
<1> QED
    BY <1>3, <1>4 DEF IntactAt

\* Holes and a lost end make nothing intact that was not.
LEMMA HolesLoseOnly ==
    ASSUME NEW f \in Seq(Cell), NEW g \in Seq(Cell), Len(g) <= Len(f),
           \A i \in 1..Len(g) : g[i] = f[i] \/ g[i] = Blank
    PROVE  NoMoreIntact(g, f)
<1> SUFFICES ASSUME NEW p \in Nat \ {0}, NEW e \in Entry, IntactAt(g, p, e)
             PROVE  IntactAt(f, p, e)
    BY DEF NoMoreIntact
<1>1. Len(f) \in Nat /\ Len(g) \in Nat
    BY LenProperties
<1>2. \A i \in 1..Size[e] : p + i - 1 \in 1..Len(g) /\ g[p + i - 1] = <<e, i>>
    BY <1>1, SizeNat DEF IntactAt
<1>3. \A i \in 1..Size[e] : <<e, i>> # Blank
    BY SizeNat, WALAssumption
<1>4. \A i \in 1..Size[e] : f[p + i - 1] = <<e, i>>
    BY <1>2, <1>3
<1>5. p + Size[e] - 1 <= Len(f)
    BY <1>1, SizeNat DEF IntactAt
<1> QED
    BY <1>4, <1>5 DEF IntactAt

\* Cell by cell, a write within the file or at its end.
LEMMA WrittenCells ==
    ASSUME NEW f \in Seq(Cell), NEW o \in 0..Len(f), NEW e \in Entry, NEW k \in 0..Size[e]
    PROVE  /\ Written(f, o, e, k) \in Seq(Cell)
           /\ Len(Written(f, o, e, k)) = IF o + k > Len(f) THEN o + k ELSE Len(f)
           /\ \A i \in 1..Len(Written(f, o, e, k)) : Written(f, o, e, k)[i] =
                 IF i \in (o+1)..(o+k) THEN <<e, i - o>> ELSE f[i]
<1> DEFINE L == IF o + k > Len(f) THEN o + k ELSE Len(f)
           cell(i) == IF i \in (o+1)..(o+k) THEN CellsOf(e)[i - o] ELSE f[i]
<1>1. Len(f) \in Nat /\ L \in Nat /\ Size[e] \in Nat
    BY LenProperties, SizeNat
<1>2. \A i \in (o+1)..(o+k) : CellsOf(e)[i - o] = <<e, i - o>> /\ <<e, i - o>> \in Cell
    BY <1>1 DEF CellsOf, Cell
<1>3. \A i \in 1..L : cell(i) \in Cell
    <2>1. ASSUME NEW i \in 1..L, i \notin (o+1)..(o+k)
          PROVE  i \in 1..Len(f)
        BY <1>1, <2>1
    <2> QED
        BY <1>2, <2>1, ElementOfSeq
<1>4. [i \in 1..L |-> cell(i)] \in Seq(Cell)
    <2> HIDE DEF cell, L
    <2> QED
        BY <1>1, <1>3, IsASeq
<1>5. Written(f, o, e, k) = [i \in 1..L |-> cell(i)]
    BY DEF Written
<1>6. Len([i \in 1..L |-> cell(i)]) = L
    <2> HIDE DEF cell, L
    <2> QED
        BY <1>1, <1>4, LenProperties
<1> QED
    <2>1. \A i \in 1..L : Written(f, o, e, k)[i] = cell(i)
        BY <1>5
    <2>2. Written(f, o, e, k) \in Seq(Cell) /\ Len(Written(f, o, e, k)) = L
        BY <1>4, <1>5, <1>6
    <2> QED
        BY <1>2, <2>1, <2>2

LEMMA WrittenAtEnd ==
    ASSUME NEW f \in Seq(Cell), NEW e \in Entry, NEW k \in 0..Size[e]
    PROVE  LET g == Written(f, Len(f), e, k)
           IN  /\ g \in Seq(Cell) /\ Len(g) = Len(f) + k /\ Extends(g, f)
               /\ \A i \in 1..k : g[Len(f) + i] = <<e, i>>
<1> DEFINE g == Written(f, Len(f), e, k)
<1>1. Len(f) \in 0..Len(f) /\ Len(f) \in Nat /\ Size[e] \in Nat /\ k \in Nat
    BY LenProperties, SizeNat
<1>2. /\ g \in Seq(Cell) /\ Len(g) = Len(f) + k
      /\ \A i \in 1..Len(g) :
            g[i] = IF i \in (Len(f)+1)..(Len(f)+k) THEN <<e, i - Len(f)>> ELSE f[i]
    <2>1. /\ g \in Seq(Cell)
          /\ Len(g) = IF Len(f) + k > Len(f) THEN Len(f) + k ELSE Len(f)
          /\ \A i \in 1..Len(g) :
                g[i] = IF i \in (Len(f)+1)..(Len(f)+k) THEN <<e, i - Len(f)>> ELSE f[i]
        BY <1>1, WrittenCells
    <2>2. Len(g) = Len(f) + k
        <3> HIDE DEF g
        <3> QED
            BY <1>1, <2>1
    <2> QED
        BY <2>1, <2>2
<1> HIDE DEF g
<1>3. Extends(g, f)
    <2>1. \A i \in 1..Len(f) : i \in 1..Len(g) /\ i \notin (Len(f)+1)..(Len(f)+k)
        BY <1>1, <1>2
    <2>2. \A i \in 1..Len(f) : g[i] = f[i]
        BY <1>2, <2>1
    <2>3. Len(f) <= Len(g)
        BY <1>1, <1>2
    <2> QED
        BY <2>2, <2>3 DEF Extends
<1>4. ASSUME NEW i \in 1..k
      PROVE  g[Len(f) + i] = <<e, i>>
    <2>1. /\ Len(f) + i \in 1..Len(g) /\ Len(f) + i \in (Len(f)+1)..(Len(f)+k)
          /\ Len(f) + i - Len(f) = i
        BY <1>1, <1>2
    <2> QED
        BY <1>2, <2>1
<1> QED
    BY <1>2, <1>3, <1>4 DEF g

\* Behind a residue nothing is decoded, whatever is written.
LEMMA NothingBehindResidue ==
    ASSUME NEW f \in Seq(Cell), NEW e \in Entry, NEW k \in 0..Size[e], StopAt(f) <= Len(f)
    PROVE  LET g == Written(f, Len(f), e, k)
           IN  Parsed(g) = Parsed(f) /\ StopAt(g) = StopAt(f)
<1> DEFINE g == Written(f, Len(f), e, k)
           s == Parsed(f)
<1>1. PICK q : Complete(f, 1, s, q) /\ StopAt(f) = q[Len(s)]
    BY ParsedComplete
<1>2. /\ g \in Seq(Cell) /\ Len(g) = Len(f) + k /\ Extends(g, f)
      /\ \A i \in 1..k : g[Len(f) + i] = <<e, i>>
    BY WrittenAtEnd
<1>3. /\ Len(f) \in Nat /\ k \in Nat /\ Size[e] \in Nat
      /\ s \in Seq(Entry) /\ Len(s) \in Nat /\ StopAt(f) \in 1..Len(f)
    BY LenProperties, SizeNat, ParsedType
<1> HIDE DEF g, s
<1>4. Chain(g, 1, s, q)
    <2>1. NoMoreIntact(f, g)
        BY <1>2, ExtendsKeepsIntact
    <2>2. ASSUME NEW j \in 1..Len(s)
          PROVE  IntactAt(g, q[j-1], s[j])
        <3>1. j - 1 \in 0..Len(s) /\ s[j] \in Entry
            BY <1>3, ElementOfSeq
        <3>2. q[j-1] \in (j-1+1)..(Len(f)+1)
            BY <1>1, <3>1, ChainInFile DEF Complete
        <3>3. q[j-1] \in Nat \ {0}
            BY <1>3, <3>2
        <3> QED
            BY <1>1, <2>1, <3>1, <3>3 DEF Complete, Chain, NoMoreIntact
    <2> QED
        BY <1>1, <2>2 DEF Complete, Chain
<1>5. ASSUME NEW x \in Entry, IntactAt(g, q[Len(s)], x)
      PROVE  FALSE
    <2> DEFINE p == StopAt(f)
    <2>1. p \in 1..Len(f) /\ IntactAt(g, p, x) /\ ~IntactAt(f, p, x)
        BY <1>1, <1>3, <1>5 DEF Complete
    <2> HIDE DEF p
    <2>2. Size[x] \in Nat
        BY SizeNat
    <2>3. CASE p + Size[x] - 1 <= Len(f)
        <3>1. \A i \in 1..Size[x] : p + i - 1 \in 1..Len(f)
            BY <1>3, <2>1, <2>2, <2>3
        <3>2. \A i \in 1..Size[x] : f[p + i - 1] = <<x, i>>
            BY <1>2, <2>1, <3>1 DEF Extends, IntactAt
        <3> QED
            BY <2>1, <2>3, <3>2 DEF IntactAt
    <2>4. CASE p + Size[x] - 1 > Len(f)
        <3> DEFINE i == Len(f) + 2 - p
        <3>1. i \in 1..Size[x] /\ i # 1 /\ p + i - 1 = Len(f) + 1
            BY <1>3, <2>1, <2>2, <2>4
        <3>2. g[Len(f) + 1] = <<x, i>>
            BY <2>1, <3>1 DEF IntactAt
        <3>3. 1 \in 1..k
            BY <1>2, <1>3, <2>1, <2>2, <2>4 DEF IntactAt
        <3>4. g[Len(f) + 1] = <<e, 1>>
            BY <1>2, <3>3
        <3> HIDE DEF i
        <3> QED
            BY <3>1, <3>2, <3>4
    <2> QED
        BY <1>3, <2>1, <2>2, <2>3, <2>4
<1>6. Complete(g, 1, s, q)
    BY <1>4, <1>5 DEF Complete
<1>7. Parsed(g) = s /\ StopAt(g) = q[Len(s)]
    BY <1>2, <1>6, CompleteIsParsed
<1> QED
    BY <1>1, <1>7 DEF g, s

\* At the end of a clean file a whole entry is the next of the log.
LEMMA WholeIsNext ==
    ASSUME NEW f \in Seq(Cell), NEW e \in Entry, StopAt(f) = Len(f) + 1
    PROVE  Parsed(Written(f, Len(f), e, Size[e])) = Append(Parsed(f), e)
<1> DEFINE g == Written(f, Len(f), e, Size[e])
           s == Parsed(f)
           n == Len(s)
           t == Append(s, e)
<1>1. PICK q : Complete(f, 1, s, q) /\ StopAt(f) = q[Len(s)]
    BY ParsedComplete
<1>2. /\ Len(f) \in Nat /\ Size[e] \in Nat /\ Size[e] > 0
      /\ s \in Seq(Entry) /\ n \in Nat
    BY LenProperties, SizeNat, ParsedType
<1>3. /\ g \in Seq(Cell) /\ Len(g) = Len(f) + Size[e] /\ Extends(g, f)
      /\ \A i \in 1..Size[e] : g[Len(f) + i] = <<e, i>>
    <2>1. Size[e] \in 0..Size[e]
        BY <1>2
    <2> QED
        BY <2>1, WrittenAtEnd
<1> HIDE DEF g, s
<1>4. /\ t \in Seq(Entry) /\ Len(t) = n + 1 /\ t[n+1] = e
      /\ \A j \in 1..n : t[j] = s[j]
    BY <1>2
<1> DEFINE r == [j \in 0..(n+1) |-> IF j <= n THEN q[j] ELSE Len(g) + 1]
<1> HIDE DEF t
<1>5. q \in [0..n -> Nat] /\ q[0] = 1 /\ q[n] = Len(f) + 1
    BY <1>1 DEF Complete, Chain
<1>6. r \in [0..(n+1) -> Nat] /\ r[0] = 1 /\ \A j \in 0..n : r[j] = q[j]
    BY <1>2, <1>3, <1>5
<1>7. r[n+1] = Len(g) + 1
    BY <1>2
<1> HIDE DEF r
<1>8. NoMoreIntact(f, g)
    BY <1>3, ExtendsKeepsIntact
<1>9. ASSUME NEW j \in 1..(n+1)
      PROVE  IntactAt(g, r[j-1], t[j]) /\ r[j] = r[j-1] + Size[t[j]]
    <2>1. CASE j = n + 1
        <3>1. r[j-1] = Len(f) + 1 /\ t[j] = e
            BY <1>2, <1>4, <1>5, <1>6, <2>1
        <3>2. \A i \in 1..Size[e] : Len(f) + 1 + i - 1 = Len(f) + i
            BY <1>2
        <3>3. \A i \in 1..Size[e] : g[Len(f) + 1 + i - 1] = <<e, i>>
            BY <1>3, <3>2
        <3>4. Len(f) + 1 + Size[e] - 1 <= Len(g)
            BY <1>2, <1>3
        <3>5. IntactAt(g, Len(f) + 1, e)
            BY <3>3, <3>4 DEF IntactAt
        <3>6. r[j] = Len(f) + 1 + Size[e]
            <4>1. r[j] = Len(g) + 1
                BY <1>7, <2>1
            <4>2. Len(g) + 1 = Len(f) + 1 + Size[e]
                <5>1. Len(g) = Len(f) + Size[e]
                    BY <1>3
                <5>2. Len(f) \in Nat /\ Size[e] \in Nat
                    BY <1>2
                <5> QED
                    BY <5>1, <5>2
            <4> QED
                BY <4>1, <4>2
        <3> QED
            BY <3>1, <3>5, <3>6
    <2>2. CASE j # n + 1
        <3>1. j \in 1..n /\ j \in 0..n /\ j - 1 \in 0..n /\ s[j] \in Entry /\ t[j] = s[j]
            BY <1>2, <1>4, <2>2, ElementOfSeq
        <3>2. IntactAt(f, q[j-1], s[j]) /\ q[j] = q[j-1] + Size[s[j]]
            BY <1>1, <3>1 DEF Complete, Chain
        <3>3. q[j-1] \in (j-1+1)..(Len(f)+1)
            BY <1>1, <3>1, ChainInFile DEF Complete
        <3>4. q[j-1] \in Nat \ {0}
            BY <1>2, <3>3
        <3>5. IntactAt(g, q[j-1], s[j])
            BY <1>8, <3>1, <3>2, <3>4 DEF NoMoreIntact
        <3> QED
            BY <1>6, <3>1, <3>2, <3>5
    <2> QED
        BY <2>1, <2>2
<1>10. Chain(g, 1, t, r)
    BY <1>4, <1>6, <1>9 DEF Chain
<1>11. ASSUME NEW x \in Entry
       PROVE  ~IntactAt(g, r[Len(t)], x)
    <2>1. r[Len(t)] = Len(g) + 1 /\ Len(g) \in Nat
        BY <1>3, <1>4, <1>7, LenProperties
    <2> QED
        BY <2>1, SizeNat DEF IntactAt
<1>12. Complete(g, 1, t, r)
    BY <1>10, <1>11 DEF Complete
<1>13. Parsed(g) = t
    BY <1>3, <1>12, CompleteIsParsed
<1> QED
    BY <1>13 DEF g, s, t

\* A torn one leaves a residue and the log as it was.
LEMMA TornIsNothing ==
    ASSUME NEW f \in Seq(Cell), NEW e \in Entry, NEW k \in 0..(Size[e]-1)
    PROVE  LET g == Written(f, Len(f), e, k)
           IN  Parsed(g) = Parsed(f) /\ StopAt(g) = StopAt(f)
<1> DEFINE g == Written(f, Len(f), e, k)
           s == Parsed(f)
<1>1. PICK q : Complete(f, 1, s, q) /\ StopAt(f) = q[Len(s)]
    BY ParsedComplete
<1>2. /\ Len(f) \in Nat /\ Size[e] \in Nat /\ Size[e] > 0 /\ k \in 0..Size[e] /\ k \in Nat
      /\ s \in Seq(Entry) /\ Len(s) \in Nat /\ StopAt(f) \in 1..(Len(f)+1)
    BY LenProperties, SizeNat, ParsedType
<1>3. CASE StopAt(f) <= Len(f)
    BY <1>2, <1>3, NothingBehindResidue
<1>4. CASE StopAt(f) = Len(f) + 1
    <2>1. /\ g \in Seq(Cell) /\ Len(g) = Len(f) + k /\ Extends(g, f)
          /\ \A i \in 1..k : g[Len(f) + i] = <<e, i>>
        BY <1>2, WrittenAtEnd
    <2> HIDE DEF g, s
    <2>2. Chain(g, 1, s, q)
        <3>1. NoMoreIntact(f, g)
            BY <2>1, ExtendsKeepsIntact
        <3>2. ASSUME NEW j \in 1..Len(s)
              PROVE  IntactAt(g, q[j-1], s[j])
            <4>1. j - 1 \in 0..Len(s) /\ s[j] \in Entry
                BY <1>2, ElementOfSeq
            <4>2. q[j-1] \in (j-1+1)..(Len(f)+1)
                BY <1>1, <4>1, ChainInFile DEF Complete
            <4>3. q[j-1] \in Nat \ {0}
                BY <1>2, <4>2
            <4> QED
                BY <1>1, <3>1, <4>1, <4>3 DEF Complete, Chain, NoMoreIntact
        <3> QED
            BY <1>1, <3>2 DEF Complete, Chain
    <2>3. ASSUME NEW x \in Entry, IntactAt(g, Len(f) + 1, x)
          PROVE  FALSE
        <3>1. Size[x] \in Nat /\ Size[x] > 0 /\ Len(f) + 1 + Size[x] - 1 <= Len(f) + k
            BY <2>1, <2>3, SizeNat DEF IntactAt
        <3>2. 1 \in 1..k /\ 1 \in 1..Size[x] /\ Len(f) + 1 + 1 - 1 = Len(f) + 1
            BY <1>2, <3>1
        <3>3. g[Len(f) + 1] = <<e, 1>> /\ g[Len(f) + 1] = <<x, 1>>
            BY <2>1, <2>3, <3>2 DEF IntactAt
        <3>4. e = x
            BY <3>3
        <3> QED
            BY <1>2, <3>1, <3>4
    <2>4. Complete(g, 1, s, q)
        BY <1>1, <1>4, <2>2, <2>3 DEF Complete
    <2>5. Parsed(g) = s /\ StopAt(g) = q[Len(s)]
        BY <2>1, <2>4, CompleteIsParsed
    <2> QED
        BY <1>1, <2>5 DEF g, s
<1> QED
    BY <1>2, <1>3, <1>4

FirstCell(f, p) == \E x : f[p] = <<x, 1>>

\* In a clean file the first cell of an entry stands where one is decoded.
LEMMA FirstCellsAreStarts ==
    ASSUME NEW f \in Seq(Cell), NEW s, NEW q, Chain(f, 1, s, q), q[Len(s)] = Len(f) + 1,
           NEW p \in 1..Len(f), FirstCell(f, p)
    PROVE  \E m \in 0..(Len(s)-1) : q[m] = p
<1> DEFINE S == {m \in 0..Len(s) : q[m] > p}
<1>1. /\ Len(s) \in Nat /\ Len(f) \in Nat /\ s \in Seq(Entry)
      /\ q \in [0..Len(s) -> Nat] /\ q[0] = 1
    BY LenProperties DEF Chain
<1>2. S \in SUBSET Nat /\ S # {}
    <2>1. Len(s) \in 0..Len(s) /\ q[Len(s)] > p
        BY <1>1
    <2>2. S \in SUBSET Nat
        BY <1>1
    <2> QED
        BY <2>1, <2>2
<1>3. PICK m \in S : \A n \in S : m <= n
    <2> HIDE DEF S
    <2> QED
        BY <1>2, Least
<1>4. m \in 0..Len(s) /\ q[m] > p /\ m # 0
    BY <1>1
<1>5. m - 1 \in 0..(Len(s)-1) /\ m - 1 \in 0..Len(s) /\ m \in 1..Len(s) /\ ~(m <= m - 1)
    BY <1>1, <1>4
<1>6. m - 1 \notin S
    <2> HIDE DEF S
    <2> QED
        BY <1>3, <1>5
<1>7. q[m-1] \in Nat /\ q[m-1] <= p
    BY <1>1, <1>5, <1>6
<1>8. /\ IntactAt(f, q[m-1], s[m]) /\ q[m] = q[m-1] + Size[s[m]]
      /\ s[m] \in Entry /\ Size[s[m]] \in Nat
    BY <1>1, <1>5, ElementOfSeq, SizeNat DEF Chain
<1> DEFINE i == p - q[m-1] + 1
<1>9. i \in 1..Size[s[m]] /\ q[m-1] + i - 1 = p
    BY <1>4, <1>7, <1>8
<1> HIDE DEF i
<1>10. f[p] = <<s[m], i>>
    BY <1>8, <1>9 DEF IntactAt
<1>11. i = 1
    BY <1>10 DEF FirstCell
<1>12. q[m-1] = p
    BY <1>7, <1>9, <1>11
<1> QED
    BY <1>5, <1>12

\* Writing over the start of a clean file puts the entry first and adds none.
LEMMA OverwriteAddsNone ==
    ASSUME NEW f \in Seq(Cell), f # <<>>, StopAt(f) = Len(f) + 1, NEW e \in Entry
    PROVE  LET after == Parsed(Written(f, 0, e, Size[e]))
           IN  after[1] = e /\ Len(after) <= Len(Parsed(f))
<1> DEFINE g == Written(f, 0, e, Size[e])
           s == Parsed(f)
           t == Parsed(g)
           L == Size[e]
<1>1. /\ Len(f) \in Nat /\ Len(f) > 0 /\ 0 \in 0..Len(f)
      /\ L \in Nat /\ L > 0 /\ L \in 0..L
    BY LenProperties, EmptySeq, SizeNat
<1>2. /\ g \in Seq(Cell) /\ Len(g) = (IF L > Len(f) THEN L ELSE Len(f))
      /\ \A i \in 1..Len(g) : g[i] = IF i \in 1..L THEN <<e, i>> ELSE f[i]
    <2> HIDE DEF L
    <2>1. /\ Written(f, 0, e, L) \in Seq(Cell)
          /\ Len(Written(f, 0, e, L)) = IF 0 + L > Len(f) THEN 0 + L ELSE Len(f)
          /\ \A i \in 1..Len(Written(f, 0, e, L)) : Written(f, 0, e, L)[i] =
                 IF i \in (0+1)..(0+L) THEN <<e, i - 0>> ELSE f[i]
        BY <1>1, WrittenCells DEF L
    <2>2. 0 + L = L
        BY <1>1
    <2>3. \A i \in 1..Len(g) : i - 0 = i
        BY <1>1, <2>1, <2>2
    <2>4. \A i \in 1..Len(g) : g[i] = IF i \in 1..L THEN <<e, i - 0>> ELSE f[i]
        BY <2>1, <2>2 DEF L
    <2> QED
        BY <2>1, <2>2, <2>3, <2>4 DEF L
<1>3. PICK q : Complete(f, 1, s, q) /\ StopAt(f) = q[Len(s)]
    BY ParsedComplete
<1>4. PICK r : Complete(g, 1, t, r)
    BY <1>2, ParsedComplete
<1>5. s \in Seq(Entry) /\ Len(s) \in Nat /\ t \in Seq(Entry) /\ Len(t) \in Nat
    BY <1>2, ParsedType
<1> HIDE DEF g, s, t, L
<1>6. /\ Chain(f, 1, s, q) /\ q[Len(s)] = Len(f) + 1
      /\ q \in [0..Len(s) -> Nat] /\ q[0] = 1
    BY <1>3 DEF Complete, Chain
<1>7. /\ Chain(g, 1, t, r) /\ \A x \in Entry : ~IntactAt(g, r[Len(t)], x)
      /\ r \in [0..Len(t) -> Nat] /\ r[0] = 1
    BY <1>4 DEF Complete, Chain
<1>8. Len(g) \in Nat /\ Len(g) >= L
    BY <1>1, <1>2
<1>9. IntactAt(g, 1, e)
    <2>1. \A i \in 1..L : i \in 1..Len(g) /\ 1 + i - 1 = i
        BY <1>1, <1>8
    <2>2. \A i \in 1..L : g[1 + i - 1] = <<e, i>>
        BY <1>2, <2>1
    <2>3. 1 + L - 1 <= Len(g)
        BY <1>1, <1>8
    <2> QED
        BY <2>2, <2>3 DEF IntactAt, L
<1>10. Len(t) >= 1
    <2>1. Len(t) # 0
        BY <1>7, <1>9
    <2> QED
        BY <1>5, <2>1
<1>11. t[1] = e /\ r[1] = L + 1
    <2>1. 1 \in 1..Len(t) /\ 1 - 1 = 0
        BY <1>5, <1>10
    <2>2. IntactAt(g, r[0], t[1]) /\ r[1] = r[0] + Size[t[1]] /\ t[1] \in Entry
        BY <1>5, <1>7, <2>1, ElementOfSeq DEF Chain
    <2>3. t[1] = e
        BY <1>7, <1>9, <2>2, IntactUnique
    <2> QED
        BY <1>1, <1>7, <2>2, <2>3 DEF L
<1>12. Len(s) >= 1
    BY <1>1, <1>5, <1>6
\* Every later entry of the new log starts where an entry of the old one did.
<1>13. ASSUME NEW k \in 1..(Len(t)-1)
       PROVE  \E m \in 1..(Len(s)-1) : r[k] = q[m]
    <2>1. k \in 0..Len(t) /\ k + 1 \in 1..Len(t) /\ k + 1 - 1 = k /\ 1 \in 0..Len(t) /\ 1 <= k
        BY <1>5, <1>10
    <2>2. r[k] \in (k+1)..(Len(g)+1) /\ r[1] <= r[k]
        BY <1>2, <1>7, <2>1, ChainInFile, ChainAdvances
    <2>3. IntactAt(g, r[k], t[k+1]) /\ t[k+1] \in Entry
        BY <1>5, <1>7, <2>1, ElementOfSeq DEF Chain
    <2> DEFINE p == r[k]
    <2>4. p \in Nat /\ p >= 1 /\ p >= L + 1
        BY <1>8, <1>11, <2>2, <1>1
    <2> HIDE DEF p
    <2>5. p <= Len(g)
        BY <1>2, <2>3, <2>4, IntactInFile DEF p
    <2>6. Len(g) = Len(f) /\ p \in 1..Len(f) /\ p \in 1..Len(g) /\ p \notin 1..L
        BY <1>1, <1>2, <2>4, <2>5
    <2>7. g[p] = <<t[k+1], 1>>
        <3>1. 1 \in 1..Size[t[k+1]] /\ p + 1 - 1 = p
            BY <2>3, <2>4, SizeNat
        <3> QED
            BY <2>3, <3>1 DEF IntactAt, p
    <2>8. f[p] = <<t[k+1], 1>>
        BY <1>2, <2>6, <2>7
    <2>9. PICK m \in 0..(Len(s)-1) : q[m] = p
        <3>1. Chain(f, 1, s, q) /\ q[Len(s)] = Len(f) + 1 /\ p \in 1..Len(f)
            BY <1>6, <2>6
        <3>2. FirstCell(f, p)
            BY <2>8 DEF FirstCell
        <3> QED
            BY <3>1, <3>2, FirstCellsAreStarts
    <2>10. m # 0
        BY <1>1, <1>6, <2>4, <2>9
    <2>11. m \in 1..(Len(s)-1)
        BY <1>5, <2>9, <2>10
    <2> QED
        BY <2>9, <2>11 DEF p
<1>14. ASSUME NEW k \in 1..(Len(t)-1), NEW m \in 1..(Len(s)-1), r[k] = q[m]
       PROVE  m >= k
    <2> DEFINE Bad == {j \in 1..(Len(t)-1) : \E i \in 1..(Len(s)-1) : r[j] = q[i] /\ i < j}
    <2>1. ASSUME NEW j \in Bad, \A n \in Bad : j <= n
          PROVE  FALSE
        <3>1. j \in 1..(Len(t)-1) /\ j \in Nat
            BY <1>5
        <3>2. PICK i \in 1..(Len(s)-1) : r[j] = q[i] /\ i < j
            OBVIOUS
        <3>3. j - 1 \in 1..(Len(t)-1) /\ ~(j <= j - 1) /\ j \in 1..Len(t) /\ j - 1 \in 0..Len(t)
            BY <1>5, <3>1, <3>2
        <3>4. PICK h \in 1..(Len(s)-1) : r[j-1] = q[h]
            BY <1>13, <3>3
        <3>5. h >= j - 1
            <4>1. j - 1 \notin Bad
                <5> HIDE DEF Bad
                <5> QED
                    BY <2>1, <3>3
            <4>2. ~(h < j - 1)
                BY <3>3, <3>4, <4>1
            <4> QED
                BY <3>1, <3>4, <4>2, <1>5
        <3>6. r[j] = r[j-1] + Size[t[j]] /\ t[j] \in Entry
            BY <1>5, <1>7, <3>3, ElementOfSeq DEF Chain
        <3>7. r[j-1] < r[j]
            <4>1. r[j-1] \in Nat
                BY <1>7, <3>3
            <4>2. Size[t[j]] \in Nat /\ Size[t[j]] > 0
                BY <3>6, SizeNat
            <4> HIDE DEF Bad, s, t
            <4> QED
                BY <3>6, <4>1, <4>2
        <3>8. i <= h /\ i \in 0..Len(s) /\ h \in 0..Len(s)
            BY <1>5, <3>1, <3>2, <3>4, <3>5
        <3>9. q[i] <= q[h]
            BY <1>6, <3>8, ChainAdvances
        <3>10. q[i] \in Nat /\ q[h] \in Nat
            BY <1>6, <3>8
        <3> HIDE DEF Bad, s, t
        <3>11. q[h] < q[i]
            BY <3>2, <3>4, <3>7
        <3> QED
            BY <3>9, <3>10, <3>11
    <2>2. Bad = {}
        <3>1. Bad \in SUBSET Nat
            BY <1>5
        <3> HIDE DEF Bad
        <3> QED
            BY <2>1, <3>1, Least
    <2>3. ~(m < k)
        BY <2>2, <1>14
    <2> QED
        BY <2>3, <1>5
<1>15. Len(t) <= Len(s)
    <2>1. CASE Len(t) = 1
        BY <2>1, <1>5, <1>12
    <2>2. CASE Len(t) # 1
        <3>1. Len(t) - 1 \in 1..(Len(t)-1)
            <4> DEFINE n == Len(t)
            <4>1. n \in Nat /\ n >= 1 /\ n # 1
                BY <2>2, <1>5, <1>10
            <4> HIDE DEF n
            <4>2. n - 1 \in 1..(n-1)
                BY <4>1
            <4> QED
                BY <4>2 DEF n
        <3>2. PICK m \in 1..(Len(s)-1) : r[Len(t)-1] = q[m]
            BY <3>1, <1>13
        <3>3. m >= Len(t) - 1
            BY <3>1, <3>2, <1>14
        <3> QED
            BY <3>2, <3>3, <1>5
    <2> QED
        BY <2>1, <2>2
<1> QED
    BY <1>11, <1>15 DEF g, s, t, L

\* The log of a longer file begins with that of the shorter, residues included.
LEMMA LongerFile ==
    ASSUME NEW f \in Seq(Cell), NEW g \in Seq(Cell), Extends(g, f)
    PROVE  Range(Parsed(f)) \subseteq Range(Parsed(g)) /\ StopAt(f) <= StopAt(g)
<1>1. NoMoreIntact(f, g)
    BY ExtendsKeepsIntact
<1>2. /\ Len(Parsed(f)) <= Len(Parsed(g)) /\ StopAt(f) <= StopAt(g)
      /\ \A k \in 1..Len(Parsed(f)) : Parsed(f)[k] = Parsed(g)[k]
    BY <1>1, LessIntactIsPrefix
<1>3. /\ Len(Parsed(f)) \in Nat /\ DOMAIN Parsed(f) = 1..Len(Parsed(f))
      /\ Len(Parsed(g)) \in Nat /\ DOMAIN Parsed(g) = 1..Len(Parsed(g))
    BY ParsedType, LenProperties
<1>4. \A k \in DOMAIN Parsed(f) : k \in DOMAIN Parsed(g) /\ Parsed(f)[k] = Parsed(g)[k]
    BY <1>2, <1>3
<1> QED
    BY <1>2, <1>4 DEF Range

LEMMA RangeOfAppend ==
    ASSUME NEW s \in Seq(Entry), NEW e \in Entry
    PROVE  e \in Range(Append(s, e))
<1>1. /\ Append(s, e) \in Seq(Entry) /\ Len(s) + 1 \in 1..Len(Append(s, e))
      /\ Append(s, e)[Len(s)+1] = e
    OBVIOUS
<1>2. DOMAIN Append(s, e) = 1..Len(Append(s, e))
    BY <1>1, LenProperties
<1> QED
    BY <1>1, <1>2 DEF Range

LEMMA EmptyFile == Parsed(<<>>) = <<>> /\ StopAt(<<>>) = 1
<1>1. <<>> \in Seq(Cell) /\ Len(<<>>) = 0
    BY EmptySeq
<1>2. StopAt(<<>>) = 1
    <2>1. StopAt(<<>>) \in 1..(Len(<<>>)+1)
        BY <1>1, ParsedType
    <2> QED
        BY <1>1, <2>1
<1>3. PICK q : Complete(<<>>, 1, Parsed(<<>>), q)
    BY <1>1, ParsedComplete
<1>4. Parsed(<<>>) \in Seq(Entry) /\ Len(Parsed(<<>>)) \in Nat
    BY <1>1, ParsedType
<1>5. q[Len(Parsed(<<>>))] \in (Len(Parsed(<<>>))+1)..1
    <2>1. Len(Parsed(<<>>)) \in 0..Len(Parsed(<<>>)) /\ Len(<<>>) + 1 = 1
        BY <1>1, <1>4
    <2> QED
        BY <1>1, <1>3, <2>1, ChainInFile DEF Complete
<1>6. Len(Parsed(<<>>)) = 0
    BY <1>4, <1>5
<1> QED
    BY <1>2, <1>4, <1>6, EmptySeq

-----------------------------------------------------------------------------
(* The inductive invariant.                                                  *)

\* What was synced is the beginning of the file.
SyncedIsPrefix == Extends(file, synced)

\* A client that may append is at the end of the file.
PositionAtEnd == ready => offset = Len(file)

\* An entry that waits for its Sync is one a recovery finds, but for a residue.
PendingFound == pending # None => Residue \/ pending \in Range(Parsed(file))

\* The synced entries stop at a residue, and then the file's stop at the same,
\* or they have all that was acknowledged.
AckedOrResidue ==
    \/ StopAt(synced) <= Len(synced) /\ StopAt(file) = StopAt(synced)
    \/ acked \subseteq Range(Parsed(synced))

IInv == TypeOK /\ SyncedIsPrefix /\ PositionAtEnd /\ PendingFound /\ AckedOrResidue

\* IInv says what the runs check.
LEMMA IInvSuffices ==
    ASSUME IInv
    PROVE  AppendsAtEnd /\ AckedWhileClean
<1>1. AppendsAtEnd
    <2>1. ready /\ pending = None => offset = Len(file)
        BY DEF IInv, PositionAtEnd
    <2>2. ASSUME ~Residue, file # <<>>, NEW e \in Entry
          PROVE  LET after == Parsed(Written(file, 0, e, Size[e]))
                 IN  after[1] = e /\ Len(after) <= Len(Parsed(file))
        <3>1. file \in Seq(Cell) /\ Len(file) \in Nat /\ StopAt(file) \in 1..(Len(file)+1)
            BY ParsedType, LenProperties DEF IInv, TypeOK
        <3>2. StopAt(file) = Len(file) + 1
            BY <2>2, <3>1 DEF Residue
        <3> QED
            BY <2>2, <3>1, <3>2, OverwriteAddsNone
    <2> QED
        BY <2>1, <2>2 DEF AppendsAtEnd
<1>2. AckedWhileClean
    <2>1. file \in Seq(Cell) /\ synced \in Seq(Cell) /\ Len(file) \in Nat /\ Len(synced) \in Nat
        BY LenProperties DEF IInv, TypeOK
    <2>2. Len(synced) <= Len(file)
        BY DEF IInv, SyncedIsPrefix, Extends
    <2>3. StopAt(synced) \in Nat
        BY <2>1, ParsedType
    <2>4. StopAt(synced) <= Len(synced) /\ StopAt(file) = StopAt(synced) => Residue
        BY <2>1, <2>2, <2>3 DEF Residue
    <2> QED
        BY <2>4 DEF IInv, AckedOrResidue, AckedWhileClean
<1> QED
    BY <1>1, <1>2

\* A write of k cells of e by a client that may append.
LEMMA WriteStep ==
    ASSUME IInv, NEW e \in Entry, MayAppend(e), NEW k \in 0..Size[e],
           file' = Written(file, offset, e, k)
    PROVE  /\ file' = Written(file, Len(file), e, k)
           /\ file' \in Seq(Cell) /\ Len(file') = Len(file) + k
           /\ Extends(file', file) /\ Extends(file', synced)
           /\ Residue => Parsed(file') = Parsed(file) /\ StopAt(file') = StopAt(file)
           /\ ~Residue => StopAt(file) = Len(file) + 1
<1>1. file \in Seq(Cell) /\ synced \in Seq(Cell) /\ Len(file) \in Nat /\ Len(synced) \in Nat
    BY LenProperties DEF IInv, TypeOK
<1>2. offset = Len(file)
    BY DEF IInv, PositionAtEnd, MayAppend
<1>3. /\ file' \in Seq(Cell) /\ Len(file') = Len(file) + k
      /\ Extends(file', file)
    BY <1>1, <1>2, WrittenAtEnd
<1>4. Extends(file', synced)
    <2>1. /\ Len(synced) <= Len(file) /\ Len(file) <= Len(file')
          /\ \A i \in 1..Len(synced) : file[i] = synced[i]
          /\ \A i \in 1..Len(file) : file'[i] = file[i]
        BY <1>3 DEF IInv, SyncedIsPrefix, Extends
    <2>2. Len(file') \in Nat
        BY <1>3, LenProperties
    <2>3. \A i \in 1..Len(synced) : i \in 1..Len(file)
        BY <1>1, <2>1
    <2>4. \A i \in 1..Len(synced) : file'[i] = synced[i]
        BY <2>1, <2>3
    <2>5. Len(synced) <= Len(file')
        BY <1>1, <2>1, <2>2
    <2> QED
        BY <2>4, <2>5 DEF Extends
<1>5. Residue => Parsed(file') = Parsed(file) /\ StopAt(file') = StopAt(file)
    BY <1>1, <1>2, NothingBehindResidue DEF Residue
<1>6. ~Residue => StopAt(file) = Len(file) + 1
    BY <1>1, ParsedType DEF Residue
<1> QED
    BY <1>2, <1>3, <1>4, <1>5, <1>6

\* As long as the synced file stops at a residue, a write does not move the place.
LEMMA WriteKeepsAcked ==
    ASSUME IInv, NEW e \in Entry, MayAppend(e), NEW k \in 0..Size[e],
           file' = Written(file, offset, e, k), synced' = synced, acked' = acked
    PROVE  AckedOrResidue'
<1>1. CASE StopAt(synced) <= Len(synced) /\ StopAt(file) = StopAt(synced)
    <2>1. /\ Len(file) \in Nat /\ Len(synced) \in Nat /\ Len(synced) <= Len(file)
          /\ StopAt(synced) \in Nat
        BY LenProperties, ParsedType DEF IInv, TypeOK, SyncedIsPrefix, Extends
    <2>2. Residue
        BY <1>1, <2>1 DEF Residue
    <2>3. StopAt(file') = StopAt(file)
        BY <2>2, WriteStep
    <2> QED
        BY <1>1, <2>3 DEF AckedOrResidue
<1>2. CASE acked \subseteq Range(Parsed(synced))
    BY <1>2 DEF AckedOrResidue
<1> QED
    BY <1>1, <1>2 DEF IInv, AckedOrResidue

\* A crash leaves the synced file, longer or not, and nothing new in it.
LEMMA CrashStep ==
    ASSUME IInv, Crash
    PROVE  /\ file' \in Seq(Cell) /\ Extends(file', synced) /\ NoMoreIntact(file', file)
           /\ synced' = file'
<1>1. file \in Seq(Cell) /\ synced \in Seq(Cell) /\ Len(file) \in Nat /\ Len(synced) \in Nat
    BY LenProperties DEF IInv, TypeOK
<1> DEFINE old(i) == IF i <= Len(synced) THEN synced[i] ELSE Blank
           new == {i \in 1..Len(file) : file[i] # old(i)}
<1>2. PICK n \in Len(synced)..Len(file), kept \in SUBSET new :
            file' = [i \in 1..n |-> IF i \in kept THEN file[i] ELSE old(i)]
    BY DEF Crash
<1> DEFINE cell(i) == IF i \in kept THEN file[i] ELSE old(i)
<1>3. n \in Nat /\ n <= Len(file) /\ Len(synced) <= n
    BY <1>1, <1>2
<1>4. \A i \in 1..Len(synced) : synced[i] = file[i]
    BY DEF IInv, SyncedIsPrefix, Extends
<1>5. \A i \in 1..n : i \in 1..Len(file) /\ (i <= Len(synced) => i \in 1..Len(synced))
    BY <1>1, <1>3
<1>6. \A i \in 1..n : cell(i) \in {file[i], Blank} /\ (i <= Len(synced) => cell(i) = synced[i])
    BY <1>4, <1>5
<1>7. \A i \in 1..n : cell(i) \in Cell
    BY <1>1, <1>5, <1>6, ElementOfSeq DEF Cell
<1>8. file' = [i \in 1..n |-> cell(i)]
    BY <1>2
<1> HIDE DEF cell
<1>9. file' \in Seq(Cell)
    BY <1>3, <1>7, <1>8, IsASeq
<1>10. Len(file') = n /\ \A i \in 1..n : file'[i] = cell(i)
    <2>1. DOMAIN file' = 1..n /\ DOMAIN file' = 1..Len(file') /\ Len(file') \in Nat
        BY <1>8, <1>9, LenProperties
    <2> QED
        BY <1>3, <1>8, <2>1
<1>11. Extends(file', synced)
    <2>1. \A i \in 1..Len(synced) : i \in 1..n /\ i <= Len(synced)
        BY <1>1, <1>3
    <2> QED
        BY <1>3, <1>6, <1>10, <2>1 DEF Extends
<1>12. NoMoreIntact(file', file)
    BY <1>1, <1>3, <1>6, <1>9, <1>10, HolesLoseOnly
<1> QED
    BY <1>9, <1>11, <1>12 DEF Crash

-----------------------------------------------------------------------------
(* One step of the WAL.                                                      *)

LEMMA ChunkEndNat ==
    ASSUME NEW f \in Seq(Cell), NEW last \in CorruptEnds(f)
    PROVE  ChunkEnd(f, last) \in Nat
<1>1. Len(f) \in Nat /\ StopAt(f) \in Nat /\ StopAt(f) >= 1
    BY ParsedType, LenProperties
<1>2. last \in Nat
    BY <1>1, SizeNat, WALAssumption DEF CorruptEnds
<1>3. Chunk \in Nat /\ Chunk >= 1
    BY WALAssumption
<1> DEFINE rounds == (last + Chunk - 1) \div Chunk
<1>4. rounds \in Nat
    BY <1>2, <1>3
<1> HIDE DEF rounds
<1>5. Chunk * rounds \in Nat
    BY <1>3, <1>4
<1> QED
    BY <1>1, <1>5 DEF ChunkEnd, rounds

\* No step breaks the types.
LEMMA StepTypes ==
    ASSUME IInv, [Next]_vars
    PROVE  TypeOK'
<1>1. TypeOK
    BY DEF IInv
<1>2. file \in Seq(Cell) /\ Len(file) \in Nat
    BY <1>1, LenProperties DEF TypeOK
<1>3. CASE NewWAL
    BY <1>1, <1>3 DEF TypeOK, NewWAL
<1>4. ASSUME NEW e \in Entry, AppendWrite(e)
      PROVE  TypeOK'
    <2>1. Size[e] \in 0..Size[e] /\ Size[e] \in Nat
        BY SizeNat
    <2>2. file' \in Seq(Cell)
        BY <1>4, <2>1, WriteStep DEF AppendWrite
    <2> QED
        BY <1>1, <1>4, <2>1, <2>2 DEF TypeOK, AppendWrite
<1>5. ASSUME NEW e \in Entry, NEW k \in 0..(Size[e]-1), AppendWriteFails(e, k)
      PROVE  TypeOK'
    <2>1. k \in 0..Size[e] /\ k \in Nat
        BY SizeNat
    <2>2. file' \in Seq(Cell)
        BY <1>5, <2>1, WriteStep DEF AppendWriteFails
    <2>3. offset' \in Nat
        BY <1>1, <1>5, <2>1 DEF TypeOK, AppendWriteFails
    <2> QED
        BY <1>1, <1>5, <2>2, <2>3 DEF TypeOK, AppendWriteFails
<1>6. CASE AppendSync
    BY <1>1, <1>6 DEF TypeOK, AppendSync
<1>7. CASE AppendSyncFails
    BY <1>1, <1>7 DEF TypeOK, AppendSyncFails
<1>8. CASE RecoverOK
    BY <1>1, <1>2, <1>8 DEF TypeOK, RecoverOK
<1>9. CASE RecoverCorrupt
    <2>1. offset' \in Nat
        BY <1>2, <1>9, ChunkEndNat DEF RecoverCorrupt
    <2> QED
        BY <1>1, <1>9, <2>1 DEF TypeOK, RecoverCorrupt
<1>10. CASE RecoverReadFails
    <2>1. CASE offset' = offset
        BY <1>1, <1>10, <2>1 DEF TypeOK, RecoverReadFails
    <2>2. ASSUME NEW n \in 0..(Len(file) \div Chunk), offset' = n * Chunk
          PROVE  TypeOK'
        <3>1. n \in Nat /\ Chunk \in Nat
            BY WALAssumption
        <3>2. offset' \in Nat
            BY <2>2, <3>1
        <3> QED
            BY <1>1, <1>10, <3>2 DEF TypeOK, RecoverReadFails
    <2> QED
        BY <1>10, <2>1, <2>2 DEF RecoverReadFails
<1>11. CASE Close
    BY <1>1, <1>11 DEF TypeOK, Close
<1>12. CASE Crash
    <2>1. file' \in Seq(Cell) /\ synced' = file'
        BY <1>12, CrashStep
    <2> QED
        BY <1>1, <1>12, <2>1 DEF TypeOK, Crash
<1>13. CASE UNCHANGED vars
    BY <1>1, <1>13 DEF TypeOK, vars
<1> QED
    BY <1>3, <1>4, <1>5, <1>6, <1>7, <1>8, <1>9, <1>10, <1>11, <1>12, <1>13 DEF Next

\* No step separates the synced file from the file, or a client that may append
\* from the end.
LEMMA StepPositions ==
    ASSUME IInv, [Next]_vars
    PROVE  SyncedIsPrefix' /\ PositionAtEnd'
<1>1. /\ file \in Seq(Cell) /\ Len(file) \in Nat
      /\ Extends(file, synced) /\ (ready => offset = Len(file))
    BY LenProperties DEF IInv, TypeOK, SyncedIsPrefix, PositionAtEnd
<1>2. CASE NewWAL
    <2>1. Len(<<>>) = 0
        BY EmptySeq
    <2> QED
        BY <1>1, <1>2, <2>1 DEF NewWAL, SyncedIsPrefix, PositionAtEnd
<1>3. ASSUME NEW e \in Entry, AppendWrite(e)
      PROVE  SyncedIsPrefix' /\ PositionAtEnd'
    <2>1. Size[e] \in 0..Size[e]
        BY SizeNat
    <2>2. Extends(file', synced) /\ Len(file') = Len(file) + Size[e]
        BY <1>3, <2>1, WriteStep DEF AppendWrite
    <2> QED
        BY <1>1, <1>3, <2>2 DEF AppendWrite, SyncedIsPrefix, PositionAtEnd
<1>4. ASSUME NEW e \in Entry, NEW k \in 0..(Size[e]-1), AppendWriteFails(e, k)
      PROVE  SyncedIsPrefix' /\ PositionAtEnd'
    <2>1. k \in 0..Size[e]
        BY SizeNat
    <2>2. Extends(file', synced)
        BY <1>4, <2>1, WriteStep DEF AppendWriteFails
    <2> QED
        BY <1>4, <2>2 DEF AppendWriteFails, SyncedIsPrefix, PositionAtEnd
<1>5. CASE AppendSync
    <2>1. Extends(file, file)
        BY <1>1 DEF Extends
    <2> QED
        BY <1>1, <1>5, <2>1 DEF AppendSync, SyncedIsPrefix, PositionAtEnd
<1>6. CASE AppendSyncFails
    BY <1>1, <1>6 DEF AppendSyncFails, SyncedIsPrefix, PositionAtEnd
<1>7. CASE RecoverOK
    BY <1>1, <1>7 DEF RecoverOK, SyncedIsPrefix, PositionAtEnd
<1>8. CASE RecoverCorrupt
    BY <1>1, <1>8 DEF RecoverCorrupt, SyncedIsPrefix, PositionAtEnd
<1>9. CASE RecoverReadFails
    BY <1>1, <1>9 DEF RecoverReadFails, SyncedIsPrefix, PositionAtEnd
<1>10. CASE Close
    BY <1>1, <1>10 DEF Close, SyncedIsPrefix, PositionAtEnd
<1>11. CASE Crash
    <2>1. file' \in Seq(Cell) /\ synced' = file' /\ Len(file') \in Nat
        BY <1>11, CrashStep, LenProperties
    <2>2. Extends(file', file')
        BY <2>1 DEF Extends
    <2> QED
        BY <1>11, <2>1, <2>2 DEF Crash, SyncedIsPrefix, PositionAtEnd
<1>12. CASE UNCHANGED vars
    BY <1>1, <1>12 DEF vars, SyncedIsPrefix, PositionAtEnd
<1> QED
    BY <1>2, <1>3, <1>4, <1>5, <1>6, <1>7, <1>8, <1>9, <1>10, <1>11, <1>12 DEF Next

\* No step loses a pending entry or an acknowledged one, but for a residue.
LEMMA StepEntries ==
    ASSUME IInv, [Next]_vars
    PROVE  PendingFound' /\ AckedOrResidue'
<1>1. PendingFound /\ AckedOrResidue
    BY DEF IInv
<1>2. /\ file \in Seq(Cell) /\ synced \in Seq(Cell) /\ Extends(file, synced)
      /\ Len(file) \in Nat /\ Len(synced) \in Nat
    BY LenProperties DEF IInv, TypeOK, SyncedIsPrefix
<1>3. ASSUME UNCHANGED <<file, synced, pending, acked>>
      PROVE  PendingFound' /\ AckedOrResidue'
    BY <1>1, <1>3 DEF PendingFound, AckedOrResidue, Residue
<1>4. ASSUME NEW e \in Entry, AppendWrite(e)
      PROVE  PendingFound' /\ AckedOrResidue'
    <2>1. Size[e] \in 0..Size[e] /\ Size[e] \in Nat
        BY SizeNat
    <2>2. /\ file' = Written(file, Len(file), e, Size[e])
          /\ file' \in Seq(Cell) /\ Len(file') = Len(file) + Size[e]
          /\ Residue => StopAt(file') = StopAt(file)
          /\ ~Residue => StopAt(file) = Len(file) + 1
        BY <1>4, <2>1, WriteStep DEF AppendWrite
    <2>3. AckedOrResidue'
        BY <1>4, <2>1, WriteKeepsAcked DEF AppendWrite
    <2>4. CASE Residue
        <3>1. StopAt(file) <= Len(file) /\ StopAt(file) \in Nat
            BY <1>2, <2>4, ParsedType DEF Residue
        <3>2. StopAt(file') <= Len(file')
            BY <1>2, <2>1, <2>2, <2>4, <3>1
        <3> QED
            BY <2>3, <3>2 DEF PendingFound, Residue
    <2>5. CASE ~Residue
        <3>1. Parsed(file') = Append(Parsed(file), e)
            BY <1>2, <2>2, <2>5, WholeIsNext
        <3>2. e \in Range(Parsed(file'))
            BY <1>2, <3>1, RangeOfAppend, ParsedType
        <3> QED
            BY <1>4, <2>3, <3>2 DEF PendingFound, AppendWrite
    <2> QED
        BY <2>4, <2>5
<1>5. ASSUME NEW e \in Entry, NEW k \in 0..(Size[e]-1), AppendWriteFails(e, k)
      PROVE  PendingFound' /\ AckedOrResidue'
    <2>1. k \in 0..Size[e]
        BY SizeNat
    <2>2. AckedOrResidue'
        BY <1>5, <2>1, WriteKeepsAcked DEF AppendWriteFails
    <2>3. pending' = None
        BY <1>5 DEF AppendWriteFails, MayAppend
    <2> QED
        BY <2>2, <2>3 DEF PendingFound
<1>6. CASE AppendSync
    <2>1. file' = file /\ synced' = file /\ pending' = None /\ acked' = acked \cup {pending}
        BY <1>6 DEF AppendSync
    <2>2. PendingFound'
        BY <2>1 DEF PendingFound
    <2>3. CASE Residue
        BY <2>1, <2>2, <2>3 DEF Residue, AckedOrResidue
    <2>4. CASE ~Residue
        <3>1. pending \in Range(Parsed(file))
            BY <1>1, <1>6, <2>4 DEF PendingFound, AppendSync
        <3>2. acked \subseteq Range(Parsed(synced))
            BY <2>4, IInvSuffices DEF AckedWhileClean
        <3>3. Range(Parsed(synced)) \subseteq Range(Parsed(file))
            BY <1>2, LongerFile
        <3> QED
            BY <2>1, <2>2, <3>1, <3>2, <3>3 DEF AckedOrResidue
    <2> QED
        BY <2>3, <2>4
<1>7. CASE AppendSyncFails
    BY <1>1, <1>7 DEF AppendSyncFails, PendingFound, AckedOrResidue
<1>8. CASE Crash
    <2>1. /\ file' \in Seq(Cell) /\ Extends(file', synced) /\ NoMoreIntact(file', file)
          /\ synced' = file' /\ pending' = None /\ acked' = acked
        BY <1>8, CrashStep DEF Crash
    <2>2. Len(file') \in Nat /\ StopAt(file') \in Nat /\ StopAt(synced) \in Nat
        BY <1>2, <2>1, LenProperties, ParsedType
    <2>3. Range(Parsed(synced)) \subseteq Range(Parsed(file')) /\ StopAt(synced) <= StopAt(file')
        BY <1>2, <2>1, LongerFile
    <2>4. StopAt(file') <= StopAt(file)
        BY <1>2, <2>1, LessIntactIsPrefix
    <2>5. CASE StopAt(synced) <= Len(synced) /\ StopAt(file) = StopAt(synced)
        <3>1. StopAt(file') = StopAt(synced)
            BY <2>2, <2>3, <2>4, <2>5
        <3>2. Len(synced) <= Len(file')
            BY <2>1 DEF Extends
        <3>3. StopAt(file') <= Len(file')
            BY <1>2, <2>2, <2>5, <3>1, <3>2
        <3> QED
            BY <2>1, <3>3 DEF PendingFound, AckedOrResidue
    <2>6. CASE acked \subseteq Range(Parsed(synced))
        BY <2>1, <2>3, <2>6 DEF PendingFound, AckedOrResidue
    <2> QED
        BY <1>1, <2>5, <2>6 DEF AckedOrResidue
<1>9. CASE NewWAL
    BY <1>3, <1>9 DEF NewWAL
<1>10. CASE RecoverOK
    BY <1>3, <1>10 DEF RecoverOK
<1>11. CASE RecoverCorrupt
    BY <1>3, <1>11 DEF RecoverCorrupt
<1>12. CASE RecoverReadFails
    BY <1>3, <1>12 DEF RecoverReadFails
<1>13. CASE Close
    BY <1>3, <1>13 DEF Close
<1>14. CASE UNCHANGED vars
    BY <1>3, <1>14 DEF vars
<1> QED
    BY <1>4, <1>5, <1>6, <1>7, <1>8, <1>9, <1>10, <1>11, <1>12, <1>13, <1>14 DEF Next

-----------------------------------------------------------------------------
(* Theorems.                                                                 *)

\* The inductive invariant, for any entries of any lengths, any length of header
\* and chunk, and any sequence of failed writes, failed syncs and crashes.
THEOREM WALAlwaysSound == Spec => []IInv
<1>1. Init => IInv
    <2> SUFFICES ASSUME Init PROVE IInv
        OBVIOUS
    <2>1. TypeOK
        BY EmptySeq DEF Init, TypeOK
    <2>2. Len(<<>>) = 0
        BY EmptySeq
    <2>3. SyncedIsPrefix
        BY <2>2 DEF Init, SyncedIsPrefix, Extends
    <2> QED
        BY <2>1, <2>2, <2>3 DEF Init, IInv, PositionAtEnd, PendingFound, AckedOrResidue
<1>2. IInv /\ [Next]_vars => IInv'
    BY StepTypes, StepPositions, StepEntries DEF IInv
<1> QED
    BY <1>1, <1>2, PTL DEF Spec

\* The type invariant of the WAL.
THEOREM TypeCorrect == Spec => []TypeOK
<1>1. IInv => TypeOK
    BY DEF IInv
<1> QED
    BY <1>1, WALAlwaysSound, PTL

\* A client that appends only to a file NewWAL created, or after a Recover without
\* an error, never overwrites; and what an append costs that did not recover.
THEOREM CarefulClientAppends == Spec => []AppendsAtEnd
<1>1. IInv => AppendsAtEnd
    BY IInvSuffices
<1> QED
    BY <1>1, WALAlwaysSound, PTL

\* An entry that was written and not yet synced is whole in the file.
PendingWhole == pending # None => \E p \in 1..Len(file) : IntactAt(file, p, pending)

\* What is whole in a file is whole in any that extends it.
LEMMA WholeStays ==
    ASSUME NEW f \in Seq(Cell), NEW g \in Seq(Cell), Extends(g, f), NEW e \in Entry,
           \E p \in 1..Len(f) : IntactAt(f, p, e)
    PROVE  \E p \in 1..Len(g) : IntactAt(g, p, e)
<1>1. PICK p \in 1..Len(f) : IntactAt(f, p, e)
    OBVIOUS
<1>2. Len(f) \in Nat /\ Len(g) \in Nat /\ Len(f) <= Len(g)
    BY LenProperties DEF Extends
<1>3. p \in Nat \ {0} /\ p \in 1..Len(g)
    BY <1>1, <1>2
<1>4. IntactAt(g, p, e)
    BY <1>1, <1>3, ExtendsKeepsIntact DEF NoMoreIntact
<1> QED
    BY <1>3, <1>4

\* An acknowledged entry is whole on the disk for ever, residues or not.
LEMMA AckedNeverDestroyed == Spec => []AckedOnDisk
<1>1. Init => PendingWhole /\ AckedOnDisk
    BY DEF Init, PendingWhole, AckedOnDisk
<1>2. IInv /\ IInv' /\ PendingWhole /\ AckedOnDisk /\ [Next]_vars
        => PendingWhole' /\ AckedOnDisk'
    <2> SUFFICES ASSUME IInv, IInv', PendingWhole, AckedOnDisk, [Next]_vars
                 PROVE  PendingWhole' /\ AckedOnDisk'
        OBVIOUS
    <2>1. /\ file \in Seq(Cell) /\ synced \in Seq(Cell) /\ file' \in Seq(Cell)
          /\ synced' \in Seq(Cell) /\ pending \in Entry \cup {None} /\ acked \subseteq Entry
          /\ Len(file) \in Nat
        BY LenProperties DEF IInv, TypeOK
    <2>2. ASSUME NEW e \in Entry, AppendWrite(e)
          PROVE  PendingWhole' /\ AckedOnDisk'
        <3>1. /\ Size[e] \in 0..Size[e] /\ Size[e] \in Nat /\ Size[e] > 0
            BY SizeNat
        <3>2. file' = Written(file, Len(file), e, Size[e])
            BY <2>2, <3>1, WriteStep DEF AppendWrite
        <3>3. Len(file') = Len(file) + Size[e] /\ \A j \in 1..Size[e] : file'[Len(file) + j] = <<e, j>>
            BY <2>1, <3>1, <3>2, WrittenAtEnd
        <3> DEFINE p == Len(file) + 1
        <3>4. p \in 1..Len(file') /\ p + Size[e] - 1 <= Len(file')
            BY <2>1, <3>1, <3>3
        <3>5. \A j \in 1..Size[e] : file'[p + j - 1] = <<e, j>>
            <4>1. \A j \in 1..Size[e] : p + j - 1 = Len(file) + j
                BY <2>1, <3>1
            <4> QED
                BY <3>3, <4>1
        <3>6. \E q \in 1..Len(file') : IntactAt(file', q, e)
            BY <3>4, <3>5 DEF IntactAt
        <3> QED
            BY <2>2, <3>6 DEF PendingWhole, AckedOnDisk, AppendWrite
    <2>3. CASE AppendSync
        <3>1. \A e \in acked : \E p \in 1..Len(file) : IntactAt(file, p, e)
            BY <2>1, WholeStays DEF AckedOnDisk, IInv, SyncedIsPrefix
        <3>2. \E p \in 1..Len(file) : IntactAt(file, p, pending)
            BY <2>3 DEF PendingWhole, AppendSync
        <3> QED
            BY <2>3, <3>1, <3>2 DEF PendingWhole, AckedOnDisk, AppendSync
    <2>4. CASE Crash
        <3>1. Extends(file', synced) /\ synced' = file'
            BY <2>4, CrashStep
        <3>2. \A e \in acked : \E p \in 1..Len(file') : IntactAt(file', p, e)
            BY <2>1, <3>1, WholeStays DEF AckedOnDisk
        <3> QED
            BY <2>4, <3>1, <3>2 DEF PendingWhole, AckedOnDisk, Crash
    <2>5. CASE \/ NewWAL \/ AppendSyncFails \/ RecoverOK \/ RecoverCorrupt
               \/ RecoverReadFails \/ Close \/ UNCHANGED vars
        BY <2>5 DEF PendingWhole, AckedOnDisk, NewWAL, AppendSyncFails, RecoverOK,
                    RecoverCorrupt, RecoverReadFails, Close, vars
    <2>6. ASSUME NEW e \in Entry, NEW k \in 0..(Size[e]-1), AppendWriteFails(e, k)
          PROVE  PendingWhole' /\ AckedOnDisk'
        BY <2>6 DEF PendingWhole, AckedOnDisk, AppendWriteFails, MayAppend
    <2> QED
        BY <2>2, <2>3, <2>4, <2>5, <2>6 DEF Next
<1> QED
    BY <1>1, <1>2, WALAlwaysSound, PTL DEF Spec

\* Until a write leaves a residue, nothing acknowledged is lost, and nothing
\* acknowledged is ever destroyed.
THEOREM AckedSurvives == Spec => []AckedKept
<1>1. IInv => AckedWhileClean
    BY IInvSuffices
<1> QED
    BY <1>1, WALAlwaysSound, AckedNeverDestroyed, PTL DEF AckedKept

\* The WAL implements DurableLog: a write that completes the file is Add, behind a
\* residue a stutter; a Sync is Flush; a crash is Fail of the entries that were
\* not synced and whose cells were not all kept.
THEOREM Refinement == Spec => ImplementsDurableLog
<1> DEFINE log == Parsed(file)
           durable == Len(Parsed(synced))
<1>1. Init => Durable!Init
    BY EmptyFile, EmptySeq DEF Init, Durable!Init
<1>2. IInv /\ [Next]_vars => [Durable!Next]_<<log, durable>>
    <2> SUFFICES ASSUME IInv, [Next]_vars
                 PROVE  Durable!Next \/ UNCHANGED <<log, durable>>
        OBVIOUS
    <2>1. /\ file \in Seq(Cell) /\ synced \in Seq(Cell) /\ Extends(file, synced)
        BY DEF IInv, TypeOK, SyncedIsPrefix
    <2>2. ASSUME UNCHANGED <<file, synced>>
          PROVE  UNCHANGED <<log, durable>>
        BY <2>2
    <2>3. ASSUME NEW e \in Entry, AppendWrite(e)
          PROVE  Durable!Next \/ UNCHANGED <<log, durable>>
        <3>1. Size[e] \in 0..Size[e]
            BY SizeNat
        <3>2. /\ file' = Written(file, Len(file), e, Size[e])
              /\ Residue => Parsed(file') = Parsed(file)
              /\ ~Residue => StopAt(file) = Len(file) + 1
            BY <2>3, <3>1, WriteStep DEF AppendWrite
        <3>3. CASE Residue
            BY <2>3, <3>2, <3>3 DEF AppendWrite
        <3>4. CASE ~Residue
            <4>1. Parsed(file') = Append(Parsed(file), e)
                BY <2>1, <3>2, <3>4, WholeIsNext
            <4>2. Durable!Add(e)
                BY <2>3, <4>1 DEF Durable!Add, AppendWrite
            <4> QED
                BY <4>2 DEF Durable!Next
        <3> QED
            BY <3>3, <3>4
    <2>4. ASSUME NEW e \in Entry, NEW k \in 0..(Size[e]-1), AppendWriteFails(e, k)
          PROVE  UNCHANGED <<log, durable>>
        <3>1. k \in 0..Size[e]
            BY SizeNat
        <3>2. file' = Written(file, Len(file), e, k)
            BY <2>4, <3>1, WriteStep DEF AppendWriteFails
        <3>3. Parsed(file') = Parsed(file)
            BY <2>1, <3>2, TornIsNothing
        <3> QED
            BY <2>4, <3>3 DEF AppendWriteFails
    <2>5. CASE AppendSync
        <3>1. Durable!Flush
            BY <2>5 DEF Durable!Flush, AppendSync
        <3> QED
            BY <3>1 DEF Durable!Next
    <2>6. CASE Crash
        <3>1. /\ file' \in Seq(Cell) /\ Extends(file', synced) /\ NoMoreIntact(file', file)
              /\ synced' = file'
            BY <2>6, CrashStep
        <3> DEFINE n == Len(Parsed(file'))
        <3>2. n <= Len(Parsed(file)) /\ Parsed(file') = SubSeq(Parsed(file), 1, n)
            BY <2>1, <3>1, LessIntactIsPrefix
        <3>3. Len(Parsed(synced)) <= n
            BY <2>1, <3>1, ExtendsKeepsIntact, LessIntactIsPrefix
        <3>4. n \in Nat /\ durable \in Nat /\ Len(log) \in Nat
            BY <2>1, <3>1, ParsedType
        <3>5. n \in durable..Len(log)
            BY <3>2, <3>3, <3>4
        <3>6. Durable!Fail(n)
            BY <3>1, <3>2 DEF Durable!Fail
        <3> QED
            BY <3>5, <3>6 DEF Durable!Next
    <2>7. CASE NewWAL
        BY <2>2, <2>7 DEF NewWAL
    <2>8. CASE AppendSyncFails
        BY <2>2, <2>8 DEF AppendSyncFails
    <2>9. CASE RecoverOK
        BY <2>2, <2>9 DEF RecoverOK
    <2>10. CASE RecoverCorrupt
        BY <2>2, <2>10 DEF RecoverCorrupt
    <2>11. CASE RecoverReadFails
        BY <2>2, <2>11 DEF RecoverReadFails
    <2>12. CASE Close
        BY <2>2, <2>12 DEF Close
    <2>13. CASE UNCHANGED vars
        BY <2>2, <2>13 DEF vars
    <2> QED
        BY <2>3, <2>4, <2>5, <2>6, <2>7, <2>8, <2>9, <2>10, <2>11, <2>12, <2>13 DEF Next
<1> QED
    BY <1>1, <1>2, WALAlwaysSound, PTL DEF Spec, ImplementsDurableLog, Durable!Spec
=============================================================================
