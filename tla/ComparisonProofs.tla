-------------------------- MODULE ComparisonProofs --------------------------
(***************************************************************************)
(* Two comparisons of what others are writing: diff.Compare, which holds   *)
(* the locks of what it compares, and the readers of the Byzantine         *)
(* network, which copy nodes and lock the copies.                          *)
(*                                                                         *)
(* Compare and GlobalDiff, for any states, comparers and writers: the      *)
(* locks taken for the sequences are held until the return, so nothing     *)
(* changes what was compared (SeqsStay).  A pair whose hashes have been    *)
(* equal since the call began has had one hash only (HashesStay), provided *)
(* that it is a pair of two states: a state compared with itself may be    *)
(* reported to differ from itself.                                         *)
(*                                                                         *)
(* CheckConvergence and Stats, for any numbers of nodes, senders and       *)
(* readers and any sample: a copy is how its node begins, for ever         *)
(* (Begins), a node holds what was sent to it, by event and in all         *)
(* (EventsInv), and two copies that differ while nobody broadcast are of   *)
(* nodes that never agree again (Differs).                                 *)
(***************************************************************************)
EXTENDS StateDiff, ByzantineNetwork, FiniteSetTheorems, SequenceTheorems, WellFoundedInduction,
        TLAPS

Apart == \A ab \in Pairs : ab[1] # ab[2]

SeqsStay ==
    \A p \in Comparer :
        pc[p] \in {"relockA", "relockB", "compareData"} => eventSeq[A(p)] = eventSeq[B(p)]

HashesStay ==
    \A p \in Comparer :
        /\ pair[p] # <<>> /\ ~differed[p] => hash[A(p)] = hash[B(p)]
        /\ pc[p] = "readB" /\ ~differed[p] => hash[A(p)] = read[p]
        /\ pc[p] \in {"showA", "showB"} => differed[p]

Inv == TypeOK /\ SeqsStay /\ HashesStay

-----------------------------------------------------------------------------
\* A pair under comparison consists of two states.
LEMMA PairStates ==
    ASSUME TypeOK, NEW p \in Comparer, pair[p] # <<>>
    PROVE  /\ pair[p] \in Pairs /\ A(p) \in State /\ B(p) \in State
           /\ pair[p] = <<A(p), B(p)>>
BY DiffAssumption DEF TypeOK, A, B

LEMMA EmptyPair ==
    ASSUME NEW ab \in Pairs
    PROVE  ab # <<>> /\ ab = <<ab[1], ab[2]>> /\ ab[1] \in State /\ ab[2] \in State
BY DiffAssumption

LEMMA InitInv == Init => Inv
<1> SUFFICES ASSUME Init PROVE Inv
    OBVIOUS
<1>1. held = [p \in Comparer |-> LocksAt(p)]
    BY DEF Init, LocksAt
<1>2. TypeOK
    BY <1>1, DiffAssumption DEF Init, TypeOK, Place
<1>3. SeqsStay /\ HashesStay
    BY DEF Init, SeqsStay, HashesStay
<1> QED
    BY <1>2, <1>3 DEF Inv

\* What the steps of one comparer, that write nothing, do to the others.
OthersStay(p) ==
    /\ UNCHANGED fields
    /\ announced' \in [State -> Writer \cup {None}]
    /\ \A q \in Comparer \ {p} :
          pc'[q] = pc[q] /\ pair'[q] = pair[q] /\ held'[q] = held[q]
          /\ read'[q] = read[q] /\ differed'[q] = differed[q]

\* What such a step has to do for the invariant: the rest is about p alone.
LEMMA OneComparer ==
    ASSUME Inv, NEW p \in Comparer, OthersStay(p),
           pc' \in [Comparer -> Place], pair' \in [Comparer -> Pairs \cup {<<>>}],
           todo' \in [Comparer -> SUBSET Pairs], read' \in [Comparer -> Hash],
           differed' \in [Comparer -> BOOLEAN], DOMAIN held' = Comparer,
           held' = [q \in Comparer |-> held'[q]],
           held'[p] = LocksAt(p)',
           pc'[p] \in {"idle", "next"} <=> pair'[p] = <<>>,
           pc'[p] \in {"relockA", "relockB", "compareData"} =>
              eventSeq[A(p)'] = eventSeq[B(p)'],
           pair'[p] # <<>> /\ ~differed'[p] => hash[A(p)'] = hash[B(p)'],
           pc'[p] = "readB" /\ ~differed'[p] => hash[A(p)'] = read'[p],
           pc'[p] \in {"showA", "showB"} => differed'[p]
    PROVE  Inv'
<1>1. \A q \in Comparer \ {p} : A(q)' = A(q) /\ B(q)' = B(q) /\ LocksAt(q)' = LocksAt(q)
    BY DEF OthersStay, A, B, LocksAt
<1>2. held' = [q \in Comparer |-> LocksAt(q)']
    BY <1>1 DEF OthersStay, Inv, TypeOK
<1>3. TypeOK'
    <2>1. ASSUME NEW q \in Comparer \ {p}
          PROVE  pc'[q] \in {"idle", "next"} <=> pair'[q] = <<>>
        BY DEF OthersStay, Inv, TypeOK
    <2>2. /\ hash' \in [State -> Hash] /\ data' \in [State -> Content]
          /\ eventSeq' \in [State -> Seq(Number)]
          /\ announced' \in [State -> Writer \cup {None}]
        BY DEF OthersStay, fields, Inv, TypeOK
    <2> QED
        BY <1>2, <2>1, <2>2 DEF TypeOK
<1>4. SeqsStay'
    BY <1>1 DEF OthersStay, fields, Inv, SeqsStay
<1>5. HashesStay'
    BY <1>1 DEF OthersStay, fields, Inv, HashesStay
<1> QED
    BY <1>3, <1>4, <1>5 DEF Inv

\* Compare returns, wherever it was: its locks are given back.
LEMMA ReturnInv ==
    ASSUME Inv, NEW p \in Comparer, NEW found \in BOOLEAN, Return(p, found)
    PROVE  Inv'
<1>1. /\ pc'[p] \in {"idle", "next"} /\ pair'[p] = <<>> /\ held'[p] = <<>>
      /\ pc' \in [Comparer -> Place] /\ pair' \in [Comparer -> Pairs \cup {<<>>}]
      /\ todo' \in [Comparer -> SUBSET Pairs] /\ read' \in [Comparer -> Hash]
      /\ differed' \in [Comparer -> BOOLEAN]
      /\ held' = [q \in Comparer |-> held'[q]]
    BY DEF Return, Goto, Inv, TypeOK, Place
<1>2. OthersStay(p)
    BY DEF OthersStay, Return, Goto, fields, Inv, TypeOK
<1>3. LocksAt(p)' = <<>>
    BY <1>1 DEF LocksAt
<1> QED
    BY <1>1, <1>2, <1>3, OneComparer

\* The writer keeps out of what Compare has locked, and what it changes in the
\* hashes of a pair shows in differed.
LEMMA WriteInv ==
    ASSUME Apart, Inv, NEW w \in Writer, NEW s \in State, Write(w, s)
    PROVE  Inv'
<1>0. UNCHANGED locals
    BY DEF Write
<1>1. /\ \A t \in State \ {s} : hash'[t] = hash[t] /\ eventSeq'[t] = eventSeq[t]
      /\ hash' \in [State -> Hash] /\ data' \in [State -> Content]
      /\ eventSeq' \in [State -> Seq(Number)]
      /\ announced' \in [State -> Writer \cup {None}]
    <2>1. CASE \E h \in Hash : hash' = [hash EXCEPT ![s] = h] /\ UNCHANGED <<eventSeq, data>>
        BY <2>1 DEF Write, Inv, TypeOK
    <2>2. CASE /\ \E n \in Number : eventSeq' = [eventSeq EXCEPT ![s] = Append(@, n)]
               /\ UNCHANGED <<hash, data>>
        BY <2>2 DEF Write, Inv, TypeOK
    <2>3. CASE \E c \in Content : data' = [data EXCEPT ![s] = c] /\ UNCHANGED <<hash, eventSeq>>
        BY <2>3 DEF Write, Inv, TypeOK
    <2> QED
        BY <2>1, <2>2, <2>3 DEF Write
<1>2. \A p \in Comparer : A(p)' = A(p) /\ B(p)' = B(p) /\ LocksAt(p)' = LocksAt(p)
    BY <1>0 DEF locals, A, B, LocksAt
<1>3. /\ differed' \in [Comparer -> BOOLEAN]
      /\ \A p \in Comparer : ~differed'[p] =>
            /\ ~differed[p]
            /\ pair[p] # <<>> => hash'[A(p)] = hash'[B(p)]
    BY DEF Write, Inv, TypeOK
<1>4. TypeOK'
    BY <1>0, <1>1, <1>2, <1>3 DEF locals, Inv, TypeOK
<1>5. SeqsStay'
    <2> SUFFICES ASSUME NEW p \in Comparer, pc[p] \in {"relockA", "relockB", "compareData"}
                 PROVE  eventSeq'[A(p)] = eventSeq'[B(p)]
        BY <1>0, <1>2 DEF locals, SeqsStay
    <2>1. pair[p] # <<>>
        BY DEF Inv, TypeOK
    <2>2. held[p] = LocksAt(p)
        BY DEF Inv, TypeOK
    <2>3. held[p][1] = A(p) /\ held[p][2] = B(p) /\ Len(held[p]) \in Nat /\ Len(held[p]) >= 2
        BY <2>2 DEF LocksAt
    <2>4. Holds(p, A(p)) /\ Holds(p, B(p))
        <3>1. 1 \in 1..Len(held[p]) /\ 2 \in 1..Len(held[p])
            BY <2>3
        <3> QED
            BY <2>3, <3>1 DEF Holds
    <2>5. A(p) # s /\ B(p) # s
        BY <2>4 DEF Write
    <2> QED
        BY <1>1, <2>1, <2>5, PairStates DEF Inv, SeqsStay
<1>6. HashesStay'
    <2> SUFFICES ASSUME NEW p \in Comparer
                 PROVE  /\ pair[p] # <<>> /\ ~differed'[p] => hash'[A(p)] = hash'[B(p)]
                        /\ pc[p] = "readB" /\ ~differed'[p] => hash'[A(p)] = read[p]
                        /\ pc[p] \in {"showA", "showB"} => differed'[p]
        BY <1>0, <1>2 DEF locals, HashesStay
    <2>1. pair[p] # <<>> /\ ~differed'[p] => hash'[A(p)] = hash'[B(p)]
        BY <1>3
    <2>2. ASSUME pc[p] = "readB", ~differed'[p]
          PROVE  hash'[A(p)] = read[p]
        <3>1. pair[p] # <<>>
            BY <2>2 DEF Inv, TypeOK
        <3>2. pair[p] \in Pairs /\ A(p) \in State /\ B(p) \in State /\ A(p) # B(p)
            BY <3>1, PairStates DEF Inv, Apart, A, B
        <3>3. hash[A(p)] = read[p] /\ hash[A(p)] = hash[B(p)]
            BY <1>3, <2>2, <3>1 DEF Inv, HashesStay
        <3> QED
            BY <1>1, <1>3, <2>2, <3>1, <3>2, <3>3
    <2>3. pc[p] \in {"showA", "showB"} => differed'[p]
        BY <1>3 DEF Inv, HashesStay, TypeOK
    <2> QED
        BY <2>1, <2>2, <2>3
<1> QED
    BY <1>4, <1>5, <1>6 DEF Inv

\* A hash is read.  The mismatch is found on a pair that has differed.
LEMMA HashStepInv ==
    ASSUME Inv, NEW p \in Comparer, HashStep(p)
    PROVE  Inv'
<1>0. /\ pc[p] \in {"nonemptyA", "nonemptyB", "readA", "readB", "showA"}
      /\ pc'[p] \in {"nonemptyB", "readA", "readB", "showA", "showB", "lockA"}
      /\ UNCHANGED <<fields, announced, held, pair, todo, differed>>
      /\ pc' \in [Comparer -> Place]
      /\ \A q \in Comparer \ {p} : pc'[q] = pc[q]
    BY DEF HashStep, Goto, Inv, TypeOK, Place
<1>1. pair[p] # <<>> /\ A(p) \in State /\ B(p) \in State
    BY <1>0, PairStates DEF Inv, TypeOK
<1>2. A(p)' = A(p) /\ B(p)' = B(p) /\ held[p] = <<>> /\ LocksAt(p)' = <<>>
    BY <1>0 DEF A, B, LocksAt, Inv, TypeOK
<1>3. read' \in [Comparer -> Hash] /\ \A q \in Comparer \ {p} : read'[q] = read[q]
    BY <1>1, DiffAssumption DEF HashStep, Inv, TypeOK
<1>4. OthersStay(p)
    BY <1>0, <1>3 DEF OthersStay, Inv, TypeOK
<1>5. pc'[p] = "readB" /\ ~differed[p] => hash[A(p)] = read'[p]
    BY DEF HashStep, Goto, Inv, TypeOK
<1>6. pc'[p] \in {"showA", "showB"} => differed[p]
    <2>1. CASE pc[p] = "readB"
        <3>1. ~differed[p] => hash[B(p)] = read[p]
            BY <1>1, <2>1 DEF Inv, HashesStay
        <3>2. pc'[p] = IF hash[B(p)] = read[p] THEN "lockA" ELSE "showA"
            BY <2>1 DEF HashStep, Goto, Inv, TypeOK
        <3> QED
            BY <3>1, <3>2 DEF Inv, TypeOK
    <2>2. CASE pc[p] = "showA"
        BY <2>2 DEF Inv, HashesStay
    <2>3. CASE pc[p] \in {"nonemptyA", "nonemptyB", "readA"}
        BY <2>3 DEF HashStep, Goto, Inv, TypeOK
    <2> QED
        BY <1>0, <2>1, <2>2, <2>3
<1>7. pair'[p] # <<>> /\ ~differed'[p] => hash[A(p)'] = hash[B(p)']
    BY <1>0, <1>2 DEF Inv, HashesStay
<1>8. /\ held' = [q \in Comparer |-> held'[q]] /\ DOMAIN held' = Comparer
      /\ pair' \in [Comparer -> Pairs \cup {<<>>}] /\ todo' \in [Comparer -> SUBSET Pairs]
      /\ differed' \in [Comparer -> BOOLEAN]
    BY <1>0 DEF Inv, TypeOK
<1> QED
    BY <1>0, <1>1, <1>2, <1>3, <1>4, <1>5, <1>6, <1>7, <1>8, OneComparer

\* What an RLock puts on top of those held.
LEMMA Pushed ==
    ASSUME NEW a \in State, NEW b \in State
    PROVE  /\ Append(<<>>, a) = <<a>>
           /\ Append(<<a>>, b) = <<a, b>>
           /\ Append(<<a, b>>, a) = <<a, b, a>>
           /\ Append(<<a, b, a>>, b) = <<a, b, a, b>>
<1>1. Append(<<>>, a) = <<a>>
    BY SeqEqual
<1>2. Append(<<a>>, b) = <<a, b>>
    <2>1. /\ Append(<<a>>, b) \in Seq(State) /\ <<a, b>> \in Seq(State)
          /\ Len(Append(<<a>>, b)) = Len(<<a, b>>)
          /\ \A i \in 1..Len(Append(<<a>>, b)) : Append(<<a>>, b)[i] = <<a, b>>[i]
        OBVIOUS
    <2> QED
        BY <2>1, SeqEqual, Zenon
<1>3. Append(<<a, b>>, a) = <<a, b, a>>
    <2>1. /\ Append(<<a, b>>, a) \in Seq(State) /\ <<a, b, a>> \in Seq(State)
          /\ Len(Append(<<a, b>>, a)) = Len(<<a, b, a>>)
          /\ \A i \in 1..Len(Append(<<a, b>>, a)) : Append(<<a, b>>, a)[i] = <<a, b, a>>[i]
        OBVIOUS
    <2> QED
        BY <2>1, SeqEqual, Zenon
<1>4. Append(<<a, b, a>>, b) = <<a, b, a, b>>
    <2>1. /\ Append(<<a, b, a>>, b) \in Seq(State) /\ <<a, b, a, b>> \in Seq(State)
          /\ Len(Append(<<a, b, a>>, b)) = Len(<<a, b, a, b>>)
          /\ \A i \in 1..Len(Append(<<a, b, a>>, b)) : Append(<<a, b, a>>, b)[i] = <<a, b, a, b>>[i]
        OBVIOUS
    <2> QED
        BY <2>1, SeqEqual, Zenon
<1> QED
    BY <1>1, <1>2, <1>3, <1>4

\* A read lock is taken, on top of those held.
LEMMA RLockInv ==
    ASSUME Inv, NEW p \in Comparer, RLock(p)
    PROVE  Inv'
<1>1. PICK step \in LockSteps :
        /\ pc[p] = step[1]
        /\ held' = [held EXCEPT ![p] = Append(@, pair[p][step[2]])]
        /\ pc' = [pc EXCEPT ![p] = step[3]]
    BY DEF RLock, Goto
<1>2. UNCHANGED <<fields, announced, pair, todo, read, differed>>
    BY DEF RLock
<1>3. /\ pc[p] \in {"lockA", "lockB", "relockA", "relockB"}
      /\ pc'[p] = step[3]
      /\ step[3] \in {"lockB", "compareSeq", "relockB", "compareData"}
      /\ step[3] \in {"relockB", "compareData"} => pc[p] \in {"relockA", "relockB"}
      /\ pc' \in [Comparer -> Place]
    BY <1>1 DEF LockSteps, Place, Inv, TypeOK
<1>4. pair[p] # <<>> /\ held[p] = LocksAt(p)
    BY <1>3 DEF Inv, TypeOK
<1>5. A(p)' = A(p) /\ B(p)' = B(p)
    BY <1>2 DEF A, B
<1>6. held'[p] = Append(LocksAt(p), pair[p][step[2]]) /\ held' = [q \in Comparer |-> held'[q]]
    BY <1>1, <1>4 DEF Inv, TypeOK
<1>7. held'[p] = LocksAt(p)'
    <2>0. /\ pair[p][1] = A(p) /\ pair[p][2] = B(p)
          /\ A(p) \in State /\ B(p) \in State
        BY <1>4, PairStates DEF A, B, Inv
    <2>1. CASE step = <<"lockA", 1, "lockB">>
        <3>1. pc[p] = "lockA" /\ pc'[p] = "lockB" /\ pair[p][step[2]] = A(p)
            BY <1>1, <1>3, <2>0, <2>1
        <3>2. LocksAt(p) = <<>>
            BY <3>1 DEF LocksAt
        <3>3. LocksAt(p)' = <<A(p)>>
            BY <1>5, <3>1 DEF LocksAt
        <3>4. held'[p] = Append(<<>>, A(p))
            BY <1>6, <3>1, <3>2
        <3> QED
            BY <2>0, <3>3, <3>4, Pushed
    <2>2. CASE step = <<"lockB", 2, "compareSeq">>
        <3>1. pc[p] = "lockB" /\ pc'[p] = "compareSeq" /\ pair[p][step[2]] = B(p)
            BY <1>1, <1>3, <2>0, <2>2
        <3>2. LocksAt(p) = <<A(p)>>
            BY <3>1 DEF LocksAt
        <3>3. LocksAt(p)' = <<A(p), B(p)>>
            BY <1>5, <3>1 DEF LocksAt
        <3>4. held'[p] = Append(<<A(p)>>, B(p))
            BY <1>6, <3>1, <3>2
        <3> QED
            BY <2>0, <3>3, <3>4, Pushed
    <2>3. CASE step = <<"relockA", 1, "relockB">>
        <3>1. pc[p] = "relockA" /\ pc'[p] = "relockB" /\ pair[p][step[2]] = A(p)
            BY <1>1, <1>3, <2>0, <2>3
        <3>2. LocksAt(p) = <<A(p), B(p)>>
            BY <3>1 DEF LocksAt
        <3>3. LocksAt(p)' = <<A(p), B(p), A(p)>>
            BY <1>5, <3>1 DEF LocksAt
        <3>4. held'[p] = Append(<<A(p), B(p)>>, A(p))
            BY <1>6, <3>1, <3>2
        <3> QED
            BY <2>0, <3>3, <3>4, Pushed
    <2>4. CASE step = <<"relockB", 2, "compareData">>
        <3>1. pc[p] = "relockB" /\ pc'[p] = "compareData" /\ pair[p][step[2]] = B(p)
            BY <1>1, <1>3, <2>0, <2>4
        <3>2. LocksAt(p) = <<A(p), B(p), A(p)>>
            BY <3>1 DEF LocksAt
        <3>3. LocksAt(p)' = <<A(p), B(p), A(p), B(p)>>
            BY <1>5, <3>1 DEF LocksAt
        <3>4. held'[p] = Append(<<A(p), B(p), A(p)>>, B(p))
            BY <1>6, <3>1, <3>2
        <3> QED
            BY <2>0, <3>3, <3>4, Pushed
    <2> QED
        BY <2>1, <2>2, <2>3, <2>4 DEF LockSteps
<1>8. OthersStay(p)
    BY <1>1, <1>2 DEF OthersStay, Inv, TypeOK
<1>9. pc'[p] \in {"relockA", "relockB", "compareData"} => eventSeq[A(p)'] = eventSeq[B(p)']
    BY <1>3, <1>5 DEF Inv, SeqsStay
<1>10. pair'[p] # <<>> /\ ~differed'[p] => hash[A(p)'] = hash[B(p)']
    BY <1>2, <1>5 DEF Inv, HashesStay
<1>11. /\ pair' \in [Comparer -> Pairs \cup {<<>>}] /\ todo' \in [Comparer -> SUBSET Pairs]
       /\ read' \in [Comparer -> Hash] /\ differed' \in [Comparer -> BOOLEAN]
    BY <1>2 DEF Inv, TypeOK
<1> QED
    BY <1>2, <1>3, <1>4, <1>6, <1>7, <1>8, <1>9, <1>10, <1>11, OneComparer

\* Every step keeps the invariant.
LEMMA StepInv ==
    ASSUME Apart, Inv, [Next]_vars
    PROVE  Inv'
<1>1. ASSUME NEW w \in Writer, NEW s \in State, Announce(w, s)
      PROVE  Inv'
    <2>1. \A p \in Comparer : A(p)' = A(p) /\ B(p)' = B(p) /\ LocksAt(p)' = LocksAt(p)
        BY <1>1 DEF Announce, locals, A, B, LocksAt
    <2> QED
        BY <1>1, <2>1 DEF Announce, fields, locals, Inv, TypeOK, SeqsStay, HashesStay
<1>2. ASSUME NEW w \in Writer, NEW s \in State, Write(w, s)
      PROVE  Inv'
    BY <1>2, WriteInv
<1>3. ASSUME NEW p \in Comparer, Call(p)
      PROVE  Inv'
    <2>1. /\ pc'[p] = "next" /\ pc[p] = "idle" /\ pair'[p] = <<>>
          /\ UNCHANGED <<fields, announced, held, pair, read, differed>>
          /\ pc' \in [Comparer -> Place] /\ todo' \in [Comparer -> SUBSET Pairs]
          /\ held[p] = <<>> /\ held' = [q \in Comparer |-> held'[q]]
        BY <1>3 DEF Call, Goto, Inv, TypeOK, Place, LocksAt
    <2>2. OthersStay(p)
        BY <1>3, <2>1 DEF OthersStay, Call, Goto, Inv, TypeOK
    <2>3. LocksAt(p)' = <<>>
        BY <2>1 DEF LocksAt
    <2>4. /\ pair' \in [Comparer -> Pairs \cup {<<>>}] /\ read' \in [Comparer -> Hash]
          /\ differed' \in [Comparer -> BOOLEAN]
        BY <2>1 DEF Inv, TypeOK
    <2> QED
        BY <2>1, <2>2, <2>3, <2>4, OneComparer
<1>4. ASSUME NEW p \in Comparer, HashStep(p)
      PROVE  Inv'
    BY <1>4, HashStepInv
<1>5. ASSUME NEW p \in Comparer, HashesDiffer(p)
      PROVE  Inv'
    BY <1>5, ReturnInv DEF HashesDiffer
<1>6. ASSUME NEW p \in Comparer, RLock(p)
      PROVE  Inv'
    BY <1>6, RLockInv
<1>7. ASSUME NEW p \in Comparer, NextPair(p)
      PROVE  Inv'
    <2>1. PICK ab \in todo[p] :
            /\ pair' = [pair EXCEPT ![p] = ab]
            /\ todo' = [todo EXCEPT ![p] = @ \ {ab}]
            /\ differed' = [differed EXCEPT ![p] = hash[ab[1]] # hash[ab[2]]]
        BY <1>7 DEF NextPair
    <2>2. ab \in Pairs /\ ab # <<>>
        BY EmptyPair DEF Inv, TypeOK
    <2>3. /\ pc'[p] = "nonemptyA" /\ pair'[p] = ab
          /\ differed'[p] = (hash[ab[1]] # hash[ab[2]])
          /\ UNCHANGED <<fields, announced, held, read>>
          /\ pc' \in [Comparer -> Place] /\ pair' \in [Comparer -> Pairs \cup {<<>>}]
          /\ todo' \in [Comparer -> SUBSET Pairs] /\ read' \in [Comparer -> Hash]
          /\ differed' \in [Comparer -> BOOLEAN]
          /\ held[p] = <<>> /\ held' = [q \in Comparer |-> held'[q]]
        BY <1>7, <2>1, <2>2 DEF NextPair, Goto, Inv, TypeOK, Place, LocksAt
    <2>4. OthersStay(p)
        BY <1>7, <2>1, <2>3 DEF OthersStay, NextPair, Goto, Inv, TypeOK
    <2>5. LocksAt(p)' = <<>> /\ A(p)' = ab[1] /\ B(p)' = ab[2]
        BY <2>3 DEF LocksAt, A, B
    <2> QED
        BY <2>2, <2>3, <2>4, <2>5, OneComparer
<1>8. ASSUME NEW p \in Comparer, NoneLeft(p)
      PROVE  Inv'
    <2>1. /\ pc'[p] = "idle" /\ pc[p] = "next" /\ pair'[p] = <<>>
          /\ UNCHANGED <<fields, announced, held, pair, todo, read, differed>>
          /\ pc' \in [Comparer -> Place]
          /\ held[p] = <<>> /\ held' = [q \in Comparer |-> held'[q]]
        BY <1>8 DEF NoneLeft, Goto, Inv, TypeOK, Place, LocksAt
    <2>2. OthersStay(p)
        BY <1>8, <2>1 DEF OthersStay, NoneLeft, Goto, Inv, TypeOK
    <2>3. LocksAt(p)' = <<>>
        BY <2>1 DEF LocksAt
    <2>4. /\ pair' \in [Comparer -> Pairs \cup {<<>>}] /\ read' \in [Comparer -> Hash]
          /\ todo' \in [Comparer -> SUBSET Pairs] /\ differed' \in [Comparer -> BOOLEAN]
        BY <2>1 DEF Inv, TypeOK
    <2> QED
        BY <2>1, <2>2, <2>3, <2>4, OneComparer
<1>9. ASSUME NEW p \in Comparer, SeqsEqual(p)
      PROVE  Inv'
    <2>1. /\ pc'[p] = "relockA" /\ pc[p] = "compareSeq"
          /\ eventSeq[A(p)] = eventSeq[B(p)]
          /\ UNCHANGED <<fields, announced, held, pair, todo, read, differed>>
          /\ pc' \in [Comparer -> Place]
          /\ held[p] = LocksAt(p) /\ held' = [q \in Comparer |-> held'[q]]
        BY <1>9 DEF SeqsEqual, Goto, Inv, TypeOK, Place
    <2>2. OthersStay(p)
        BY <1>9, <2>1 DEF OthersStay, SeqsEqual, Goto, Inv, TypeOK
    <2>3. LocksAt(p)' = LocksAt(p) /\ A(p)' = A(p) /\ B(p)' = B(p)
        BY <2>1 DEF LocksAt, A, B
    <2>4. /\ pair' \in [Comparer -> Pairs \cup {<<>>}] /\ read' \in [Comparer -> Hash]
          /\ todo' \in [Comparer -> SUBSET Pairs] /\ differed' \in [Comparer -> BOOLEAN]
          /\ pair'[p] # <<>>
        BY <2>1 DEF Inv, TypeOK
    <2>5. ~differed'[p] => hash[A(p)'] = hash[B(p)']
        BY <2>1, <2>3, <2>4 DEF Inv, HashesStay
    <2> QED
        BY <2>1, <2>2, <2>3, <2>4, <2>5, OneComparer
<1>10. ASSUME NEW p \in Comparer, SeqsDiffer(p)
       PROVE  Inv'
    BY <1>10, ReturnInv DEF SeqsDiffer
<1>11. ASSUME NEW p \in Comparer, CompareData(p)
       PROVE  Inv'
    BY <1>11, ReturnInv DEF CompareData
<1>12. CASE UNCHANGED vars
    <2>1. \A p \in Comparer : A(p)' = A(p) /\ B(p)' = B(p) /\ LocksAt(p)' = LocksAt(p)
        BY <1>12 DEF vars, locals, A, B, LocksAt
    <2> QED
        BY <1>12, <2>1 DEF vars, fields, locals, Inv, TypeOK, SeqsStay, HashesStay
<1> QED
    BY <1>1, <1>2, <1>3, <1>4, <1>5, <1>6, <1>7, <1>8, <1>9, <1>10, <1>11, <1>12
       DEF Next, Waiting, Running

LEMMA InvAlways == Apart => (Spec => []Inv)
<1> SUFFICES ASSUME Apart PROVE Spec => []Inv
    OBVIOUS
<1>1. Inv /\ [Next]_vars => Inv'
    BY StepInv
<1> QED
    BY InitInv, <1>1, PTL DEF Spec

\* Every call holds just the locks that its place in Compare implies, and none
\* when it has returned.
THEOREM LocksAreThose == Apart => (Spec => []TypeOK)
<1> SUFFICES ASSUME Apart PROVE Spec => []TypeOK
    OBVIOUS
<1>1. Inv => TypeOK
    BY DEF Inv
<1> QED
    BY <1>1, InvAlways, PTL

\* What Compare says of two states was so at a moment of the call: the answer
\* "" at its end, a hash mismatch at some moment since its beginning.
THEOREM ReportsAreTrue == Apart => (Spec => ReportsWereSo)
<1> SUFFICES ASSUME Apart PROVE Spec => ReportsWereSo
    OBVIOUS
<1>1. Inv /\ [Next]_vars =>
        [\A p \in Comparer :
            /\ pc[p] = "compareData" /\ pc'[p] = "next" =>
                  eventSeq[A(p)] = eventSeq[B(p)] /\ data[A(p)] = data[B(p)]
            /\ pc[p] = "showB" /\ pc'[p] = "idle" => differed[p]]_vars
    <2> SUFFICES ASSUME Inv, [Next]_vars, NEW p \in Comparer
                 PROVE  /\ pc[p] = "compareData" /\ pc'[p] = "next" =>
                              eventSeq[A(p)] = eventSeq[B(p)] /\ data[A(p)] = data[B(p)]
                        /\ pc[p] = "showB" /\ pc'[p] = "idle" => differed[p]
        OBVIOUS
    <2>1. pc[p] = "showB" => differed[p]
        BY DEF Inv, HashesStay
    <2>2. pc[p] = "compareData" => eventSeq[A(p)] = eventSeq[B(p)]
        BY DEF Inv, SeqsStay
    <2>3. ASSUME pc[p] = "compareData", pc'[p] = "next"
          PROVE  data[A(p)] = data[B(p)]
        <3>1. pc \in [Comparer -> Place]
            BY DEF Inv, TypeOK
        <3>2. ASSUME NEW q \in Comparer, Call(q) \/ Waiting(q) \/ Running(q)
              PROVE  q = p
            <4>1. \E to \in Place : pc' = [pc EXCEPT ![q] = to]
                BY <3>1, <3>2 DEF Call, Waiting, Running, HashStep, HashesDiffer, RLock,
                   LockSteps, NextPair, NoneLeft, SeqsEqual, SeqsDiffer, CompareData, Return,
                   Goto, Place
            <4> QED
                BY <2>3, <3>1, <4>1
        <3>3. ASSUME Call(p) \/ Waiting(p) \/ Running(p)
              PROVE  CompareData(p)
            BY <2>3, <3>1, <3>3 DEF Call, Waiting, Running, HashStep, HashesDiffer, RLock,
               LockSteps, NextPair, NoneLeft, SeqsEqual, SeqsDiffer
        <3>4. pc' # pc
            BY <2>3
        <3>5. CompareData(p)
            BY <3>2, <3>3, <3>4 DEF Next, vars, locals, Announce, Write
        <3> QED
            BY <2>3, <3>1, <3>5 DEF CompareData, Return, Goto
    <2> QED
        BY <2>1, <2>2, <2>3
<1> QED
    BY <1>1, InvAlways, PTL DEF Spec, ReportsWereSo
-----------------------------------------------------------------------------
(* The network.                                                              *)

Copies == Seq([events : Seq(Event), locked : BOOLEAN])

BroadcastCalls == [op : {"broadcast"}, event : Event, left : SUBSET Nodes, in : BOOLEAN]
CheckCalls     == [op : {"check"}, copy : Copies, at : Nodes, caught : BOOLEAN, quiet : BOOLEAN]
StatsCalls     == [op : {"stats"}, stats : Seq(Nat), since : [Event -> Nat],
                   caught : BOOLEAN, stuck : BOOLEAN]
CheckedCalls   == [op : {"checked"}, same : BOOLEAN, len : Nat, quiet : BOOLEAN]
CountedCalls   == [op : {"counted"}, stats : Seq(Nat), since : [Event -> Nat]]

Calls == [op : {"idle"}] \cup BroadcastCalls \cup CheckCalls \cup StatsCalls
            \cup CheckedCalls \cup CountedCalls

NetworkTypes ==
    /\ receives \in SUBSET Nodes
    /\ events \in [Nodes -> Seq(Event)]
    /\ locked \in [Nodes -> BOOLEAN]
    /\ call \in [Caller -> Calls]
    /\ done \in [Event -> Nat]
    /\ panicked \in BOOLEAN

\* The broadcasts under way that have reached node n, and those of event e.
Reached(n) == {c \in Calling("broadcast") : n \notin call[c].left}
ReachedWith(n, e) == {c \in Reached(n) : call[c].event = e}

\* A broadcast in a delivery has the mutex to itself.
DeliveriesInv ==
    /\ IsFiniteSet(Calling("broadcast"))
    /\ \A c \in Calling("broadcast") :
         /\ call[c].left \subseteq receives
         /\ call[c].in => call[c].left # {}
         /\ \A d \in Calling("broadcast") :
              call[c].in /\ call[d].in /\ Min(call[c].left) = Min(call[d].left) => c = d
    /\ \A n \in Nodes : locked[n] = Delivering(n)

\* What a node holds is what was sent to it, by event and in all.
EventsInv ==
    /\ panicked => receives = {}
    /\ \A e \in Event : done[e] > 0 => receives # {}
    /\ IsFiniteSet(Numbered(done))
    /\ \A n \in Nodes \ receives : events[n] = <<>>
    /\ \A n \in receives :
         /\ Len(events[n]) = Total(done) + Cardinality(Reached(n))
         /\ \A e \in Event : Times(e, events[n]) = done[e] + Cardinality(ReachedWith(n, e))

\* The first k elements of s are t's.
Begins(s, t) == Len(s) <= Len(t) /\ \A j \in 1..Len(s) : s[j] = t[j]

\* Nodes n and 1 differ, and always will.
Differs(n) ==
    \/ \E j \in 1..Len(events[n]) : j <= Len(events[1]) /\ events[n][j] # events[1][j]
    \/ 1 \in receives /\ n \notin receives /\ events[1] # <<>>
    \/ 1 \notin receives /\ n \in receives /\ events[n] # <<>>

CheckInv(k) ==
    /\ Len(k.copy) <= N
    /\ k.at > 1 => Len(k.copy) = N
    /\ \A n \in 1..Len(k.copy) : Begins(k.copy[n].events, events[n])
    /\ \A n \in 1..(k.at - 1) : k.copy[n].events = k.copy[1].events
    /\ k.quiet => /\ Calling("broadcast") = {}
                  /\ \A n \in 1..Len(k.copy) : k.copy[n].events = events[n]

CheckedInv(k) ==
    /\ k.same => \A n \in Nodes : /\ k.len <= Len(events[n])
                                  /\ \A j \in 1..k.len : events[n][j] = events[1][j]
    /\ ~k.same /\ k.quiet => \E n \in Nodes : Differs(n)

CountInv(k) ==
    /\ Total(k.since) \in Nat /\ Total(k.since) <= Total(done)
    /\ \A n \in receives : n <= Len(k.stats) => k.stats[n] >= Total(k.since)

ReaderInv(c) ==
    /\ call[c].op = "check" => CheckInv(call[c])
    /\ call[c].op = "checked" => CheckedInv(call[c])
    /\ call[c].op = "stats" => CountInv(call[c]) /\ Len(call[c].stats) < N
    /\ call[c].op = "counted" => CountInv(call[c]) /\ Len(call[c].stats) = N

NetworkInv ==
    /\ NetworkTypes /\ DeliveriesInv /\ EventsInv
    /\ \A c \in Caller : ReaderInv(c)

-----------------------------------------------------------------------------
(* The operators.                                                            *)

LessNat == {ss \in Nat \X Nat : ss[1] < ss[2]}

LEMMA LessWF == IsWellFoundedOn(LessNat, Nat)
<1>1. OpToRel(<, Nat) = LessNat
    BY DEF OpToRel, LessNat
<1> QED
    BY <1>1, NatLessThanWellFounded

LEMMA Least ==
    ASSUME NEW S \in SUBSET Nat, S # {}
    PROVE  \E m \in S : \A n \in S : m <= n
<1>1. PICK x \in S : \A y \in S : ~(<<y, x>> \in LessNat)
    BY WFMin, LessWF
<1>2. \A y \in S : <<y, x>> \in Nat \X Nat
    OBVIOUS
<1>3. \A y \in S : ~(y < x)
    BY <1>1, <1>2 DEF LessNat
<1> QED
    BY <1>3

LEMMA NodesNat == N \in Nat /\ N >= 2 /\ 1 \in Nodes /\ Nodes \subseteq Nat
BY NetworkAssumption DEF Nodes

\* The next recipient is one.
LEMMA MinIn ==
    ASSUME NEW S \in SUBSET Nodes, S # {}
    PROVE  Min(S) \in S
<1>1. S \in SUBSET Nat
    BY NodesNat
<1>2. PICK m \in S : \A n \in S : m <= n
    BY <1>1, Least
<1> QED
    BY <1>2 DEF Min

LEMMA TimesEmpty == \A e : Times(e, <<>>) = 0
<1>1. Len(<<>>) = 0
    BY EmptySeq
<1>2. \A e : {j \in 1..Len(<<>>) : <<>>[j] = e} = {}
    BY <1>1
<1> QED
    BY <1>2, FS_EmptySet DEF Times

LEMMA TimesAppend ==
    ASSUME NEW s \in Seq(Event), NEW x \in Event, NEW e \in Event
    PROVE  /\ Times(e, s) \in Nat
           /\ Times(e, Append(s, x)) = Times(e, s) + (IF x = e THEN 1 ELSE 0)
<1> DEFINE P == {j \in 1..Len(s) : s[j] = e}
           Q == {j \in 1..Len(Append(s, x)) : Append(s, x)[j] = e}
<1>1. /\ Len(s) \in Nat /\ Len(Append(s, x)) = Len(s) + 1
      /\ \A j \in 1..Len(s) : Append(s, x)[j] = s[j]
      /\ Append(s, x)[Len(s) + 1] = x
    BY AppendProperties, LenProperties
<1>2. IsFiniteSet(P) /\ Cardinality(P) \in Nat
    <2>1. IsFiniteSet(1..Len(s))
        BY <1>1, FS_Interval
    <2>2. P \in SUBSET (1..Len(s))
        OBVIOUS
    <2> QED
        BY <2>1, <2>2, FS_Subset, FS_CardinalityType
<1>3. CASE x = e
    <2>1. Q = P \cup {Len(s) + 1}
        BY <1>1, <1>3
    <2>2. Len(s) + 1 \notin P
        BY <1>1
    <2>3. Cardinality(Q) = Cardinality(P) + 1
        BY <1>2, <2>1, <2>2, FS_AddElement
    <2> QED
        BY <1>2, <1>3, <2>3 DEF Times
<1>4. CASE x # e
    <2>1. Q = P
        BY <1>1, <1>4
    <2>2. Times(e, Append(s, x)) = Times(e, s)
        BY <2>1 DEF Times
    <2>3. Times(e, s) \in Nat
        BY <1>2 DEF Times
    <2> QED
        BY <1>4, <2>2, <2>3
<1> QED
    BY <1>3, <1>4

\* One more broadcast of e adds one to the sum.
LEMMA NumberedNext ==
    ASSUME NEW count \in [Event -> Nat], IsFiniteSet(Numbered(count)), NEW e \in Event,
           NEW next, next = [count EXCEPT ![e] = @ + 1]
    PROVE  /\ IsFiniteSet(Numbered(next)) /\ Total(count) \in Nat
           /\ Total(next) = Total(count) + 1
<1>1. /\ count[e] \in Nat /\ next[e] = count[e] + 1
      /\ \A f \in Event \ {e} : next[f] = count[f]
    OBVIOUS
<1>2. 1..next[e] = (1..count[e]) \cup {count[e] + 1}
    BY <1>1
<1>3. Numbered(next) = Numbered(count) \cup {<<e, count[e] + 1>>}
    <2>1. ASSUME NEW p \in Numbered(next)
          PROVE  p \in Numbered(count) \cup {<<e, count[e] + 1>>}
        <3>1. PICK f \in Event : p \in {f} \X (1..next[f])
            BY DEF Numbered
        <3>2. CASE f = e
            BY <1>2, <3>1, <3>2 DEF Numbered
        <3>3. CASE f # e
            BY <1>1, <3>1, <3>3 DEF Numbered
        <3> QED
            BY <3>2, <3>3
    <2>2. ASSUME NEW p \in Numbered(count)
          PROVE  p \in Numbered(next)
        <3>1. PICK f \in Event : p \in {f} \X (1..count[f])
            BY DEF Numbered
        <3>2. CASE f = e
            BY <1>2, <3>1, <3>2 DEF Numbered
        <3>3. CASE f # e
            BY <1>1, <3>1, <3>3 DEF Numbered
        <3> QED
            BY <3>2, <3>3
    <2>3. <<e, count[e] + 1>> \in Numbered(next)
        BY <1>2 DEF Numbered
    <2> QED
        BY <2>1, <2>2, <2>3
<1>4. <<e, count[e] + 1>> \notin Numbered(count)
    <2>1. SUFFICES ASSUME NEW f \in Event, <<e, count[e] + 1>> \in {f} \X (1..count[f])
                   PROVE  FALSE
        BY DEF Numbered
    <2>2. f = e /\ count[e] + 1 \in 1..count[e]
        BY <2>1
    <2> QED
        BY <1>1, <2>2
<1>5. IsFiniteSet(Numbered(count) \cup {<<e, count[e] + 1>>})
    BY FS_AddElement
<1>6. Cardinality(Numbered(next)) = Cardinality(Numbered(count)) + 1
    BY <1>3, <1>4, FS_AddElement
<1> QED
    BY <1>3, <1>5, <1>6, FS_CardinalityType DEF Total

-----------------------------------------------------------------------------
(* Calls.                                                                    *)

\* A call is known by its op.
LEMMA CallKinds ==
    ASSUME NEW k \in Calls
    PROVE  /\ k.op = "idle" => k = Idle
           /\ k.op = "broadcast" => k \in BroadcastCalls
           /\ k.op = "check" => k \in CheckCalls
           /\ k.op = "stats" => k \in StatsCalls
           /\ k.op = "checked" => k \in CheckedCalls
           /\ k.op = "counted" => k \in CountedCalls
BY DEF Calls, Idle, BroadcastCalls, CheckCalls, StatsCalls, CheckedCalls, CountedCalls

LEMMA CallsAre ==
    /\ Idle \in Calls
    /\ BroadcastCalls \subseteq Calls /\ CheckCalls \subseteq Calls /\ StatsCalls \subseteq Calls
    /\ CheckedCalls \subseteq Calls /\ CountedCalls \subseteq Calls
BY DEF Calls, Idle

\* What a caller's steps leave alone.
SameNetwork == UNCHANGED <<receives, events, locked, done, panicked>>

OneCall(c) == \A d \in Caller \ {c} : call'[d] = call[d]

LEMMA NetworkStart == NewNetwork => NetworkInv
<1> SUFFICES ASSUME NewNetwork
             PROVE  NetworkInv
    OBVIOUS
<1> USE DEF NewNetwork
<1>1. NetworkTypes
    <2>1. \A c \in Caller : call[c] \in Calls
        BY CallsAre
    <2>2. <<>> \in Seq(Event)
        BY EmptySeq
    <2> QED
        BY <2>1, <2>2 DEF NetworkTypes
<1>2. Calling("broadcast") = {}
    BY DEF Calling, Idle
<1>3. DeliveriesInv
    BY <1>2, FS_EmptySet DEF DeliveriesInv, Delivering
<1>4. Numbered(done) = {}
    BY DEF Numbered
<1>5. EventsInv
    <2>1. \A n \in Nodes : Cardinality(Reached(n)) = 0
        BY <1>2, FS_EmptySet DEF Reached
    <2>2. \A n \in Nodes, e \in Event : Cardinality(ReachedWith(n, e)) = 0
        BY <1>2, FS_EmptySet DEF Reached, ReachedWith
    <2>3. IsFiniteSet(Numbered(done)) /\ Total(done) = 0
        BY <1>4, FS_EmptySet DEF Total
    <2>4. \A n \in Nodes : Len(events[n]) = 0
        BY EmptySeq
    <2> QED
        BY <2>1, <2>2, <2>3, <2>4, TimesEmpty DEF EventsInv
<1>6. \A c \in Caller : ReaderInv(c)
    BY DEF ReaderInv, Idle
<1> QED
    BY <1>1, <1>3, <1>5, <1>6 DEF NetworkInv

\* A step of a reader disturbs nothing of the broadcasts.
LEMMA ReaderStep ==
    ASSUME NetworkTypes, DeliveriesInv, EventsInv, SameNetwork,
           \A d \in Caller : \/ call'[d] = call[d]
                             \/ call[d].op # "broadcast" /\ call'[d].op # "broadcast"
    PROVE  DeliveriesInv' /\ EventsInv'
<1>1. /\ Calling("broadcast")' = Calling("broadcast")
      /\ \A d \in Calling("broadcast") : call'[d] = call[d]
    BY DEF Calling
<1>2. \A n : Delivering(n)' = Delivering(n)
    BY <1>1 DEF Delivering
<1>3. \A n : Reached(n)' = Reached(n)
    BY <1>1 DEF Reached
<1>4. \A n, e : ReachedWith(n, e)' = ReachedWith(n, e)
    BY <1>1, <1>3 DEF ReachedWith, Reached
<1>5. DeliveriesInv'
    BY <1>1, <1>2 DEF DeliveriesInv, SameNetwork
<1>6. EventsInv'
    BY <1>3, <1>4 DEF EventsInv, SameNetwork
<1> QED
    BY <1>5, <1>6

LEMMA BeginsOn ==
    ASSUME NEW s, NEW t, NEW u, Len(s) \in Nat, Len(t) \in Nat, Len(u) \in Nat,
           Begins(s, t), Begins(t, u)
    PROVE  Begins(s, u)
<1>1. \A j \in 1..Len(s) : j \in 1..Len(t)
    BY DEF Begins
<1> QED
    BY <1>1 DEF Begins

\* What a reader knows outlasts the steps of others.
LEMMA ReaderKept ==
    ASSUME NetworkTypes, NetworkTypes', NEW d \in Caller, ReaderInv(d), receives' = receives,
           Total(done) \in Nat, Total(done)' \in Nat, Total(done) <= Total(done)',
           \A n \in Nodes : Begins(events[n], events'[n]),
           \/ /\ call'[d] = call[d]
              /\ call[d].op = "check" /\ call[d].quiet =>
                    Calling("broadcast")' = Calling("broadcast") /\ events' = events
           \/ call[d].op = "check" /\ call'[d] = [call[d] EXCEPT !.quiet = FALSE]
    PROVE  ReaderInv(d)'
<1>1. call[d] \in Calls /\ call'[d] \in Calls
    BY DEF NetworkTypes
<1>2. call'[d].op = call[d].op
    BY <1>1, CallKinds DEF CheckCalls
<1>3. \A n \in Nodes : /\ events[n] \in Seq(Event) /\ events'[n] \in Seq(Event)
                        /\ Len(events[n]) \in Nat /\ Len(events'[n]) \in Nat
                        /\ Len(events[n]) <= Len(events'[n])
                        /\ \A j \in 1..Len(events[n]) : events'[n][j] = events[n][j]
    BY LenProperties DEF NetworkTypes, Begins
<1>4. ASSUME call[d].op = "check"
      PROVE  CheckInv(call[d])'
    <2>1. call[d] \in CheckCalls /\ CheckInv(call[d])
        BY <1>1, <1>4, CallKinds DEF ReaderInv
    <2>2. /\ call'[d].copy = call[d].copy /\ call'[d].at = call[d].at
          /\ call'[d].quiet => /\ call[d].quiet
                               /\ Calling("broadcast")' = Calling("broadcast") /\ events' = events
        BY <1>4, <2>1 DEF CheckCalls
    <2>3. ASSUME NEW n \in 1..Len(call[d].copy)
          PROVE  Begins(call[d].copy[n].events, events'[n])
        <3>1. n \in Nodes /\ call[d].copy[n].events \in Seq(Event)
            <4>1. /\ call[d].copy \in Copies /\ Len(call[d].copy) \in Nat
                  /\ Len(call[d].copy) <= N
                BY <2>1, LenProperties DEF CheckInv, CheckCalls, Copies
            <4>2. n \in 1..N
                BY <4>1, NodesNat
            <4>3. call[d].copy[n] \in [events : Seq(Event), locked : BOOLEAN]
                BY <4>1, ElementOfSeq DEF Copies
            <4> QED
                BY <4>2, <4>3 DEF Nodes
        <3>2. Begins(call[d].copy[n].events, events[n])
            BY <2>1 DEF CheckInv
        <3>3. Len(call[d].copy[n].events) \in Nat
            BY <3>1, LenProperties
        <3>4. Begins(events[n], events'[n]) /\ Len(events[n]) \in Nat /\ Len(events'[n]) \in Nat
            BY <1>3, <3>1
        <3> QED
            BY <3>2, <3>3, <3>4, BeginsOn
    <2> QED
        BY <2>1, <2>2, <2>3 DEF CheckInv
<1>5. ASSUME call[d].op = "checked"
      PROVE  CheckedInv(call[d])'
    <2>1. call[d] \in CheckedCalls /\ CheckedInv(call[d]) /\ call'[d] = call[d]
        BY <1>1, <1>5, CallKinds DEF ReaderInv
    <2>2. ASSUME call[d].same, NEW n \in Nodes
          PROVE  /\ call[d].len <= Len(events'[n])
                 /\ \A j \in 1..call[d].len : events'[n][j] = events'[1][j]
        <3>1. /\ call[d].len <= Len(events[n]) /\ call[d].len <= Len(events[1])
              /\ \A j \in 1..call[d].len : events[n][j] = events[1][j]
              /\ call[d].len \in Nat
            BY <2>1, <2>2, NodesNat DEF CheckedInv, CheckedCalls
        <3>2. \A j \in 1..call[d].len : j \in 1..Len(events[n]) /\ j \in 1..Len(events[1])
            BY <1>3, <3>1, NodesNat
        <3> QED
            BY <1>3, <3>1, <3>2, NodesNat
    <2>3. ASSUME NEW n \in Nodes, Differs(n)
          PROVE  Differs(n)'
        <3>1. \A m \in Nodes : events[m] # <<>> => events'[m] # <<>>
            BY <1>3, EmptySeq
        <3>2. CASE \E j \in 1..Len(events[n]) : j <= Len(events[1]) /\ events[n][j] # events[1][j]
            <4>1. PICK j \in 1..Len(events[n]) : j <= Len(events[1]) /\ events[n][j] # events[1][j]
                BY <3>2
            <4>2. /\ Len(events[n]) \in Nat /\ Len(events'[n]) \in Nat
                  /\ Len(events[1]) \in Nat /\ Len(events'[1]) \in Nat
                  /\ Len(events[n]) <= Len(events'[n]) /\ Len(events[1]) <= Len(events'[1])
                BY <1>3, NodesNat
            <4>3. j \in 1..Len(events[1]) /\ j \in 1..Len(events'[n]) /\ j <= Len(events'[1])
                BY <4>1, <4>2
            <4>4. /\ j \in 1..Len(events'[n]) /\ j <= Len(events'[1])
                  /\ events'[n][j] = events[n][j] /\ events'[1][j] = events[1][j]
                BY <1>3, <4>1, <4>3, NodesNat
            <4> QED
                BY <4>1, <4>4 DEF Differs
        <3>3. CASE 1 \in receives /\ n \notin receives /\ events[1] # <<>>
            BY <3>1, <3>3, NodesNat DEF Differs
        <3>4. CASE 1 \notin receives /\ n \in receives /\ events[n] # <<>>
            BY <3>1, <3>4, NodesNat DEF Differs
        <3> QED
            BY <2>3, <3>2, <3>3, <3>4 DEF Differs
    <2> QED
        BY <2>1, <2>2, <2>3 DEF CheckedInv
<1>6. ASSUME call[d].op \in {"stats", "counted"}
      PROVE  CountInv(call[d])' /\ call'[d] = call[d]
    <2>1. CountInv(call[d]) /\ call'[d] = call[d]
        BY <1>6 DEF ReaderInv
    <2> QED
        BY <2>1 DEF CountInv, Total, Numbered
<1> QED
    BY <1>2, <1>4, <1>5, <1>6 DEF ReaderInv

-----------------------------------------------------------------------------
(* Readers.                                                                  *)

LEMMA ReadersUnmoved ==
    ASSUME NetworkInv, NetworkTypes', call' = call, receives' = receives, events' = events,
           done' = done, Calling("broadcast")' = Calling("broadcast")
    PROVE  \A d \in Caller : ReaderInv(d)'
<1>1. Total(done) \in Nat /\ Total(done)' = Total(done)
    BY FS_CardinalityType DEF NetworkInv, EventsInv, Total, Numbered
<1>2. \A n \in Nodes : Begins(events[n], events'[n])
    BY LenProperties DEF Begins, NetworkInv, NetworkTypes
<1>3. Total(done) <= Total(done)' /\ Total(done)' \in Nat
    BY <1>1
<1>4. NetworkTypes /\ \A d \in Caller : ReaderInv(d) /\ call'[d] = call[d]
    BY DEF NetworkInv
<1> QED
    BY <1>1, <1>2, <1>3, <1>4, ReaderKept

\* A step of reader c that leaves it with a call k.
LEMMA ReadersKept ==
    ASSUME NetworkInv, NEW c \in Caller, NEW k \in Calls, SameNetwork,
           call' = [call EXCEPT ![c] = k],
           call[c].op # "broadcast", k.op # "broadcast",
           NetworkTypes' => ReaderInv(c)'
    PROVE  NetworkInv'
<1>1. call'[c] = k /\ \A d \in Caller \ {c} : call'[d] = call[d]
    BY DEF NetworkInv, NetworkTypes
<1>2. NetworkTypes'
    BY DEF NetworkInv, NetworkTypes, SameNetwork
<1>3. DeliveriesInv' /\ EventsInv'
    BY <1>1, ReaderStep DEF NetworkInv
<1>4. ASSUME NEW d \in Caller
      PROVE  ReaderInv(d)'
    <2>1. CASE d = c
        BY <1>2, <2>1
    <2>2. CASE d # c
        <3>1. Calling("broadcast")' = Calling("broadcast")
            BY <1>1 DEF Calling
        <3>2. call'[d] = call[d] /\ events' = events /\ receives' = receives /\ done' = done
            BY <1>1, <2>2 DEF SameNetwork
        <3>3. /\ Total(done) \in Nat /\ Total(done)' = Total(done)
            BY <3>2, FS_CardinalityType DEF NetworkInv, EventsInv, Total, Numbered
        <3>4. \A n \in Nodes : Begins(events[n], events'[n])
            BY <3>2, LenProperties DEF Begins, NetworkInv, NetworkTypes
        <3>5. Total(done) <= Total(done)' /\ Total(done)' \in Nat
            BY <3>3
        <3>6. NetworkTypes /\ ReaderInv(d)
            BY DEF NetworkInv
        <3> QED
            BY <1>2, <3>1, <3>2, <3>3, <3>4, <3>5, <3>6, ReaderKept
    <2> QED
        BY <2>1, <2>2
<1> QED
    BY <1>2, <1>3, <1>4 DEF NetworkInv

LEMMA CheckBegins ==
    ASSUME NetworkInv, NEW c \in Caller, CheckConvergence(c)
    PROVE  NetworkInv'
<1> DEFINE k == [op |-> "check", copy |-> <<>>, at |-> 1, caught |-> FALSE,
                 quiet |-> Calling("broadcast") = {}]
<1>1. k \in CheckCalls
    BY NodesNat, EmptySeq DEF CheckCalls, Copies
<1>2. call' = [call EXCEPT ![c] = k] /\ SameNetwork /\ call[c].op # "broadcast"
    BY DEF CheckConvergence, SameNetwork, Idle
<1>3. call'[c] = k
    BY <1>2 DEF NetworkInv, NetworkTypes
<1>4. ReaderInv(c)'
    <2>1. Calling("broadcast")' = Calling("broadcast")
        BY <1>2, <1>3 DEF Calling, NetworkInv, NetworkTypes
    <2>2. Len(<<>>) = 0 /\ 1..0 = {}
        BY EmptySeq
    <2>3. CheckInv(call[c])'
        <3>1. Len(call'[c].copy) = 0 /\ call'[c].at = 1
            BY <1>3, <2>2
        <3>3. call'[c].quiet => Calling("broadcast") = {}
            <4>1. k.quiet = (Calling("broadcast") = {})
                OBVIOUS
            <4>2. call'[c].quiet = k.quiet
                BY <1>3
            <4> HIDE DEF k
            <4> QED
                BY <4>1, <4>2
        <3>2. 1..0 = {} /\ 1..(1-1) = {} /\ 0 <= N /\ ~(1 > 1)
            BY NodesNat
        <3> QED
            BY <2>1, <3>1, <3>2, <3>3 DEF CheckInv
    <2>4. call'[c].op = "check"
        BY <1>3
    <2> QED
        BY <2>3, <2>4 DEF ReaderInv
<1> QED
    BY <1>1, <1>2, <1>4, CallsAre, ReadersKept

LEMMA CopyNodeKeeps ==
    ASSUME NetworkInv, NEW c \in Caller, CopyNode(c)
    PROVE  NetworkInv'
<1> DEFINE n == Len(call[c].copy) + 1
           x == [events |-> events[n], locked |-> locked[n]]
           k == [call[c] EXCEPT !.copy = Append(@, x), !.caught = @ \/ Delivering(n)]
<1>1. call[c] \in CheckCalls /\ CheckInv(call[c])
    BY CallKinds DEF NetworkInv, NetworkTypes, CopyNode, ReaderInv
<1>2. call[c].copy \in Copies /\ Len(call[c].copy) \in Nat /\ n \in Nodes /\ n <= N
    BY <1>1, NodesNat, LenProperties DEF CheckCalls, Copies, CopyNode, Nodes
<1>3. x \in [events : Seq(Event), locked : BOOLEAN]
    BY <1>2 DEF NetworkInv, NetworkTypes
<1>4. /\ Append(call[c].copy, x) \in Copies
      /\ Len(Append(call[c].copy, x)) = n
      /\ \A j \in 1..Len(call[c].copy) : Append(call[c].copy, x)[j] = call[c].copy[j]
      /\ Append(call[c].copy, x)[n] = x
    BY <1>2, <1>3, AppendProperties DEF Copies
<1>5. /\ k \in CheckCalls /\ k.copy = Append(call[c].copy, x) /\ k.at = call[c].at
      /\ k.quiet = call[c].quiet /\ k.op = "check"
    <2> HIDE DEF n, x
    <2>1. (call[c].caught \/ Delivering(n)) \in BOOLEAN
        BY DEF Delivering
    <2> QED
        BY <1>1, <1>4, <2>1 DEF CheckCalls
<1>6. call' = [call EXCEPT ![c] = k] /\ SameNetwork /\ call[c].op = "check"
    BY DEF CopyNode, SameNetwork, NetworkInv, NetworkTypes
<1> HIDE DEF k
<1>7. call'[c] = k
    BY <1>6 DEF NetworkInv, NetworkTypes
<1>8. Calling("broadcast")' = Calling("broadcast")
    BY <1>5, <1>6, <1>7 DEF Calling, NetworkInv, NetworkTypes
<1>9. events' = events
    BY <1>6 DEF SameNetwork
<1>10. call[c].at \in Nodes /\ call[c].at <= 1
    BY <1>1, <1>2 DEF CheckInv, CheckCalls, CopyNode, Nodes
<1>11. CheckInv(call[c])'
    <2> HIDE DEF n
    <2>1. Len(k.copy) = n /\ n <= N /\ k.at <= 1 /\ k.at \in Nat
        BY <1>2, <1>4, <1>5, <1>10, NodesNat
    <2>2. ASSUME NEW m \in 1..n
          PROVE  /\ Begins(k.copy[m].events, events[m])
                 /\ k.quiet => k.copy[m].events = events[m]
        <3>1. CASE m = n
            <4>1. k.copy[m].events = events[m]
                BY <1>4, <1>5, <3>1
            <4>2. Len(events[m]) \in Nat
                BY <1>2, <3>1, LenProperties DEF NetworkInv, NetworkTypes
            <4> QED
                BY <4>1, <4>2 DEF Begins
        <3>2. CASE m # n
            <4>1. m \in 1..Len(call[c].copy)
                BY <1>2, <3>2 DEF n
            <4> QED
                BY <1>1, <1>4, <1>5, <4>1 DEF CheckInv
        <3> QED
            BY <3>1, <3>2
    <2>3. 1..(k.at - 1) = {}
        BY <2>1
    <2>4. k.quiet => Calling("broadcast") = {}
        BY <1>1, <1>5 DEF CheckInv
    <2> QED
        BY <1>7, <1>8, <1>9, <2>1, <2>2, <2>3, <2>4 DEF CheckInv
<1>12. ReaderInv(c)'
    <2>1. call'[c].op = "check"
        BY <1>5, <1>7
    <2> QED
        BY <1>11, <2>1 DEF ReaderInv
<1> QED
    BY <1>5, <1>6, <1>12, CallsAre, ReadersKept

\* Two copies that do not agree are, where nobody broadcast, of nodes that will
\* not agree again.
LEMMA QuietDiffer ==
    ASSUME NetworkInv, Calling("broadcast") = {}, NEW n \in Nodes,
           ~SameEvents(events[1], events[n])
    PROVE  Differs(n)
<1>1. events[1] \in Seq(Event) /\ events[n] \in Seq(Event)
    BY NodesNat DEF NetworkInv, NetworkTypes
<1>2. Len(events[1]) \in Nat /\ Len(events[n]) \in Nat
    BY <1>1, LenProperties
<1>3. CASE Len(events[1]) = Len(events[n])
    <2>1. PICK j \in 1..Len(events[1]) : events[1][j] # events[n][j]
        BY <1>3 DEF SameEvents
    <2>2. j \in 1..Len(events[n]) /\ j <= Len(events[1])
        BY <1>2, <1>3, <2>1
    <2> QED
        BY <2>1, <2>2 DEF Differs
<1>4. CASE Len(events[1]) # Len(events[n])
    <2>1. \A m \in receives : Reached(m) = {}
        BY DEF Reached
    <2>2. \A m \in receives : Len(events[m]) = Total(done) + Cardinality(Reached(m))
        BY DEF NetworkInv, EventsInv
    <2>3. ~(1 \in receives /\ n \in receives)
        BY <1>4, <2>1, <2>2
    <2>4. \A m \in Nodes : m \notin receives => events[m] = <<>>
        BY DEF NetworkInv, EventsInv
    <2>5. ~(1 \notin receives /\ n \notin receives)
        BY <1>4, <2>4, NodesNat
    <2>6. events[1] # events[n]
        BY <1>4
    <2> QED
        BY <2>3, <2>4, <2>5, <2>6, NodesNat DEF Differs
<1> QED
    BY <1>3, <1>4

LEMMA CompareNodeKeeps ==
    ASSUME NetworkInv, NEW c \in Caller, CompareNode(c)
    PROVE  NetworkInv'
<1> DEFINE i == call[c].at
           ref == call[c].copy[1].events
           same == SameEvents(ref, call[c].copy[i].events)
           k == IF same /\ i < N
                THEN [call[c] EXCEPT !.at = i + 1]
                ELSE [op |-> "checked", same |-> same, len |-> Len(ref),
                      quiet |-> call[c].quiet]
<1>1. call[c] \in CheckCalls /\ CheckInv(call[c])
    BY CallKinds DEF NetworkInv, NetworkTypes, CompareNode, ReaderInv
<1>2. /\ call[c].copy \in Copies /\ Len(call[c].copy) = N /\ i \in 1..N
      /\ \A m \in 1..N : call[c].copy[m].events \in Seq(Event)
    <2>1. call[c].copy \in Copies /\ Len(call[c].copy) = N /\ i \in 1..N
        BY <1>1 DEF CheckCalls, CompareNode, Nodes
    <2>2. \A m \in 1..N : call[c].copy[m] \in [events : Seq(Event), locked : BOOLEAN]
        BY <2>1, ElementOfSeq DEF Copies
    <2> QED
        BY <2>1, <2>2
<1>3. 1 \in 1..N /\ ref \in Seq(Event) /\ Len(ref) \in Nat /\ same \in BOOLEAN
    BY <1>2, NodesNat, LenProperties DEF SameEvents, Nodes
<1>4. call' = [call EXCEPT ![c] = k] /\ SameNetwork
    BY DEF CompareNode, SameNetwork, NetworkInv, NetworkTypes
<1>5. call'[c] = k
    BY <1>4 DEF NetworkInv, NetworkTypes
\* Copies that agree are one list.
<1>6. same => call[c].copy[i].events = ref
    <2>1. ASSUME NEW s \in Seq(Event), NEW t \in Seq(Event), SameEvents(s, t)
          PROVE  s = t
        BY <2>1, SeqEqual DEF SameEvents
    <2> QED
        BY <1>2, <1>3, <2>1
<1>7. \A m \in 1..i : same => call[c].copy[m].events = ref
    BY <1>1, <1>2, <1>6 DEF CheckInv
<1>8. CASE same /\ i < N
    <2>1. /\ k \in CheckCalls /\ k.copy = call[c].copy /\ k.at = i + 1
          /\ k.quiet = call[c].quiet /\ k.op = "check"
        <3>1. i + 1 \in Nodes
            BY <1>2, <1>8, NodesNat DEF Nodes
        <3> QED
            BY <1>1, <1>8, <3>1 DEF CheckCalls
    <2> HIDE DEF k, same
    <2>2. Calling("broadcast")' = Calling("broadcast") /\ events' = events
        BY <1>1, <1>4, <1>5, <2>1 DEF Calling, NetworkInv, NetworkTypes, SameNetwork, CheckCalls
    <2>3. 1..(i + 1 - 1) = 1..i
        BY <1>2, NodesNat
    <2>4. CheckInv(call[c])'
        BY <1>1, <1>2, <1>5, <1>7, <1>8, <2>1, <2>2, <2>3 DEF CheckInv
    <2>5. ReaderInv(c)'
        <3>1. call'[c].op = "check"
            BY <1>5, <2>1
        <3> QED
            BY <2>4, <3>1 DEF ReaderInv
    <2>6. call[c].op = "check"
        BY <1>1 DEF CheckCalls
    <2> QED
        BY <1>4, <2>1, <2>5, <2>6, CallsAre, ReadersKept
<1>9. CASE ~(same /\ i < N)
    <2>1. /\ k \in CheckedCalls /\ k.same = same /\ k.len = Len(ref)
          /\ k.quiet = call[c].quiet /\ k.op = "checked"
        BY <1>1, <1>3, <1>9 DEF CheckedCalls, CheckCalls
    <2> HIDE DEF k
    <2>2. receives' = receives /\ events' = events
        BY <1>4 DEF SameNetwork
    <2>3. ASSUME same, NEW n \in Nodes
          PROVE  /\ Len(ref) <= Len(events[n])
                 /\ \A j \in 1..Len(ref) : events[n][j] = events[1][j]
        <3>1. i = N /\ n \in 1..N
            BY <1>2, <1>9, <2>3, NodesNat DEF Nodes
        <3>2. call[c].copy[n].events = ref
            BY <1>7, <2>3, <3>1
        <3>3. Begins(ref, events[n]) /\ Begins(ref, events[1])
            BY <1>1, <1>2, <1>3, <3>1, <3>2 DEF CheckInv
        <3> QED
            BY <3>3 DEF Begins
    <2>4. ASSUME ~same, call[c].quiet
          PROVE  Differs(i)
        <3>1. /\ Calling("broadcast") = {} /\ ref = events[1]
              /\ call[c].copy[i].events = events[i]
            BY <1>1, <1>2, <1>3, <2>4 DEF CheckInv
        <3>2. i \in Nodes
            BY <1>2 DEF Nodes
        <3> QED
            BY <2>4, <3>1, <3>2, QuietDiffer
    <2>5. CheckedInv(call[c])'
        <3> HIDE DEF same, ref
        <3>1. \A n \in Nodes : Differs(n)' = Differs(n)
            BY <2>2 DEF Differs
        <3>2. i \in Nodes
            BY <1>2 DEF Nodes
        <3> QED
            BY <1>5, <2>1, <2>2, <2>3, <2>4, <3>1, <3>2 DEF CheckedInv
    <2>6. ReaderInv(c)'
        <3>1. call'[c].op = "checked"
            BY <1>5, <2>1
        <3> QED
            BY <2>5, <3>1 DEF ReaderInv
    <2>7. call[c].op = "check"
        BY <1>1 DEF CheckCalls
    <2> QED
        BY <1>4, <2>1, <2>6, <2>7, CallsAre, ReadersKept
<1> QED
    BY <1>8, <1>9

LEMMA StatsBegins ==
    ASSUME NetworkInv, NEW c \in Caller, Stats(c)
    PROVE  NetworkInv'
<1> DEFINE k == [op |-> "stats", stats |-> <<>>, since |-> done, caught |-> FALSE, stuck |-> FALSE]
<1>1. k \in StatsCalls
    BY EmptySeq DEF StatsCalls, NetworkInv, NetworkTypes
<1>2. call' = [call EXCEPT ![c] = k] /\ SameNetwork /\ call[c].op # "broadcast"
    BY DEF Stats, SameNetwork, Idle
<1>3. call'[c] = k /\ done' = done /\ receives' = receives
    BY <1>2 DEF NetworkInv, NetworkTypes, SameNetwork
<1>4. Total(done) \in Nat /\ Total(done)' = Total(done)
    BY <1>3, FS_CardinalityType DEF NetworkInv, EventsInv, Total, Numbered
<1>5. ReaderInv(c)'
    <2>1. Len(<<>>) = 0
        BY EmptySeq
    <2>2. call'[c].since = done /\ Len(call'[c].stats) = 0 /\ call'[c].op = "stats"
        BY <1>3, <2>1
    <2>3. \A n \in receives : ~(n <= 0)
        BY NodesNat DEF NetworkInv, NetworkTypes, Nodes
    <2>4. CountInv(call[c])'
        BY <1>3, <1>4, <2>2, <2>3 DEF CountInv
    <2> QED
        BY <2>2, <2>4, NodesNat DEF ReaderInv
<1> QED
    BY <1>1, <1>2, <1>5, CallsAre, ReadersKept

LEMMA CountNodeKeeps ==
    ASSUME NetworkInv, NEW c \in Caller, CountNode(c)
    PROVE  NetworkInv'
<1> DEFINE n == Len(call[c].stats) + 1
           stats == Append(call[c].stats, Len(events[n]))
           k == IF locked[n] THEN [call[c] EXCEPT !.stuck = TRUE, !.caught = Delivering(n)]
                ELSE IF n < N THEN [call[c] EXCEPT !.stats = stats]
                ELSE [op |-> "counted", stats |-> stats, since |-> call[c].since]
<1>1. call[c] \in StatsCalls /\ CountInv(call[c]) /\ Len(call[c].stats) < N
    BY CallKinds DEF NetworkInv, NetworkTypes, CountNode, ReaderInv
<1>2. call[c].stats \in Seq(Nat) /\ Len(call[c].stats) \in Nat /\ n \in Nodes /\ n <= N
    BY <1>1, NodesNat, LenProperties DEF StatsCalls, Nodes
<1>3. Len(events[n]) \in Nat
    BY <1>2, LenProperties DEF NetworkInv, NetworkTypes
<1>4. /\ stats \in Seq(Nat) /\ Len(stats) = n
      /\ \A j \in 1..Len(call[c].stats) : stats[j] = call[c].stats[j]
      /\ stats[n] = Len(events[n])
    BY <1>2, <1>3, AppendProperties
<1>5. call' = [call EXCEPT ![c] = k] /\ SameNetwork /\ call[c].op = "stats"
    BY DEF CountNode, SameNetwork, NetworkInv, NetworkTypes
<1>6. call'[c] = k /\ done' = done /\ receives' = receives
    BY <1>5 DEF NetworkInv, NetworkTypes, SameNetwork
<1>7. /\ Total(call[c].since) \in Nat /\ Total(call[c].since) <= Total(done)
      /\ Total(done)' = Total(done) /\ Total(done) \in Nat
    BY <1>1, <1>6, FS_CardinalityType DEF CountInv, NetworkInv, EventsInv, Total, Numbered
<1>8. n \in receives => Len(events[n]) >= Total(done)
    <2>1. Cardinality(Reached(n)) \in Nat
        <3>1. IsFiniteSet(Calling("broadcast")) /\ Reached(n) \in SUBSET Calling("broadcast")
            BY DEF NetworkInv, DeliveriesInv, Reached
        <3> QED
            BY <3>1, FS_Subset, FS_CardinalityType
    <2>2. n \in receives => Len(events[n]) = Total(done) + Cardinality(Reached(n))
        BY DEF NetworkInv, EventsInv
    <2> QED
        BY <1>7, <2>1, <2>2
\* What the caller has counted is enough, with the next node as without.
<1>9. /\ \A m \in receives : m <= Len(call[c].stats) => call[c].stats[m] >= Total(call[c].since)
      /\ \A m \in receives : m <= n => stats[m] >= Total(call[c].since)
    <2> HIDE DEF n, stats
    <2>1. \A m \in receives : m <= Len(call[c].stats) => call[c].stats[m] >= Total(call[c].since)
        BY <1>1 DEF CountInv
    <2>2. ASSUME NEW m \in receives, m <= n
          PROVE  stats[m] >= Total(call[c].since)
        <3>1. m \in 1..n
            BY <1>2, <2>2 DEF NetworkInv, NetworkTypes, Nodes
        <3>2. CASE m = n
            BY <1>3, <1>4, <1>7, <1>8, <3>2
        <3>3. CASE m # n
            <4>1. m \in 1..Len(call[c].stats) /\ m <= Len(call[c].stats)
                BY <1>2, <3>1, <3>3 DEF n
            <4> QED
                BY <1>4, <2>1, <4>1
        <3> QED
            BY <3>2, <3>3
    <2> QED
        BY <2>1, <2>2
<1>10. CASE locked[n]
    <2>1. k \in StatsCalls /\ k.stats = call[c].stats /\ k.since = call[c].since /\ k.op = "stats"
        <3>1. Delivering(n) \in BOOLEAN
            BY DEF Delivering
        <3> HIDE DEF n
        <3> QED
            BY <1>1, <1>10, <3>1 DEF StatsCalls
    <2> HIDE DEF k, n, stats
    <2>2. CountInv(call[c])'
        BY <1>6, <1>7, <1>9, <2>1 DEF CountInv, Total, Numbered
    <2>3. ReaderInv(c)'
        BY <1>1, <1>6, <2>1, <2>2 DEF ReaderInv
    <2> QED
        BY <1>5, <2>1, <2>3, CallsAre, ReadersKept
<1>11. CASE ~locked[n] /\ n < N
    <2>1. k \in StatsCalls /\ k.stats = stats /\ k.since = call[c].since /\ k.op = "stats"
        <3> HIDE DEF n, stats
        <3> QED
            BY <1>1, <1>4, <1>11 DEF StatsCalls
    <2> HIDE DEF k, n, stats
    <2>2. CountInv(call[c])'
        BY <1>4, <1>6, <1>7, <1>9, <2>1 DEF CountInv, Total, Numbered
    <2>3. ReaderInv(c)'
        BY <1>4, <1>6, <1>11, <2>1, <2>2 DEF ReaderInv
    <2> QED
        BY <1>5, <2>1, <2>3, CallsAre, ReadersKept
<1>12. CASE ~locked[n] /\ ~(n < N)
    <2>1. k \in CountedCalls /\ k.stats = stats /\ k.since = call[c].since /\ k.op = "counted"
        <3> HIDE DEF n, stats
        <3> QED
            BY <1>1, <1>4, <1>12 DEF StatsCalls, CountedCalls
    <2>2. n = N
        BY <1>2, <1>12, NodesNat
    <2> HIDE DEF k, n, stats
    <2>3. CountInv(call[c])'
        BY <1>4, <1>6, <1>7, <1>9, <2>1 DEF CountInv, Total, Numbered
    <2>4. ReaderInv(c)'
        BY <1>4, <1>6, <2>1, <2>2, <2>3 DEF ReaderInv
    <2> QED
        BY <1>5, <2>1, <2>4, CallsAre, ReadersKept
<1> QED
    BY <1>10, <1>11, <1>12

LEMMA ResumeKeeps ==
    ASSUME NetworkInv, NEW c \in Caller, Resume(c)
    PROVE  NetworkInv'
<1>1. call' = [call EXCEPT ![c] = Idle] /\ SameNetwork
    BY DEF Resume, SameNetwork
<1>2. call[c].op # "broadcast" /\ Idle.op = "idle"
    BY DEF Resume, Idle
<1>3. call'[c] = Idle
    BY <1>1 DEF NetworkInv, NetworkTypes
<1>4. ReaderInv(c)'
    BY <1>2, <1>3 DEF ReaderInv
<1> QED
    BY <1>1, <1>2, <1>4, CallsAre, ReadersKept

-----------------------------------------------------------------------------
(* Broadcasts.                                                               *)

\* What the readers know outlasts a step of a broadcast, or the end of their
\* being undisturbed.
LEMMA BroadcastersStep ==
    ASSUME NetworkInv, NetworkTypes', NEW c \in Caller,
           receives' = receives, Total(done)' \in Nat, Total(done) <= Total(done)',
           \A n \in Nodes : Begins(events[n], events'[n]),
           call'[c].op \in {"idle", "broadcast"},
           \/ call[c].op = "broadcast" /\ OneCall(c)
           \/ \A d \in Caller \ {c} :
                IF call[d].op = "check" THEN call'[d] = [call[d] EXCEPT !.quiet = FALSE]
                ELSE call'[d] = call[d]
    PROVE  \A d \in Caller : ReaderInv(d)'
<1> SUFFICES ASSUME NEW d \in Caller
             PROVE  ReaderInv(d)'
    OBVIOUS
<1>1. CASE d = c
    BY <1>1 DEF ReaderInv
<1>2. CASE d # c
    <2>1. Total(done) \in Nat
        BY FS_CardinalityType DEF NetworkInv, EventsInv, Total
    <2>2. \/ call'[d] = call[d] /\ (call[d].op # "check" \/ ~call[d].quiet)
          \/ call[d].op = "check" /\ call'[d] = [call[d] EXCEPT !.quiet = FALSE]
        <3>1. CASE call[c].op = "broadcast" /\ OneCall(c)
            <4>1. Calling("broadcast") # {} /\ call'[d] = call[d]
                BY <1>2, <3>1 DEF Calling, OneCall
            <4>2. call[d].op = "check" => ~call[d].quiet
                BY <4>1 DEF NetworkInv, ReaderInv, CheckInv
            <4> QED
                BY <4>1, <4>2
        <3>2. CASE \A x \in Caller \ {c} :
                    IF call[x].op = "check" THEN call'[x] = [call[x] EXCEPT !.quiet = FALSE]
                    ELSE call'[x] = call[x]
            BY <1>2, <3>2
        <3> QED
            BY <3>1, <3>2
    <2>3. NetworkTypes /\ ReaderInv(d)
        BY DEF NetworkInv
    <2> QED
        BY <2>1, <2>2, <2>3, ReaderKept
<1> QED
    BY <1>1, <1>2

LEMMA BroadcastKeeps ==
    ASSUME NetworkInv, NEW c \in Caller, NEW e \in Event, Broadcast(c, e)
    PROVE  NetworkInv'
<1> DEFINE k == [op |-> "broadcast", event |-> e, left |-> receives, in |-> FALSE]
<1>1. k \in BroadcastCalls
    BY DEF BroadcastCalls, NetworkInv, NetworkTypes
<1>2. /\ SameNetwork /\ call[c].op = "idle" /\ call'[c] = k
      /\ \A d \in Caller \ {c} :
            IF call[d].op = "check" THEN call'[d] = [call[d] EXCEPT !.quiet = FALSE]
            ELSE call'[d] = call[d]
    BY DEF Broadcast, SameNetwork, Idle
<1>3. NetworkTypes'
    <2>1. \A d \in Caller : call'[d] \in Calls
        <3> SUFFICES ASSUME NEW d \in Caller
                     PROVE  call'[d] \in Calls
            OBVIOUS
        <3>1. CASE d = c
            BY <1>1, <1>2, <3>1, CallsAre
        <3>2. CASE d # c /\ call[d].op = "check"
            <4>1. call[d] \in CheckCalls
                BY <3>2, CallKinds DEF NetworkInv, NetworkTypes
            <4>2. call'[d] \in CheckCalls
                BY <1>2, <3>2, <4>1 DEF CheckCalls
            <4> QED
                BY <4>2, CallsAre
        <3>3. CASE d # c /\ call[d].op # "check"
            BY <1>2, <3>3 DEF NetworkInv, NetworkTypes
        <3> QED
            BY <3>1, <3>2, <3>3
    <2>2. DOMAIN call' = Caller /\ call' = [d \in Caller |-> call'[d]]
        BY DEF Broadcast
    <2> QED
        BY <1>2, <2>1, <2>2 DEF NetworkInv, NetworkTypes, SameNetwork
<1>4. /\ Calling("broadcast")' = Calling("broadcast") \cup {c} /\ c \notin Calling("broadcast")
      /\ \A d \in Calling("broadcast") : d # c /\ call'[d] = call[d]
    <2>1. ASSUME NEW d \in Caller \ {c}
          PROVE  call'[d].op = call[d].op
        <3>1. CASE call[d].op = "check"
            <4>1. call[d] \in CheckCalls
                BY <3>1, CallKinds DEF NetworkInv, NetworkTypes
            <4> QED
                BY <1>2, <3>1, <4>1 DEF CheckCalls
        <3>2. CASE call[d].op # "check"
            BY <1>2, <3>2
        <3> QED
            BY <3>1, <3>2
    <2>2. call'[c].op = "broadcast" /\ call[c].op = "idle"
        BY <1>2
    <2>3. \A d \in Caller \ {c} : call[d].op = "broadcast" => call'[d] = call[d]
        BY <1>2
    <2> HIDE DEF k
    <2> QED
        BY <2>1, <2>2, <2>3 DEF Calling
<1>5. call'[c].left = receives /\ call'[c].in = FALSE /\ call'[c].event = e
    BY <1>2
<1>6. \A n \in Nodes : Delivering(n)' = Delivering(n)
    BY <1>4, <1>5 DEF Delivering
<1>7. DeliveriesInv'
    <2>1. IsFiniteSet(Calling("broadcast"))'
        BY <1>4, FS_AddElement DEF NetworkInv, DeliveriesInv
    <2> QED
        BY <1>2, <1>4, <1>5, <1>6, <2>1 DEF NetworkInv, DeliveriesInv, SameNetwork
<1>8. \A n \in receives : /\ Reached(n)' = Reached(n)
                           /\ \A f : ReachedWith(n, f)' = ReachedWith(n, f)
    <2> SUFFICES ASSUME NEW n \in receives
                 PROVE  /\ Reached(n)' = Reached(n)
                        /\ \A f : ReachedWith(n, f)' = ReachedWith(n, f)
        OBVIOUS
    <2>1. Reached(n)' = Reached(n)
        BY <1>4, <1>5 DEF Reached
    <2>2. \A d \in Reached(n) : call'[d] = call[d]
        BY <1>4 DEF Reached
    <2> QED
        BY <2>1, <2>2 DEF ReachedWith
<1>9. EventsInv'
    BY <1>2, <1>8 DEF NetworkInv, EventsInv, SameNetwork
<1>10. \A d \in Caller : ReaderInv(d)'
    <2>1. call'[c].op \in {"idle", "broadcast"}
        BY <1>2
    <2>2. Total(done) \in Nat /\ Total(done)' = Total(done)
        BY <1>2, FS_CardinalityType DEF NetworkInv, EventsInv, Total, Numbered, SameNetwork
    <2>3. \A n \in Nodes : Begins(events[n], events'[n])
        BY <1>2, LenProperties DEF Begins, NetworkInv, NetworkTypes, SameNetwork
    <2>4. receives' = receives /\ Total(done)' \in Nat /\ Total(done) <= Total(done)'
        BY <1>2, <2>2 DEF SameNetwork
    <2> QED
        BY <1>2, <1>3, <2>1, <2>3, <2>4, BroadcastersStep
<1> QED
    BY <1>3, <1>7, <1>9, <1>10 DEF NetworkInv

\* The counts of what has reached a node are numbers.
LEMMA ReachedFinite ==
    ASSUME NetworkInv, NEW n, NEW e
    PROVE  /\ IsFiniteSet(Reached(n)) /\ Cardinality(Reached(n)) \in Nat
           /\ IsFiniteSet(ReachedWith(n, e)) /\ Cardinality(ReachedWith(n, e)) \in Nat
<1>1. /\ IsFiniteSet(Calling("broadcast"))
      /\ Reached(n) \in SUBSET Calling("broadcast")
      /\ ReachedWith(n, e) \in SUBSET Calling("broadcast")
    BY DEF NetworkInv, DeliveriesInv, Reached, ReachedWith
<1> QED
    BY <1>1, FS_Subset, FS_CardinalityType

LEMMA LockKeeps ==
    ASSUME NetworkInv, NEW c \in Caller, Lock(c)
    PROVE  NetworkInv'
<1> DEFINE n == Min(call[c].left)
<1>1. /\ call[c] \in BroadcastCalls /\ c \in Calling("broadcast") /\ ~call[c].in
      /\ call[c].left # {} /\ call[c].left \subseteq Nodes
    BY CallKinds DEF NetworkInv, NetworkTypes, Lock, Calling, BroadcastCalls
<1>2. n \in Nodes /\ n \in call[c].left
    BY <1>1, MinIn
<1>3. /\ call'[c] \in BroadcastCalls /\ call'[c].in /\ call'[c].left = call[c].left
      /\ call'[c].event = call[c].event /\ OneCall(c)
    BY <1>1 DEF Lock, BroadcastCalls, OneCall, NetworkInv, NetworkTypes
<1>4. /\ ~locked[n] /\ locked' = [locked EXCEPT ![n] = TRUE]
      /\ receives' = receives /\ events' = events /\ done' = done /\ panicked' = panicked
    BY DEF Lock
<1>5. NetworkTypes'
    <2>1. \A d \in Caller : call'[d] \in Calls
        BY <1>3, CallsAre DEF OneCall, NetworkInv, NetworkTypes
    <2>2. call' = [d \in Caller |-> call'[d]]
        BY DEF Lock, NetworkInv, NetworkTypes
    <2> QED
        BY <1>4, <2>1, <2>2 DEF NetworkInv, NetworkTypes
<1> HIDE DEF n
<1>6. Calling("broadcast")' = Calling("broadcast")
    <2>1. call'[c].op = "broadcast" /\ call[c].op = "broadcast"
        BY <1>1, <1>3 DEF BroadcastCalls
    <2> QED
        BY <1>3, <2>1 DEF Calling, OneCall
<1>7. \A d \in Calling("broadcast") : d # c => call'[d] = call[d]
    BY <1>3 DEF OneCall, Calling
<1>8. \A d \in Calling("broadcast") : call[d].in => Min(call[d].left) # n
    <2>1. SUFFICES ASSUME NEW d \in Calling("broadcast"), call[d].in, Min(call[d].left) = n
                   PROVE  FALSE
        OBVIOUS
    <2>2. Delivering(n)
        BY <2>1 DEF Delivering
    <2> QED
        BY <1>2, <1>4, <2>2 DEF NetworkInv, DeliveriesInv
<1>9. \A m \in Nodes : locked'[m] = Delivering(m)'
    <2> SUFFICES ASSUME NEW m \in Nodes
                 PROVE  locked'[m] = Delivering(m)'
        OBVIOUS
    <2>1. CASE m = n
        <3>1. Delivering(m)'
            BY <1>1, <1>3, <1>6, <2>1 DEF Delivering, n
        <3>2. locked'[m] = TRUE
            BY <1>2, <1>4, <2>1 DEF NetworkInv, NetworkTypes
        <3> QED
            BY <3>1, <3>2 DEF Delivering
    <2>2. CASE m # n
        <3>1. Delivering(m)' <=> Delivering(m)
            BY <1>1, <1>3, <1>6, <1>7, <2>2 DEF Delivering, n
        <3>2. locked'[m] = locked[m]
            BY <1>4, <2>2 DEF NetworkInv, NetworkTypes
        <3>3. locked[m] = Delivering(m)
            BY DEF NetworkInv, DeliveriesInv
        <3> QED
            BY <3>1, <3>2, <3>3 DEF Delivering
    <2> QED
        BY <2>1, <2>2
<1>10. DeliveriesInv'
    <2>1. IsFiniteSet(Calling("broadcast"))
        BY DEF NetworkInv, DeliveriesInv
    <2>2. ASSUME NEW d \in Calling("broadcast")
          PROVE  /\ call'[d].left \subseteq receives
                 /\ call'[d].in => call'[d].left # {}
                 /\ \A x \in Calling("broadcast") :
                      call'[d].in /\ call'[x].in /\ Min(call'[d].left) = Min(call'[x].left) => d = x
        <3>1. call'[d].left = call[d].left
            BY <1>3, <1>7
        <3>2. call[d].left \subseteq receives /\ (call[d].in => call[d].left # {})
            BY DEF NetworkInv, DeliveriesInv
        <3>3. call'[d].in => call'[d].left # {}
            BY <1>1, <1>7, <3>1, <3>2
        <3>4. ASSUME NEW x \in Calling("broadcast"), call'[d].in, call'[x].in,
                     Min(call'[d].left) = Min(call'[x].left), d # x
              PROVE  FALSE
            <4>1. CASE d = c
                BY <1>3, <1>7, <1>8, <3>4, <4>1 DEF n
            <4>2. CASE x = c
                BY <1>3, <1>7, <1>8, <3>4, <4>2 DEF n
            <4>3. CASE d # c /\ x # c
                BY <1>7, <3>4, <4>3 DEF NetworkInv, DeliveriesInv
            <4> QED
                BY <4>1, <4>2, <4>3
        <3> QED
            BY <3>1, <3>2, <3>3, <3>4
    <2> QED
        BY <1>4, <1>6, <1>9, <2>1, <2>2 DEF DeliveriesInv
<1>11. EventsInv'
    <2>1. \A m : Reached(m)' = Reached(m)
        BY <1>1, <1>3, <1>6, <1>7 DEF Reached
    <2>2. \A m, e : ReachedWith(m, e)' = ReachedWith(m, e)
        <3>1. \A d \in Calling("broadcast") : call'[d].event = call[d].event
            BY <1>3, <1>7
        <3> QED
            BY <2>1, <3>1 DEF ReachedWith, Reached
    <2> QED
        BY <1>4, <2>1, <2>2 DEF NetworkInv, EventsInv
<1>12. \A d \in Caller : ReaderInv(d)'
    <2>1. call'[c].op \in {"idle", "broadcast"} /\ call[c].op = "broadcast"
        BY <1>1, <1>3 DEF BroadcastCalls
    <2>2. Total(done) \in Nat /\ Total(done)' = Total(done)
        BY <1>4, FS_CardinalityType DEF NetworkInv, EventsInv, Total, Numbered
    <2>3. \A m \in Nodes : Begins(events[m], events'[m])
        BY <1>4, LenProperties DEF Begins, NetworkInv, NetworkTypes
    <2>4. Total(done)' \in Nat /\ Total(done) <= Total(done)'
        BY <2>2
    <2> QED
        BY <1>3, <1>4, <1>5, <2>1, <2>3, <2>4, BroadcastersStep
<1> QED
    BY <1>5, <1>10, <1>11, <1>12 DEF NetworkInv

LEMMA DeliverKeeps ==
    ASSUME NetworkInv, NEW c \in Caller, Deliver(c)
    PROVE  NetworkInv'
<1>0. PICK n : n = Min(call[c].left)
    OBVIOUS
<1>1. /\ call[c] \in BroadcastCalls /\ c \in Calling("broadcast") /\ call[c].in
      /\ call[c].left # {} /\ call[c].left \subseteq receives
    BY CallKinds DEF NetworkInv, NetworkTypes, DeliveriesInv, Deliver, Calling
<1>2. n \in receives /\ n \in Nodes /\ n \in call[c].left
    BY <1>0, <1>1, MinIn DEF NetworkInv, NetworkTypes
<1>3. /\ call'[c] \in BroadcastCalls /\ ~call'[c].in /\ call'[c].left = call[c].left \ {n}
      /\ call'[c].event = call[c].event /\ OneCall(c)
    BY <1>0, <1>1 DEF Deliver, BroadcastCalls, OneCall, NetworkInv, NetworkTypes
<1>4. /\ locked' = [locked EXCEPT ![n] = FALSE]
      /\ receives' = receives /\ done' = done /\ panicked' = panicked
      /\ events' = [events EXCEPT ![n] = Append(events[n], call[c].event)]
    BY <1>0 DEF Deliver, Release
<1>5. call[c].event \in Event /\ events[n] \in Seq(Event)
    BY <1>1, <1>2 DEF BroadcastCalls, NetworkInv, NetworkTypes
<1>6. NetworkTypes'
    <2>1. \A d \in Caller : call'[d] \in Calls
        BY <1>3, CallsAre DEF OneCall, NetworkInv, NetworkTypes
    <2>2. call' = [d \in Caller |-> call'[d]]
        BY DEF Deliver, NetworkInv, NetworkTypes
    <2>3. Append(events[n], call[c].event) \in Seq(Event)
        BY <1>5, AppendProperties
    <2> QED
        BY <1>2, <1>4, <2>1, <2>2, <2>3 DEF NetworkInv, NetworkTypes
<1>7. Calling("broadcast")' = Calling("broadcast")
    <2>1. call'[c].op = "broadcast" /\ call[c].op = "broadcast"
        BY <1>1, <1>3 DEF BroadcastCalls
    <2> QED
        BY <1>3, <2>1 DEF Calling, OneCall
<1>8. \A d \in Calling("broadcast") : d # c => call'[d] = call[d]
    BY <1>3 DEF OneCall, Calling
<1>9. \A d \in Calling("broadcast") : call[d].in /\ Min(call[d].left) = n => d = c
    BY <1>0, <1>1 DEF NetworkInv, DeliveriesInv
<1>10. \A m \in Nodes : locked'[m] = Delivering(m)'
    <2> SUFFICES ASSUME NEW m \in Nodes
                 PROVE  locked'[m] = Delivering(m)'
        OBVIOUS
    <2>1. CASE m = n
        <3>1. ~Delivering(m)'
            BY <1>3, <1>7, <1>8, <1>9, <2>1 DEF Delivering
        <3>2. locked'[m] = FALSE
            BY <1>2, <1>4, <2>1 DEF NetworkInv, NetworkTypes
        <3> QED
            BY <3>1, <3>2 DEF Delivering
    <2>2. CASE m # n
        <3>1. Delivering(m)' <=> Delivering(m)
            BY <1>0, <1>1, <1>3, <1>7, <1>8, <2>2 DEF Delivering
        <3>2. locked'[m] = locked[m]
            BY <1>4, <2>2 DEF NetworkInv, NetworkTypes
        <3>3. locked[m] = Delivering(m)
            BY DEF NetworkInv, DeliveriesInv
        <3> QED
            BY <3>1, <3>2, <3>3 DEF Delivering
    <2> QED
        BY <2>1, <2>2
<1>11. DeliveriesInv'
    <2>1. IsFiniteSet(Calling("broadcast"))
        BY DEF NetworkInv, DeliveriesInv
    <2>2. \A d \in Calling("broadcast") :
             /\ call'[d].left \subseteq receives
             /\ call'[d].in => d # c /\ call'[d] = call[d]
        BY <1>1, <1>3, <1>8 DEF NetworkInv, DeliveriesInv
    <2>3. ASSUME NEW d \in Calling("broadcast"), call'[d].in
          PROVE  /\ call'[d].left # {}
                 /\ \A x \in Calling("broadcast") :
                      call'[x].in /\ Min(call'[d].left) = Min(call'[x].left) => d = x
        BY <2>2, <2>3 DEF NetworkInv, DeliveriesInv
    <2> QED
        BY <1>4, <1>7, <1>10, <2>1, <2>2, <2>3 DEF DeliveriesInv
<1>12. EventsInv'
    <2>0. PICK e \in Event : e = call[c].event
        BY <1>5
    <2>1. /\ Reached(n)' = Reached(n) \cup {c} /\ c \notin Reached(n)
          /\ \A m : m # n => Reached(m)' = Reached(m)
        <3>1. c \notin Reached(n)
            BY <1>2 DEF Reached
        <3>2. n \notin call'[c].left
            BY <1>3
        <3>3. Reached(n)' = Reached(n) \cup {c}
            BY <1>1, <1>7, <1>8, <3>2 DEF Reached
        <3>4. \A m : m # n => (m \in call'[c].left <=> m \in call[c].left)
            BY <1>3
        <3>5. \A m : m # n => Reached(m)' = Reached(m)
            BY <1>7, <1>8, <3>4 DEF Reached
        <3> QED
            BY <3>1, <3>3, <3>5
    <2>2. \A d \in Calling("broadcast") : call'[d].event = call[d].event
        BY <1>3, <1>8
    <2>3. /\ \A m, f : m # n => ReachedWith(m, f)' = ReachedWith(m, f)
          /\ \A f : f # e => ReachedWith(n, f)' = ReachedWith(n, f)
          /\ ReachedWith(n, e)' = ReachedWith(n, e) \cup {c} /\ c \notin ReachedWith(n, e)
        BY <1>1, <2>0, <2>1, <2>2 DEF ReachedWith, Reached
    <2>4. /\ Cardinality(Reached(n)') = Cardinality(Reached(n)) + 1
          /\ Cardinality(ReachedWith(n, e)') = Cardinality(ReachedWith(n, e)) + 1
        BY <2>1, <2>3, ReachedFinite, FS_AddElement
    <2>5. /\ events'[n] = Append(events[n], e)
          /\ \A m \in Nodes \ {n} : events'[m] = events[m]
        BY <1>2, <1>4, <2>0 DEF NetworkInv, NetworkTypes
    <2>6. Total(done) \in Nat /\ \A f \in Event : done[f] \in Nat
        BY FS_CardinalityType DEF NetworkInv, NetworkTypes, EventsInv, Total
    <2>7. ASSUME NEW m \in receives
          PROVE  /\ Len(events'[m]) = Total(done) + Cardinality(Reached(m)')
                 /\ \A f \in Event :
                      Times(f, events'[m]) = done[f] + Cardinality(ReachedWith(m, f)')
        <3>1. /\ Len(events[m]) = Total(done) + Cardinality(Reached(m))
              /\ \A f \in Event : Times(f, events[m]) = done[f] + Cardinality(ReachedWith(m, f))
            BY DEF NetworkInv, EventsInv
        <3>2. CASE m = n
            <4>1. Len(events'[n]) = Len(events[n]) + 1
                BY <1>5, <2>5, AppendProperties
            <4>2. Cardinality(Reached(n)) \in Nat
                BY ReachedFinite
            <4>3. Len(events'[n]) = Total(done) + Cardinality(Reached(n)')
                BY <2>4, <2>6, <3>1, <3>2, <4>1, <4>2
            <4>4. ASSUME NEW f \in Event
                  PROVE  Times(f, events'[n]) = done[f] + Cardinality(ReachedWith(n, f)')
                <5>1. Times(f, events'[n]) = Times(f, events[n]) + (IF e = f THEN 1 ELSE 0)
                    BY <1>5, <2>5, TimesAppend
                <5>2. Cardinality(ReachedWith(n, f)) \in Nat
                    BY ReachedFinite
                <5>3. Cardinality(ReachedWith(n, f)')
                         = Cardinality(ReachedWith(n, f)) + (IF e = f THEN 1 ELSE 0)
                    <6>1. CASE e = f
                        BY <2>4, <6>1
                    <6>2. CASE e # f
                        BY <2>3, <5>2, <6>2
                    <6> QED
                        BY <6>1, <6>2
                <5>4. Times(f, events[n]) = done[f] + Cardinality(ReachedWith(n, f))
                    BY <3>1, <3>2
                <5> QED
                    BY <2>6, <5>1, <5>2, <5>3, <5>4
            <4> QED
                BY <3>2, <4>3, <4>4
        <3>3. CASE m # n
            BY <2>1, <2>3, <2>5, <3>1, <3>3 DEF NetworkInv, NetworkTypes
        <3> QED
            BY <3>2, <3>3
    <2>8. \A m \in Nodes \ receives : events'[m] = <<>>
        BY <1>2, <2>5 DEF NetworkInv, EventsInv
    <2>9. Total(done)' = Total(done) /\ Numbered(done)' = Numbered(done)
        BY <1>4 DEF Total, Numbered
    <2> QED
        BY <1>4, <2>7, <2>8, <2>9 DEF NetworkInv, EventsInv
<1>13. \A d \in Caller : ReaderInv(d)'
    <2>1. call'[c].op \in {"idle", "broadcast"} /\ call[c].op = "broadcast"
        BY <1>1, <1>3 DEF BroadcastCalls
    <2>2. Total(done) \in Nat /\ Total(done)' = Total(done)
        BY <1>4, FS_CardinalityType DEF NetworkInv, EventsInv, Total, Numbered
    <2>3. ASSUME NEW m \in Nodes
          PROVE  Begins(events[m], events'[m])
        <3>1. CASE m = n
            <4>1. events'[m] = Append(events[m], call[c].event)
                BY <1>2, <1>4, <3>1 DEF NetworkInv, NetworkTypes
            <4>2. /\ Len(events[m]) \in Nat /\ Len(events'[m]) = Len(events[m]) + 1
                  /\ \A j \in 1..Len(events[m]) : events'[m][j] = events[m][j]
                BY <1>5, <3>1, <4>1, AppendProperties, LenProperties
            <4> QED
                BY <4>2 DEF Begins
        <3>2. CASE m # n
            BY <1>4, <3>2, LenProperties DEF Begins, NetworkInv, NetworkTypes
        <3> QED
            BY <3>1, <3>2
    <2>4. Total(done)' \in Nat /\ Total(done) <= Total(done)'
        BY <2>2
    <2> QED
        BY <1>3, <1>4, <1>6, <2>1, <2>3, <2>4, BroadcastersStep
<1> QED
    BY <1>6, <1>11, <1>12, <1>13 DEF NetworkInv

LEMMA DeliveredKeeps ==
    ASSUME NetworkInv, NEW c \in Caller, Delivered(c)
    PROVE  NetworkInv'
<1>1. /\ call[c] \in BroadcastCalls /\ c \in Calling("broadcast") /\ call[c].left = {}
      /\ call[c].event \in Event
    BY CallKinds DEF NetworkInv, NetworkTypes, Delivered, Calling, BroadcastCalls
<1>2. UNCHANGED <<receives, events, locked>>
    BY DEF Delivered
<1>3. CASE receives = {}
    <2>1. panicked' = TRUE /\ UNCHANGED <<call, done>>
        BY <1>3 DEF Delivered
    <2>2. NetworkTypes'
        BY <1>2, <2>1 DEF NetworkInv, NetworkTypes
    <2>3. Calling("broadcast")' = Calling("broadcast") /\ \A m : Delivering(m)' = Delivering(m)
        BY <2>1 DEF Calling, Delivering
    <2>4. DeliveriesInv'
        BY <1>2, <2>1, <2>3 DEF NetworkInv, DeliveriesInv
    <2>5. EventsInv'
        BY <1>2, <1>3, <2>1 DEF NetworkInv, EventsInv, Numbered
    <2>6. \A d \in Caller : ReaderInv(d)'
        BY <1>2, <2>1, <2>2, <2>3, ReadersUnmoved
    <2> QED
        BY <2>2, <2>4, <2>5, <2>6 DEF NetworkInv
<1>4. CASE receives # {}
    <2>0. PICK e \in Event : e = call[c].event
        BY <1>1
    <2>1. /\ call' = [call EXCEPT ![c] = Idle]
          /\ done' = [done EXCEPT ![e] = @ + 1] /\ panicked' = panicked
        BY <1>4, <2>0 DEF Delivered
    <2>2. call'[c] = Idle /\ OneCall(c)
        BY <2>1 DEF OneCall, NetworkInv, NetworkTypes
    <2>3. NetworkTypes'
        <3>1. done' \in [Event -> Nat]
            BY <2>1 DEF NetworkInv, NetworkTypes
        <3> QED
            BY <1>2, <2>1, <3>1, CallsAre DEF NetworkInv, NetworkTypes
    <2>4. /\ Calling("broadcast")' = Calling("broadcast") \ {c}
          /\ \A d \in Calling("broadcast") \ {c} : call'[d] = call[d]
        BY <2>2 DEF Calling, OneCall, Idle
    <2>5. ~call[c].in
        BY <1>1 DEF NetworkInv, DeliveriesInv
    <2>6. \A m : Delivering(m)' = Delivering(m)
        BY <2>4, <2>5 DEF Delivering
    <2>7. DeliveriesInv'
        <3>1. IsFiniteSet(Calling("broadcast") \ {c})
            BY FS_RemoveElement DEF NetworkInv, DeliveriesInv
        <3> QED
            BY <1>2, <2>4, <2>6, <3>1 DEF NetworkInv, DeliveriesInv
    <2>8. /\ IsFiniteSet(Numbered(done))' /\ Total(done) \in Nat
          /\ Total(done)' = Total(done) + 1
        <3>1. done \in [Event -> Nat] /\ IsFiniteSet(Numbered(done))
            BY DEF NetworkInv, NetworkTypes, EventsInv
        <3>2. /\ IsFiniteSet(Numbered(done')) /\ Total(done) \in Nat
              /\ Total(done') = Total(done) + 1
            BY <2>1, <3>1, NumberedNext
        <3>3. Numbered(done') = Numbered(done)' /\ Total(done') = Total(done)'
            BY DEF Numbered, Total
        <3> QED
            BY <3>2, <3>3
    <2>9. \A f \in Event : done[f] \in Nat /\ done'[f] = done[f] + (IF f = e THEN 1 ELSE 0)
        BY <2>1 DEF NetworkInv, NetworkTypes
    <2>10. ASSUME NEW m \in receives
           PROVE  /\ Len(events[m]) = Total(done)' + Cardinality(Reached(m)')
                  /\ \A f \in Event :
                       Times(f, events[m]) = done'[f] + Cardinality(ReachedWith(m, f)')
        <3>1. Reached(m)' = Reached(m) \ {c} /\ c \in Reached(m)
            BY <1>1, <2>4 DEF Reached
        <3>2. Cardinality(Reached(m)') = Cardinality(Reached(m)) - 1
            BY <3>1, ReachedFinite, FS_RemoveElement
        <3>3. Cardinality(Reached(m)) \in Nat
            BY ReachedFinite
        <3>4. Len(events[m]) = Total(done) + Cardinality(Reached(m))
            BY DEF NetworkInv, EventsInv
        <3>5. Len(events[m]) = Total(done)' + Cardinality(Reached(m)')
            BY <2>8, <3>2, <3>3, <3>4
        <3>6. ASSUME NEW f \in Event
              PROVE  Times(f, events[m]) = done'[f] + Cardinality(ReachedWith(m, f)')
            <4>1. /\ Cardinality(ReachedWith(m, f)) \in Nat /\ IsFiniteSet(ReachedWith(m, f))
                BY ReachedFinite
            <4>2. Times(f, events[m]) = done[f] + Cardinality(ReachedWith(m, f))
                BY DEF NetworkInv, EventsInv
            <4>3. \A d \in Reached(m) \ {c} : call'[d] = call[d]
                BY <2>4 DEF Reached
            <4>4. CASE f = e
                <5>1. ReachedWith(m, f)' = ReachedWith(m, f) \ {c} /\ c \in ReachedWith(m, f)
                    BY <2>0, <3>1, <4>3, <4>4 DEF ReachedWith
                <5>2. Cardinality(ReachedWith(m, f)') = Cardinality(ReachedWith(m, f)) - 1
                    BY <4>1, <5>1, FS_RemoveElement
                <5> QED
                    BY <2>9, <4>1, <4>2, <4>4, <5>2
            <4>5. CASE f # e
                <5>1. ReachedWith(m, f)' = ReachedWith(m, f)
                    BY <2>0, <3>1, <4>3, <4>5 DEF ReachedWith
                <5> QED
                    BY <2>9, <4>1, <4>2, <4>5, <5>1
            <4> QED
                BY <4>4, <4>5
        <3> QED
            BY <3>5, <3>6
    <2>11. EventsInv'
        BY <1>2, <1>4, <2>1, <2>8, <2>10 DEF NetworkInv, EventsInv
    <2>12. \A d \in Caller : ReaderInv(d)'
        <3>1. call'[c].op \in {"idle", "broadcast"} /\ call[c].op = "broadcast"
            BY <1>1, <2>2 DEF BroadcastCalls, Idle
        <3>2. \A m \in Nodes : Begins(events[m], events'[m])
            BY <1>2, LenProperties DEF Begins, NetworkInv, NetworkTypes
        <3>3. Total(done)' \in Nat /\ Total(done) <= Total(done)'
            BY <2>8
        <3> QED
            BY <1>2, <2>2, <2>3, <3>1, <3>2, <3>3, BroadcastersStep
    <2> QED
        BY <2>3, <2>7, <2>11, <2>12 DEF NetworkInv
<1> QED
    BY <1>3, <1>4

-----------------------------------------------------------------------------
(* The theorems.                                                             *)

\* The inductive invariant of the network, for any numbers of nodes, senders and
\* readers, any samples and any events.
THEOREM NetworkAlwaysSound == NetworkSpec => []NetworkInv
<1>1. NewNetwork => NetworkInv
    BY NetworkStart
<1>2. NetworkInv /\ [NetworkNext]_networkVars => NetworkInv'
    <2> SUFFICES ASSUME NetworkInv, [NetworkNext]_networkVars
                 PROVE  NetworkInv'
        OBVIOUS
    <2>1. ASSUME NEW c \in Caller, Proceed(c)
          PROVE  NetworkInv'
        BY <2>1, LockKeeps, DeliverKeeps, DeliveredKeeps, CopyNodeKeeps, CompareNodeKeeps,
           CountNodeKeeps DEF Proceed
    <2>2. ASSUME NEW c \in Caller, Enter(c)
          PROVE  NetworkInv'
        BY <2>2, BroadcastKeeps, CheckBegins, StatsBegins, ResumeKeeps DEF Enter
    <2>3. CASE UNCHANGED networkVars
        <3>1. /\ receives' = receives /\ events' = events /\ locked' = locked /\ call' = call
              /\ done' = done /\ panicked' = panicked
            BY <2>3 DEF networkVars
        <3>2. NetworkTypes'
            BY <3>1 DEF NetworkInv, NetworkTypes
        <3>3. SameNetwork
            BY <3>1 DEF SameNetwork
        <3>4. DeliveriesInv' /\ EventsInv'
            BY <3>1, <3>3, ReaderStep DEF NetworkInv
        <3>5. \A d \in Caller : ReaderInv(d)'
            <4>1. Calling("broadcast")' = Calling("broadcast")
                BY <3>1 DEF Calling
            <4> QED
                BY <3>1, <3>2, <4>1, ReadersUnmoved
        <3> QED
            BY <3>2, <3>4, <3>5 DEF NetworkInv
    <2> QED
        BY <2>1, <2>2, <2>3 DEF NetworkNext
<1> QED
    BY <1>1, <1>2, PTL DEF NetworkSpec

\* Recipients hold every event once for each broadcast that has reached them, and
\* the others none; a mutex is held by a delivery (invariant NetworkTypeOK).
THEOREM NetworkHoldsWhatWasSent == NetworkSpec => []NetworkTypeOK
<1>1. NetworkInv => NetworkTypeOK
    <2> SUFFICES ASSUME NetworkInv
                 PROVE  NetworkTypeOK
        OBVIOUS
    <2>1. ASSUME NEW n \in receives, NEW e \in Event
          PROVE  Times(e, events[n]) =
                    done[e] + Cardinality({c \in Calling("broadcast") :
                                             call[c].event = e /\ n \notin call[c].left})
        <3>1. ReachedWith(n, e) = {c \in Calling("broadcast") :
                                     call[c].event = e /\ n \notin call[c].left}
            BY DEF ReachedWith, Reached
        <3> QED
            BY <3>1 DEF NetworkInv, EventsInv
    <2> QED
        BY <2>1 DEF NetworkInv, NetworkTypes, DeliveriesInv, EventsInv, NetworkTypeOK
<1> QED
    BY <1>1, NetworkAlwaysSound, PTL

\* What CheckConvergence and Stats answer was so, although they copy the nodes at
\* different moments and lock only the copies (invariant ReadsWereSo).
THEOREM ReadersAnswerTruly == NetworkSpec => []ReadsWereSo
<1>1. NetworkInv => ReadsWereSo
    <2> SUFFICES ASSUME NetworkInv, NEW c \in Caller
                 PROVE  /\ call[c].op = "checked" /\ call[c].same =>
                             \A n \in Nodes :
                                IsPrefix(SubSeq(events[1], 1, call[c].len), events[n])
                        /\ call[c].op = "checked" /\ ~call[c].same /\ call[c].quiet =>
                             \E n \in Nodes : events[n] # events[1]
                        /\ call[c].op = "counted" =>
                             \A n \in receives : call[c].stats[n] >= Total(call[c].since)
        BY DEF ReadsWereSo
    <2>1. ASSUME call[c].op = "checked", call[c].same, NEW n \in Nodes
          PROVE  IsPrefix(SubSeq(events[1], 1, call[c].len), events[n])
        <3> DEFINE len == call[c].len
                   s == SubSeq(events[1], 1, len)
        <3>1. call[c] \in CheckedCalls /\ CheckedInv(call[c])
            BY <2>1, CallKinds DEF NetworkInv, NetworkTypes, ReaderInv
        <3>2. /\ events[1] \in Seq(Event) /\ events[n] \in Seq(Event)
              /\ Len(events[1]) \in Nat /\ Len(events[n]) \in Nat
            BY NodesNat, LenProperties DEF NetworkInv, NetworkTypes
        <3>3. /\ len \in Nat /\ len <= Len(events[1]) /\ len <= Len(events[n])
              /\ \A j \in 1..len : events[n][j] = events[1][j]
            BY <2>1, <3>1, NodesNat DEF CheckedInv, CheckedCalls
        <3> HIDE DEF len
        <3>4. s \in Seq(Event) /\ Len(s) = len /\ \A j \in 1..len : s[j] = events[1][j]
            BY <3>2, <3>3, SubSeqProperties
        <3>5. /\ SubSeq(events[n], 1, len) \in Seq(Event) /\ Len(SubSeq(events[n], 1, len)) = len
              /\ \A j \in 1..len : SubSeq(events[n], 1, len)[j] = events[n][j]
            BY <3>2, <3>3, SubSeqProperties
        <3>6. s = SubSeq(events[n], 1, len)
            BY <3>3, <3>4, <3>5, SeqEqual
        <3>7. SubSeq(s, 1, Len(s)) = s
            <4> HIDE DEF s
            <4>1. SubSeq(s, 1, len) \in Seq(Event) /\ Len(SubSeq(s, 1, len)) = len
                  /\ \A j \in 1..len : SubSeq(s, 1, len)[j] = s[j]
                BY <3>3, <3>4, SubSeqProperties
            <4> QED
                BY <3>4, <4>1, SeqEqual
        <3> QED
            BY <3>3, <3>4, <3>6, <3>7 DEF IsPrefix, len
    <2>2. ASSUME call[c].op = "checked", ~call[c].same, call[c].quiet
          PROVE  \E n \in Nodes : events[n] # events[1]
        <3>1. PICK n \in Nodes : Differs(n)
            BY <2>2 DEF NetworkInv, ReaderInv, CheckedInv
        <3>2. \A m \in Nodes \ receives : events[m] = <<>>
            BY DEF NetworkInv, EventsInv
        <3>3. events[n] # events[1]
            BY <3>1, <3>2, NodesNat DEF Differs
        <3> QED
            BY <3>3
    <2>3. ASSUME call[c].op = "counted", NEW n \in receives
          PROVE  call[c].stats[n] >= Total(call[c].since)
        <3>1. CountInv(call[c]) /\ Len(call[c].stats) = N
            BY <2>3 DEF NetworkInv, ReaderInv
        <3>2. n \in 1..N
            BY DEF NetworkInv, NetworkTypes, Nodes
        <3>3. n <= N
            BY <3>2, NodesNat
        <3> QED
            BY <3>1, <3>3 DEF CountInv
    <2> QED
        BY <2>1, <2>2, <2>3
<1> QED
    BY <1>1, NetworkAlwaysSound, PTL

=============================================================================
