----------------------------- MODULE StateDiff -----------------------------
(***************************************************************************)
(* diff.Compare and diff.GlobalDiff (src/pkg/diff/engine.go) while other   *)
(* goroutines write to the states they compare.                            *)
(*                                                                         *)
(* Every State has a sync.RWMutex.  A writer first announces itself, which *)
(* keeps out new readers, and enters when the readers that are in have     *)
(* left; a second writer waits to announce itself.  Compare calls Hash up  *)
(* to six times, each under its own read lock, then takes the read locks   *)
(* of both states, twice, and gives all of them back when it returns.      *)
(*                                                                         *)
(* Values are known by how they print, since Compare compares what "%v"    *)
(* prints of them.  differed is history.                                   *)
(***************************************************************************)
EXTENDS Integers, Sequences, FiniteSets

CONSTANTS
    State,      \* the compared states
    Pairs,      \* the pairs of states that callers compare
    Comparer,   \* goroutines that call Compare or GlobalDiff
    Writer,     \* goroutines that call Set, AppendSeq and SetHash
    Hash,       \* hashes, the empty string included
    NoHash,     \* the empty string
    Number,     \* numbers given to AppendSeq
    Content,    \* what a state's data map may print as; NewState's is NoData
    NoData,
    None,       \* no writer
    MaxSeq,     \* bound: length of eventSeq
    MaxWrites   \* bound: writes

ASSUME DiffAssumption ==
    /\ Pairs \subseteq State \X State
    /\ NoHash \in Hash /\ NoData \in Content
    /\ None \notin Writer
    /\ MaxSeq \in Nat /\ MaxWrites \in Nat

VARIABLES
    hash, eventSeq, data,   \* the fields of each state
    announced,  \* the writer that has announced itself on each state, or None
    writes,     \* writes so far
    held,       \* held[p]: the read locks p holds, one entry for each RLock
    pc,         \* where each comparer is
    pair,       \* the pair it compares, or <<>>
    todo,       \* the pairs GlobalDiff has still to compare
    read,       \* the hash of the first state when it was read for comparison
    differed    \* the hashes of its pair have differed since Compare was called

fields == <<hash, eventSeq, data>>
locals == <<held, pc, pair, todo, read>>
vars == <<fields, announced, writes, locals, differed>>

Init ==
    /\ \E h \in Hash : hash = [s \in State |-> h]     \* states that are alike
    /\ eventSeq = [s \in State |-> <<>>]
    /\ data = [s \in State |-> NoData]
    /\ announced = [s \in State |-> None]
    /\ writes = 0
    /\ held = [p \in Comparer |-> <<>>]
    /\ pc = [p \in Comparer |-> "idle"]
    /\ pair = [p \in Comparer |-> <<>>]
    /\ todo = [p \in Comparer |-> {}]
    /\ read = [p \in Comparer |-> NoHash]
    /\ differed = [p \in Comparer |-> FALSE]

Holds(p, s) == \E i \in 1..Len(held[p]) : held[p][i] = s

Goto(p, to) == pc' = [pc EXCEPT ![p] = to]

\* Read lock s for p, here and now: no writer has announced itself.
MayRLock(s) == announced[s] = None

A(p) == pair[p][1]
B(p) == pair[p][2]

-----------------------------------------------------------------------------
(* Writers: Set, AppendSeq, SetHash *)

\* Lock, up to the point where new readers are kept out.
Announce(w, s) ==
    /\ writes + Cardinality({t \in State : announced[t] # None}) < MaxWrites
    /\ \A t \in State : announced[t] # w
    /\ announced[s] = None
    /\ announced' = [announced EXCEPT ![s] = w]
    /\ UNCHANGED <<fields, writes, locals, differed>>

\* The write and the deferred Unlock.
Write(w, s) ==
    /\ announced[s] = w
    /\ \A p \in Comparer : ~Holds(p, s)
    /\ \/ \E h \in Hash : hash' = [hash EXCEPT ![s] = h] /\ UNCHANGED <<eventSeq, data>>
       \/ /\ Len(eventSeq[s]) < MaxSeq
          /\ \E n \in Number : eventSeq' = [eventSeq EXCEPT ![s] = Append(@, n)]
          /\ UNCHANGED <<hash, data>>
       \/ \E c \in Content : data' = [data EXCEPT ![s] = c] /\ UNCHANGED <<hash, eventSeq>>
    /\ announced' = [announced EXCEPT ![s] = None]
    /\ writes' = writes + 1
    /\ differed' = [p \in Comparer |->
                       differed[p] \/ (pair[p] # <<>> /\ hash'[A(p)] # hash'[B(p)])]
    /\ UNCHANGED locals

-----------------------------------------------------------------------------
(* Compare and GlobalDiff *)

\* GlobalDiff is called on some pairs, or Compare on one.
Call(p) ==
    /\ pc[p] = "idle"
    /\ \E P \in SUBSET Pairs \ {{}} : todo' = [todo EXCEPT ![p] = P]
    /\ Goto(p, "next")
    /\ UNCHANGED <<fields, announced, writes, held, pair, read, differed>>

\* Compare is called on the next pair, in whatever order the map is iterated.
NextPair(p) ==
    /\ pc[p] = "next"
    /\ \E ab \in todo[p] :
          /\ pair' = [pair EXCEPT ![p] = ab]
          /\ todo' = [todo EXCEPT ![p] = @ \ {ab}]
          /\ differed' = [differed EXCEPT ![p] = hash[ab[1]] # hash[ab[2]]]
    /\ Goto(p, "nonemptyA")
    /\ UNCHANGED <<fields, announced, writes, held, read>>

\* No pair is left: no divergence.
NoneLeft(p) ==
    /\ pc[p] = "next" /\ todo[p] = {}
    /\ Goto(p, "idle")
    /\ UNCHANGED <<fields, announced, writes, held, pair, todo, read, differed>>

\* a.Hash() != "" && b.Hash() != "" && a.Hash() != b.Hash(), from left to right,
\* each call under a read lock of its own; then the hashes for the report.
HashStep(p) ==
    /\ \/ /\ pc[p] = "nonemptyA" /\ MayRLock(A(p)) /\ UNCHANGED read
          /\ Goto(p, IF hash[A(p)] = NoHash THEN "lockA" ELSE "nonemptyB")
       \/ /\ pc[p] = "nonemptyB" /\ MayRLock(B(p)) /\ UNCHANGED read
          /\ Goto(p, IF hash[B(p)] = NoHash THEN "lockA" ELSE "readA")
       \/ /\ pc[p] = "readA" /\ MayRLock(A(p)) /\ Goto(p, "readB")
          /\ read' = [read EXCEPT ![p] = hash[A(p)]]
       \/ /\ pc[p] = "readB" /\ MayRLock(B(p)) /\ read' = [read EXCEPT ![p] = NoHash]
          /\ Goto(p, IF hash[B(p)] = read[p] THEN "lockA" ELSE "showA")
       \/ pc[p] = "showA" /\ MayRLock(A(p)) /\ Goto(p, "showB") /\ UNCHANGED read
    /\ UNCHANGED <<fields, announced, writes, held, pair, todo, differed>>

\* The four RLocks, in their order.
LockSteps == {<<"lockA", 1, "lockB">>, <<"lockB", 2, "compareSeq">>,
              <<"relockA", 1, "relockB">>, <<"relockB", 2, "compareData">>}

\* The next of them; none is given back before the return.
RLock(p) ==
    /\ \E step \in LockSteps :
          /\ pc[p] = step[1]
          /\ MayRLock(pair[p][step[2]])
          /\ held' = [held EXCEPT ![p] = Append(@, pair[p][step[2]])]
          /\ Goto(p, step[3])
    /\ UNCHANGED <<fields, announced, writes, pair, todo, read, differed>>

\* Slip: the RUnlocks are not deferred and a return in between misses them.
ReturnHolding(p, found) ==
    /\ held' = [held EXCEPT ![p] = IF found THEN @ ELSE <<>>]
    /\ todo' = [todo EXCEPT ![p] = IF found THEN {} ELSE @]
    /\ pair' = [pair EXCEPT ![p] = <<>>]
    /\ differed' = [differed EXCEPT ![p] = FALSE]
    /\ Goto(p, IF found THEN "idle" ELSE "next")
    /\ UNCHANGED <<fields, announced, writes, read>>

\* Compare returns, which runs the deferred RUnlocks: to GlobalDiff's loop if it
\* found no difference, and else out of it.
Return(p, found) ==
    /\ held' = [held EXCEPT ![p] = <<>>]
    /\ todo' = [todo EXCEPT ![p] = IF found THEN {} ELSE @]
    /\ pair' = [pair EXCEPT ![p] = <<>>]
    /\ differed' = [differed EXCEPT ![p] = FALSE]
    /\ Goto(p, IF found THEN "idle" ELSE "next")
    /\ UNCHANGED <<fields, announced, writes, read>>

\* The hash mismatch is reported.
HashesDiffer(p) == pc[p] = "showB" /\ MayRLock(B(p)) /\ Return(p, TRUE)

\* Slip: the locks are given back at the end of the first block.
SeqsEqualUnlocking(p) ==
    /\ pc[p] = "compareSeq" /\ eventSeq[A(p)] = eventSeq[B(p)]
    /\ Goto(p, "relockA")
    /\ held' = [held EXCEPT ![p] = <<>>]
    /\ UNCHANGED <<fields, announced, writes, pair, todo, read, differed>>

\* The first block: lengths, then the numbers one by one.
SeqsEqual(p) ==
    /\ pc[p] = "compareSeq" /\ eventSeq[A(p)] = eventSeq[B(p)]
    /\ Goto(p, "relockA")
    /\ UNCHANGED <<fields, announced, writes, held, pair, todo, read, differed>>

SeqsDiffer(p) ==
    /\ pc[p] = "compareSeq" /\ eventSeq[A(p)] # eventSeq[B(p)]
    /\ Return(p, TRUE)

\* The second: sizes, keys and values, so the maps print alike or not.
CompareData(p) == pc[p] = "compareData" /\ Return(p, data[A(p)] # data[B(p)])

Waiting(p) == HashStep(p) \/ HashesDiffer(p) \/ RLock(p)
Running(p) == NextPair(p) \/ NoneLeft(p) \/ SeqsEqual(p) \/ SeqsDiffer(p) \/ CompareData(p)

Next ==
    \/ \E w \in Writer, s \in State : Announce(w, s) \/ Write(w, s)
    \/ \E p \in Comparer : Call(p) \/ Waiting(p) \/ Running(p)

\* The scheduler runs a goroutine that can run.  RWMutex lets the readers in that
\* waited for a writer when it leaves, before the next; nobody has to call.
Fairness ==
    /\ \A p \in Comparer : SF_vars(Waiting(p)) /\ WF_vars(Running(p))
    /\ \A w \in Writer, s \in State : WF_vars(Write(w, s))

Spec == Init /\ [][Next]_vars /\ Fairness

-----------------------------------------------------------------------------
(* Properties *)

Place == {"idle", "next", "nonemptyA", "nonemptyB", "readA", "readB", "showA", "showB",
          "lockA", "lockB", "compareSeq", "relockA", "relockB", "compareData"}

\* The locks a call holds at each place of Compare.
LocksAt(p) ==
    CASE pc[p] = "lockB"                   -> <<A(p)>>
      [] pc[p] \in {"compareSeq", "relockA"} -> <<A(p), B(p)>>
      [] pc[p] = "relockB"                 -> <<A(p), B(p), A(p)>>
      [] pc[p] = "compareData"             -> <<A(p), B(p), A(p), B(p)>>
      [] OTHER                             -> <<>>

\* Type invariant: as well, every call holds the locks its place implies, and
\* none once it has returned.
TypeOK ==
    /\ hash \in [State -> Hash] /\ data \in [State -> Content]
    /\ eventSeq \in [State -> Seq(Number)]
    /\ announced \in [State -> Writer \cup {None}]
    /\ held = [p \in Comparer |-> LocksAt(p)]
    /\ pc \in [Comparer -> Place]
    /\ pair \in [Comparer -> Pairs \cup {<<>>}]
    /\ \A p \in Comparer : pc[p] \in {"idle", "next"} <=> pair[p] = <<>>
    /\ todo \in [Comparer -> SUBSET Pairs]
    /\ read \in [Comparer -> Hash]
    /\ differed \in [Comparer -> BOOLEAN]

\* What Compare says was so.  "Returns empty string if identical" (engine.go:60):
\* when it returns "" the sequences, compared a round of locks earlier, and the
\* data are equal at that moment; when it reports a hash mismatch of two states
\* their hashes did differ at a moment of the call, although they are read one
\* at a time with writers in between, and may be equal again, or empty, when
\* printed.
ReportsWereSo ==
    [][\A p \in Comparer :
          /\ pc[p] = "compareData" /\ pc'[p] = "next" =>
                eventSeq[A(p)] = eventSeq[B(p)] /\ data[A(p)] = data[B(p)]
          /\ pc[p] = "showB" /\ pc'[p] = "idle" => differed[p]]_vars

\* p waits for a read lock that an announced writer keeps from it.
KeptOut(p, s) ==
    /\ \E step \in LockSteps : pc[p] = step[1] /\ s = pair[p][step[2]]
    /\ announced[s] # None

\* Some calls wait for writers that wait for a read lock one of these calls holds.
Knot ==
    \E Q \in SUBSET Comparer \ {{}} :
        \A p \in Q : \E s \in State : KeptOut(p, s) /\ \E q \in Q : Holds(q, s)

\* Every call of Compare and GlobalDiff ends, unless calls of Compare and writers
\* that queued between their RLocks have tied each other up.  A read lock is
\* taken while another is held: of the same state a second time, so that one
\* call and one writer are enough, or of two states in two orders.
ComparesEnd == \A p \in Comparer : pc[p] # "idle" ~> (pc[p] = "idle" \/ Knot)
=============================================================================
