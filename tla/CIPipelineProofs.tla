------------------------- MODULE CIPipelineProofs -------------------------
(***************************************************************************)
(* Proofs about ModelChecker, for any traces, hashes, modulus and lists of *)
(* transitions: the verdict of Check is exact (VerdictExact); and about    *)
(* the pipeline that uses it, for any number of specifications.            *)
(*                                                                         *)
(* The invariant says of a search under way that a transition out of a     *)
(* visited state has been followed, or lies ahead of the inner loop        *)
(* (Covered), and that nothing was visited or pushed that some closed set  *)
(* does not hold (Needed).  That of the pipeline says what the report can  *)
(* hold where the pipeline is (ReportInv), and how the results go with the *)
(* TLC runs, one of which may wait in the channel (ResultsInv).            *)
(***************************************************************************)
EXTENDS CIPipeline, SequenceTheorems, TLAPS

\* The key of a state on the stack.
Pushed(k) == \E i \in 1..Len(stack) : Key(stack[i]) = k

Seen(k) == k \in visited \/ Pushed(k)

\* Transition i has been followed from a visited state.
Followed(i) == Valid(transitions[i]) /\ Seen(Key(transitions[i].to))

\* Transition i is still to be looked at in this round of the outer loop.
Ahead(i) == at # 0 /\ i >= at /\ Key(transitions[i].from) = Key(current)

Covered ==
    /\ at \in 0..Len(transitions)
    /\ at # 0 => Key(current) \in visited
    /\ Seen(Key(initial))
    /\ \A i \in 1..Len(transitions) :
          Key(transitions[i].from) \in visited => Followed(i) \/ Ahead(i)

Needed ==
    \A K \in SUBSET Keys : Closed(K) =>
        /\ visited \subseteq K
        /\ verdict = "running" => \A i \in 1..Len(stack) : Key(stack[i]) \in K

SearchInv ==
    /\ verdict = "running" => Covered
    /\ verdict # "none" => Needed
    /\ verdict = "nil" =>
          /\ Closed(visited)
          /\ \A i \in 1..Len(transitions) :
                Key(transitions[i].from) \in visited => Valid(transitions[i])
    /\ verdict = "error" =>
          \E i \in 1..Len(transitions) :
             Key(transitions[i].from) \in visited /\ ~Valid(transitions[i])

Inv == CheckerTypeOK /\ SearchInv

-----------------------------------------------------------------------------
(* Stacks *)

\* Taking the top off a stack leaves the states below it, and a key on the
\* stack is that of the top or of one below.
LEMMA RestKeeps ==
    ASSUME NEW s \in Seq(State), s # <<>>
    PROVE  /\ Rest(s) \in Seq(State)
           /\ Len(Rest(s)) = Len(s) - 1
           /\ Top(s) \in State
           /\ \A i \in 1..(Len(s) - 1) : Rest(s)[i] = s[i]
<1>1. Len(s) \in Nat /\ Len(s) # 0
  BY EmptySeq
<1>2. Top(s) \in State
  BY <1>1 DEF Top
<1>3. Rest(s) = [i \in 1..(Len(s) - 1) |-> s[i]]
  BY <1>1 DEF Rest
<1>4. Rest(s) \in Seq(State) /\ Len(Rest(s)) = Len(s) - 1
  BY <1>1, <1>3
<1> QED BY <1>2, <1>3, <1>4

\* Pushing a state keeps the others and puts the new one on top.
LEMMA AppendKeeps ==
    ASSUME NEW s \in Seq(State), NEW x \in State
    PROVE  /\ Append(s, x) \in Seq(State)
           /\ Len(Append(s, x)) = Len(s) + 1
           /\ Append(s, x)[Len(s) + 1] = x
           /\ \A i \in 1..Len(s) : Append(s, x)[i] = s[i]
  OBVIOUS

\* The key of a state is one of Keys.
LEMMA KeyType == ASSUME NEW s \in State PROVE Key(s) \in Keys
  BY DEF Key, Keys, State

\* The ends of a transition in a list of them are states.
LEMMA EndTypes ==
    ASSUME NEW ts \in Seq(Transition), NEW i \in 1..Len(ts)
    PROVE  ts[i].from \in State /\ ts[i].to \in State
<1>1. ts[i] \in Transition
  OBVIOUS
<1> QED BY <1>1 DEF Transition
-----------------------------------------------------------------------------
(* Types *)

\* Every step keeps the types.
LEMMA NextKeepsTypes == CheckerTypeOK /\ [Next]_checkerVars => CheckerTypeOK'
<1> SUFFICES ASSUME CheckerTypeOK, [Next]_checkerVars PROVE CheckerTypeOK'
  OBVIOUS
<1> USE DEF CheckerTypeOK
<1>1. CASE \E ts \in Given : SetTransitions(ts)
  BY <1>1, ModelCheckerAssumption DEF SetTransitions
<1>2. CASE \E s \in State : Check(s)
  BY <1>2 DEF Check
<1>3. CASE Take
  <2>1. stack # <<>> /\ Top(stack) \in State /\ Rest(stack) \in Seq(State)
    BY <1>3, RestKeeps DEF Take
  <2>2. Key(Top(stack)) \in Keys
    BY <2>1, KeyType
  <2>3. After(0) \in Nat
    BY DEF After
  <2> QED BY <1>3, <2>1, <2>2, <2>3 DEF Take
<1>4. CASE Follow
  <2>1. at \in 1..Len(transitions) /\ After(at) \in Nat
    BY <1>4 DEF Follow, After
  <2>2. transitions[at].to \in State
    BY <2>1, EndTypes
  <2>3. Append(stack, transitions[at].to) \in Seq(State)
    BY <2>2, AppendKeeps
  <2> QED BY <1>4, <2>1, <2>3 DEF Follow
<1>5. CASE Return
  BY <1>5 DEF Return
<1>6. CASE UNCHANGED checkerVars
  BY <1>6 DEF checkerVars
<1> QED BY <1>1, <1>2, <1>3, <1>4, <1>5, <1>6 DEF Next, Search


-----------------------------------------------------------------------------
(* The search *)

\* A Check that is called has covered nothing and needs its initial state.
LEMMA CheckStarts ==
    ASSUME CheckerTypeOK, NEW s \in State, Check(s)
    PROVE  SearchInv'
<1>1. visited' = {} /\ stack' = <<s>> /\ initial' = s /\ at' = 0 /\ verdict' = "running"
      /\ Len(transitions') \in Nat
  BY DEF Check, CheckerTypeOK
<1>2. Len(stack') = 1 /\ stack'[1] = s
  BY <1>1
<1>3. Pushed(Key(initial))'
  BY <1>1, <1>2 DEF Pushed
<1>4. Covered'
  BY <1>1, <1>3 DEF Covered, Seen
<1>5. Needed'
  <2> SUFFICES ASSUME NEW K \in SUBSET Keys, Closed(K)'
               PROVE  visited' \subseteq K /\ \A i \in 1..Len(stack') : Key(stack'[i]) \in K
    BY DEF Needed, Key, Keys
  <2>1. Key(s) \in K
    BY <1>1 DEF Closed, Key
  <2> QED BY <1>1, <1>2, <2>1
<1> QED BY <1>1, <1>4, <1>5 DEF SearchInv

\* Taking a state off the stack: all that was seen stays seen, and if the state
\* is new, all its transitions lie ahead.
LEMMA TakeKeeps ==
    ASSUME Inv, Take
    PROVE  SearchInv'
<1> DEFINE k == Key(Top(stack))
<1>1. /\ stack \in Seq(State) /\ stack # <<>> /\ Len(transitions) \in Nat
      /\ verdict = "running" /\ verdict' = "running" /\ at = 0
      /\ UNCHANGED <<transitions, initial>>
      /\ Key(current') = k /\ stack' = Rest(stack)
      /\ visited' = visited \cup {k}
      /\ at' = IF k \in visited THEN 0 ELSE After(0)
  BY DEF Inv, Take, CheckerTypeOK, Key
<1>2. /\ Covered /\ Needed
  BY <1>1 DEF Inv, SearchInv
<1>3. /\ Len(stack) \in Nat \ {0} /\ Len(stack') = Len(stack) - 1
      /\ \A i \in 1..(Len(stack) - 1) : stack'[i] = stack[i]
  BY <1>1, RestKeeps, EmptySeq
<1>4. ASSUME NEW q, Seen(q) PROVE Seen(q)'
  <2>1. CASE q \in visited
    BY <1>1, <2>1 DEF Seen
  <2>2. CASE Pushed(q)
    <3>1. PICK i \in 1..Len(stack) : Key(stack[i]) = q
      BY <2>2 DEF Pushed
    <3>2. CASE i = Len(stack)
      BY <1>1, <3>1, <3>2 DEF Seen, Top
    <3>3. CASE i # Len(stack)
      <4>1. i \in 1..Len(stack') /\ stack'[i] = stack[i]
        BY <1>3, <3>3
      <4> QED BY <3>1, <4>1 DEF Seen, Pushed, Key
    <3> QED BY <3>2, <3>3
  <2> QED BY <1>4, <2>1, <2>2 DEF Seen
<1>5. ASSUME NEW i \in 1..Len(transitions), Key(transitions[i].from) \in visited'
      PROVE  Followed(i)' \/ Ahead(i)'
  <2>1. CASE Key(transitions[i].from) \in visited
    <3>1. Followed(i)
      BY <1>1, <1>2, <2>1 DEF Covered, Ahead
    <3>2. Seen(Key(transitions[i].to))'
      BY <3>1, <1>4, <1>1 DEF Followed
    <3> QED BY <1>1, <3>1, <3>2 DEF Followed, Valid
  <2>2. CASE Key(transitions[i].from) \notin visited
    <3>1. Key(transitions[i].from) = k /\ k \notin visited
      BY <1>1, <1>5, <2>2
    <3>2. at' = 1
      BY <1>1, <3>1 DEF After
    <3> QED BY <1>1, <3>1, <3>2 DEF Ahead, Key
  <2> QED BY <2>1, <2>2
<1>6. at' \in 0..Len(transitions)
  BY <1>1 DEF After
<1>7. Seen(Key(initial))'
  BY <1>1, <1>2, <1>4 DEF Covered, Key
<1>8. at' # 0 => Key(current') \in visited'
  BY <1>1
<1>9. Covered'
  BY <1>1, <1>5, <1>6, <1>7, <1>8 DEF Covered, Key
<1>10. Needed'
  <2> SUFFICES ASSUME NEW K \in SUBSET Keys, Closed(K)'
               PROVE  visited' \subseteq K /\ \A i \in 1..Len(stack') : Key(stack'[i]) \in K
    BY DEF Needed, Key, Keys
  <2>1. Closed(K)
    BY <1>1 DEF Closed, Key
  <2>2. visited \subseteq K /\ \A i \in 1..Len(stack) : Key(stack[i]) \in K
    BY <1>1, <1>2, <2>1 DEF Needed
  <2>3. k \in K
    BY <1>3, <2>2 DEF Top
  <2>4. \A i \in 1..Len(stack') : i \in 1..Len(stack) /\ stack'[i] = stack[i]
    BY <1>3
  <2> QED BY <1>1, <2>2, <2>3, <2>4
<1> QED BY <1>1, <1>9, <1>10 DEF SearchInv

\* Looking at a transition: it leaves another state, is followed, or is the
\* invalid one that the error speaks of.
LEMMA FollowKeeps ==
    ASSUME Inv, Follow
    PROVE  SearchInv'
<1> DEFINE t == transitions[at]
<1>1. /\ stack \in Seq(State) /\ transitions \in Seq(Transition)
      /\ at \in 1..Len(transitions) /\ Len(transitions) \in Nat
      /\ verdict = "running"
      /\ at' = After(at)
      /\ UNCHANGED <<transitions, visited, initial, current>>
  BY DEF Inv, Follow, CheckerTypeOK
<1>2. Covered /\ Needed /\ Key(current) \in visited
  BY <1>1 DEF Inv, SearchInv, Covered
<1>3. at' \in 0..Len(transitions)
  BY <1>1 DEF After
<1>4. ASSUME NEW i \in 1..Len(transitions), Ahead(i), i # at
      PROVE  Ahead(i)'
  <2>1. i > at /\ at' = at + 1
    BY <1>1, <1>4 DEF Ahead, After
  <2> QED BY <1>1, <1>4, <2>1 DEF Ahead, Key
<1>5. ASSUME NEW K \in SUBSET Keys, Closed(K)'
      PROVE  /\ visited \subseteq K /\ \A i \in 1..Len(stack) : Key(stack[i]) \in K
             /\ Key(t.from) = Key(current) => Key(t.to) \in K
  <2>1. Closed(K)
    BY <1>1, <1>5 DEF Closed, Key
  <2>2. visited \subseteq K /\ \A i \in 1..Len(stack) : Key(stack[i]) \in K
    BY <1>1, <1>2, <2>1 DEF Needed
  <2> QED BY <1>1, <1>2, <2>1, <2>2 DEF Closed
<1>6. CASE Key(t.from) # Key(current) /\ UNCHANGED <<stack, verdict>>
  <2>1. \A q : Seen(q)' <=> Seen(q)
    BY <1>1, <1>6 DEF Seen, Pushed, Key
  <2>2. \A i \in 1..Len(transitions) : Ahead(i) => i # at
    BY <1>6 DEF Ahead
  <2>3. \A i \in 1..Len(transitions) : Followed(i) => Followed(i)'
    BY <1>1, <2>1 DEF Followed, Valid, Key
  <2>4. Covered'
    BY <1>1, <1>2, <1>3, <1>4, <2>1, <2>2, <2>3 DEF Covered, Key
  <2>5. Needed'
    BY <1>1, <1>5, <1>6 DEF Needed, Key, Keys
  <2> QED BY <1>1, <1>6, <2>4, <2>5 DEF SearchInv
<1>7. CASE /\ Key(t.from) = Key(current) /\ Valid(t)
           /\ stack' = Append(stack, t.to) /\ verdict' = verdict
  <2>1. /\ stack' \in Seq(State) /\ Len(stack) \in Nat /\ Len(stack') = Len(stack) + 1
        /\ stack'[Len(stack) + 1] = t.to
        /\ \A i \in 1..Len(stack) : stack'[i] = stack[i]
    BY <1>1, <1>7, EndTypes, AppendKeeps
  <2>2. \A q : Seen(q) => Seen(q)'
    <3>1. ASSUME NEW q, NEW i \in 1..Len(stack), Key(stack[i]) = q
          PROVE  Pushed(q)'
      <4>1. i \in 1..Len(stack') /\ Key(stack'[i]) = q
        BY <2>1, <3>1
      <4> QED BY <4>1 DEF Pushed, Key
    <3> QED BY <1>1, <3>1 DEF Seen, Pushed
  <2>3. ASSUME NEW q, q = Key(t.to) PROVE Seen(q)'
    <3>1. Len(stack') \in 1..Len(stack') /\ Key(stack'[Len(stack')]) = q
      BY <2>1, <2>3
    <3> QED BY <1>1, <3>1 DEF Seen, Pushed, Key
  <2>4. ASSUME NEW i \in 1..Len(transitions), i = at PROVE Followed(i)'
    BY <1>1, <1>7, <2>3, <2>4 DEF Followed, Valid, Key
  <2>5. \A i \in 1..Len(transitions) : Followed(i) => Followed(i)'
    BY <1>1, <2>2 DEF Followed, Valid, Key
  <2>6. ASSUME NEW i \in 1..Len(transitions), Key(transitions[i].from) \in visited
        PROVE  Followed(i)' \/ Ahead(i)'
    BY <1>2, <1>4, <2>4, <2>5, <2>6 DEF Covered
  <2>7. Covered'
    BY <1>1, <1>2, <1>3, <2>2, <2>6 DEF Covered, Key
  <2>8. Needed'
    <3> SUFFICES ASSUME NEW K \in SUBSET Keys, Closed(K)'
                 PROVE  visited \subseteq K /\ \A i \in 1..Len(stack') : Key(stack'[i]) \in K
      BY <1>1 DEF Needed, Key, Keys
    <3>1. ASSUME NEW i \in 1..Len(stack') PROVE Key(stack'[i]) \in K
      <4>1. CASE i \in 1..Len(stack)
        BY <1>5, <2>1, <4>1
      <4>2. CASE i = Len(stack) + 1
        BY <1>5, <1>7, <2>1, <4>2
      <4> QED BY <2>1, <3>1, <4>1, <4>2
    <3> QED BY <1>5, <3>1
  <2> QED BY <1>1, <1>7, <2>7, <2>8 DEF SearchInv
<1>8. CASE /\ Key(t.from) = Key(current) /\ ~Valid(t)
           /\ verdict' = "error" /\ stack' = stack
  <2>1. Needed'
    BY <1>1, <1>5, <1>8 DEF Needed, Key, Keys
  <2>2. Key(transitions[at].from) \in visited /\ ~Valid(transitions[at])
    BY <1>2, <1>8
  <2>3. \E i \in 1..Len(transitions) :
           Key(transitions[i].from) \in visited /\ ~Valid(transitions[i])
    BY <1>1, <2>2
  <2> QED BY <1>1, <1>8, <2>1, <2>3 DEF SearchInv, Key, Valid
<1> QED BY <1>6, <1>7, <1>8 DEF Follow

\* Returning nil: with the stack empty, what was seen was visited, and all its
\* transitions were followed.
LEMMA ReturnKeeps ==
    ASSUME Inv, Return
    PROVE  SearchInv'
<1>1. /\ verdict = "running" /\ verdict' = "nil" /\ at = 0 /\ stack = <<>>
      /\ UNCHANGED <<transitions, visited, initial, stack>>
  BY DEF Return
<1>2. Covered /\ Needed
  BY <1>1 DEF Inv, SearchInv
<1>3. \A q : Seen(q) => q \in visited
  BY <1>1 DEF Seen, Pushed
<1>4. \A i \in 1..Len(transitions) : ~Ahead(i)
  BY <1>1 DEF Ahead
<1>5. Closed(visited)
  BY <1>2, <1>3, <1>4 DEF Closed, Covered, Followed
<1>6. \A i \in 1..Len(transitions) :
         Key(transitions[i].from) \in visited => Valid(transitions[i])
  BY <1>2, <1>4 DEF Covered, Followed
<1>7. Needed'
  BY <1>1, <1>2 DEF Needed, Closed, Key, Keys
<1>8. Closed(visited)' /\ \A i \in 1..Len(transitions') :
         Key(transitions'[i].from) \in visited' => Valid(transitions'[i])
  BY <1>1, <1>5, <1>6 DEF Closed, Key, Valid
<1> QED BY <1>1, <1>7, <1>8 DEF SearchInv, Key, Valid

-----------------------------------------------------------------------------
(* The theorems *)

\* The invariant holds in every state a checker reaches, used again and again.
THEOREM SearchAlwaysCovered == Spec => []Inv
<1>1. Init => Inv
  BY EmptySeq DEF Init, Inv, CheckerTypeOK, SearchInv
<1>2. Inv /\ [Next]_checkerVars => Inv'
  <2> SUFFICES ASSUME Inv, [Next]_checkerVars PROVE SearchInv'
    BY NextKeepsTypes DEF Inv
  <2>1. CASE \E ts \in Given : SetTransitions(ts)
    BY <2>1 DEF SetTransitions, SearchInv
  <2>2. CASE \E s \in State : Check(s)
    BY <2>2, CheckStarts DEF Inv
  <2>3. CASE Take
    BY <2>3, TakeKeeps
  <2>4. CASE Follow
    BY <2>4, FollowKeeps
  <2>5. CASE Return
    BY <2>5, ReturnKeeps
  <2>6. CASE UNCHANGED checkerVars
    BY <2>6 DEF checkerVars, Inv, SearchInv, Covered, Needed, Closed, Followed, Ahead,
                Seen, Pushed, Key, Keys, Valid
  <2> QED BY <2>1, <2>2, <2>3, <2>4, <2>5, <2>6 DEF Next, Search
<1> QED BY <1>1, <1>2, PTL DEF Spec

\* Types of the checker (model.go's ModelChecker and the locals of Check).
THEOREM CheckerTypes == Spec => []CheckerTypeOK
<1>1. Inv => CheckerTypeOK
  BY DEF Inv
<1> QED BY <1>1, SearchAlwaysCovered, PTL

\* Check returns nil exactly when every transition that leaves a reachable state
\* is valid, and has then visited exactly the reachable states.
THEOREM CheckIsExact == Spec => []VerdictExact
<1>1. Inv => VerdictExact
  BY DEF Inv, SearchInv, Needed, VerdictExact
<1> QED BY <1>1, SearchAlwaysCovered, PTL

-----------------------------------------------------------------------------
(* The pipeline *)

\* Where the pipeline is before the Go tests have ended, and after.
BeforeVerdict == {"specs", "select", "validate", "testing"}

\* What the report can say where the pipeline is.
ReportInv ==
    /\ pc \in {"generate", "error"} => satisfied = <<>> /\ exits = <<>>
    /\ pc \in {"generate", "error"} \cup BeforeVerdict => goTest = "none" /\ passed = TRUE
    /\ pc = "testing" => dir = "module"
    /\ pc \in {"write", "report"} => /\ goTest \in {"ok", "failed"}
                                     /\ passed = (goTest = "ok")
    /\ goTest = "ok" => dir = "module"
    /\ pc = "merged" => goTest = "ok"
    /\ pc = "panicked" => goTest \in {"none", "failed"}
    /\ pc = "panicked" /\ goTest = "none" => satisfied = <<>>

\* The results and the TLC runs, one of which may wait to be received.
ResultsInv ==
    /\ cmd = "running" => done = <<>>
    /\ done = <<>> => Len(exits) = Len(satisfied)
    /\ done # <<>> => /\ Len(exits) = Len(satisfied) + 1
                      /\ exits[Len(exits)] = done[1]
    /\ \A i \in 1..Len(satisfied) : exits[i] = TRUE => satisfied[i] = TRUE

GateInv == PipelineTypeOK /\ ReportInv /\ ResultsInv

\* Whatever the pipeline does, the checker in its Go tests is one that
\* ModelChecker specifies.
THEOREM PipelineUsesChecker == CISpec => Spec
<1>1. CIInit => Init
  BY DEF CIInit
<1>2. [CINext]_vars => [Next]_checkerVars
  <2> SUFFICES ASSUME [CINext]_vars PROVE Next \/ UNCHANGED checkerVars
    OBVIOUS
  <2>1. CASE StartTests
    BY <2>1 DEF StartTests, Next
  <2>2. CASE TestCheck
    BY <2>2 DEF TestCheck, Next
  <2>3. CASE TestSearch
    BY <2>3 DEF TestSearch, Next
  <2>4. CASE GenerateSpecs \/ SpecsDone \/ GoFails \/ TestsEnd \/ WriteReport \/ MustRunPipeline
    BY <2>4 DEF GenerateSpecs, SpecsDone, GoFails, TestsEnd, WriteReport, MustRunPipeline, Elsewhere
  <2>5. CASE RunModelChecker \/ Receive \/ CmdEnds
    BY <2>5 DEF RunModelChecker, Receive, CmdEnds
  <2>6. CASE UNCHANGED vars
    BY <2>6 DEF vars
  <2> QED BY <2>1, <2>2, <2>3, <2>4, <2>5, <2>6 DEF CINext, Proceed
<1> QED BY <1>1, <1>2, PTL DEF CISpec, Spec

\* So Check's verdict is exact in the Go tests that the pipeline runs.
THEOREM PipelineVerdictExact == CISpec => []VerdictExact
BY PipelineUsesChecker, CheckIsExact, PTL

\* Room for one error suffices: the channel is empty when TLC ends.
LEMMA CmdEndsKeeps ==
    ASSUME GateInv, CmdEnds, CheckerTypeOK'
    PROVE  GateInv'
<1>1. PICK ok \in BOOLEAN : done' = <<ok>> /\ exits' = Append(exits, ok)
  BY DEF CmdEnds
<1>2. /\ cmd = "running" /\ cmd' = "none"
      /\ UNCHANGED <<pc, dir, satisfied, passed, checks, goTest>>
  BY DEF CmdEnds
<1>3. /\ exits \in Seq(BOOLEAN) /\ satisfied \in Seq(BOOLEAN)
      /\ Len(exits) \in Nat /\ Len(satisfied) \in Nat /\ Len(exits) = Len(satisfied)
  BY <1>2, LenProperties DEF GateInv, PipelineTypeOK, ResultsInv
<1>4. /\ exits' \in Seq(BOOLEAN) /\ Len(exits') = Len(satisfied) + 1
      /\ exits'[Len(exits')] = ok /\ \A i \in 1..Len(satisfied) : exits'[i] = exits[i]
  BY <1>1, <1>3
<1>5. done' \in {<<TRUE>>, <<FALSE>>} /\ done' # <<>> /\ done'[1] = ok
  BY <1>1
<1>6. PipelineTypeOK'
  BY <1>2, <1>4, <1>5 DEF GateInv, PipelineTypeOK
<1>7. ReportInv'
  <2>1. pc = "select"
    BY <1>2 DEF GateInv, PipelineTypeOK
  <2> QED BY <1>2, <2>1 DEF GateInv, ReportInv, BeforeVerdict
<1>8. ResultsInv'
  BY <1>2, <1>4, <1>5 DEF GateInv, ResultsInv
<1> QED BY <1>6, <1>7, <1>8 DEF GateInv

\* One result is added for the run that ended, TRUE if the run succeeded.
LEMMA ReceiveKeeps ==
    ASSUME GateInv, Receive, CheckerTypeOK'
    PROVE  GateInv'
<1>1. PICK runErr \in {done[1], TRUE} : satisfied' = Append(satisfied, runErr)
  BY DEF Receive
<1>2. /\ pc = "select" /\ pc' = "specs" /\ done # <<>> /\ done' = <<>>
      /\ UNCHANGED <<dir, cmd, exits, passed, checks, goTest>>
  BY DEF Receive, Goto
<1>3. /\ exits \in Seq(BOOLEAN) /\ satisfied \in Seq(BOOLEAN)
      /\ Len(exits) \in Nat /\ Len(satisfied) \in Nat
      /\ Len(exits) = Len(satisfied) + 1 /\ exits[Len(exits)] = done[1]
      /\ done[1] \in BOOLEAN /\ cmd # "running"
  BY <1>2, LenProperties DEF GateInv, PipelineTypeOK, ResultsInv
<1>4. runErr \in BOOLEAN /\ (done[1] = TRUE => runErr = TRUE)
  BY <1>1, <1>3
<1>5. /\ satisfied' \in Seq(BOOLEAN) /\ Len(satisfied') = Len(satisfied) + 1
      /\ satisfied'[Len(satisfied)+1] = runErr
      /\ \A i \in 1..Len(satisfied) : satisfied'[i] = satisfied[i]
  BY <1>1, <1>3, <1>4
<1>6. PipelineTypeOK'
  BY <1>2, <1>3, <1>5 DEF GateInv, PipelineTypeOK
<1>7. ReportInv'
  BY <1>2 DEF GateInv, ReportInv, BeforeVerdict
<1>8. ResultsInv'
  <2>1. ASSUME NEW i \in 1..Len(satisfied'), exits[i] = TRUE
        PROVE  satisfied'[i] = TRUE
    <3>1. CASE i = Len(satisfied) + 1
      BY <1>3, <1>4, <1>5, <2>1, <3>1
    <3>2. CASE i # Len(satisfied) + 1
      <4>1. i \in 1..Len(satisfied)
        BY <1>3, <1>5, <3>2
      <4> QED BY <1>5, <2>1, <4>1 DEF GateInv, ResultsInv
    <3> QED BY <3>1, <3>2
  <2> QED BY <1>2, <1>3, <1>5, <2>1 DEF ResultsInv
<1> QED BY <1>6, <1>7, <1>8 DEF GateInv

\* The report passes where the Go tests agreed with Check, and nowhere else.
LEMMA GateStep ==
    ASSUME GateInv, [CINext]_vars, CheckerTypeOK'
    PROVE  GateInv'
<1> USE DEF GateInv
<1>1. CASE CmdEnds
  BY <1>1, CmdEndsKeeps
<1>2. CASE Receive
  BY <1>2, ReceiveKeeps
<1>3. ASSUME UNCHANGED <<cmd, done, satisfied, exits>>
      PROVE  ResultsInv'
  BY <1>3 DEF ResultsInv
<1>4. CASE GenerateSpecs
  BY <1>3, <1>4 DEF GenerateSpecs, Elsewhere, PipelineTypeOK, ReportInv, BeforeVerdict
<1>5. CASE SpecsDone
  BY <1>3, <1>5 DEF SpecsDone, Goto, Elsewhere, PipelineTypeOK, ReportInv, BeforeVerdict
<1>6. CASE RunModelChecker
  <2>1. done = <<>>
    BY <1>6 DEF RunModelChecker, Goto, PipelineTypeOK
  <2>2. ResultsInv'
    BY <1>6, <2>1 DEF RunModelChecker, ResultsInv
  <2> QED BY <1>6, <2>2 DEF RunModelChecker, Goto, PipelineTypeOK, ReportInv, BeforeVerdict
<1>7. CASE StartTests
  BY <1>3, <1>7 DEF StartTests, Goto, PipelineTypeOK, ReportInv, BeforeVerdict
<1>8. CASE TestCheck
  <2>1. checks' \in Nat
    BY <1>8 DEF TestCheck, PipelineTypeOK
  <2>2. UNCHANGED <<pc, dir, cmd, done, satisfied, exits, passed, goTest>>
    BY <1>8 DEF TestCheck
  <2> QED BY <1>3, <2>1, <2>2 DEF PipelineTypeOK, ReportInv, BeforeVerdict
<1>9. CASE TestSearch
  BY <1>3, <1>9 DEF TestSearch, PipelineTypeOK, ReportInv, BeforeVerdict
<1>10. CASE GoFails
  BY <1>3, <1>10 DEF GoFails, Goto, Validated, Elsewhere, PipelineTypeOK, ReportInv, BeforeVerdict
<1>11. CASE TestsEnd
  <2>1. PICK ok \in BOOLEAN : Validated(ok)
    BY <1>11 DEF TestsEnd
  <2> QED BY <1>3, <1>11, <2>1 DEF TestsEnd, Goto, Validated, Elsewhere, PipelineTypeOK,
                                   ReportInv, BeforeVerdict
<1>12. CASE WriteReport
  BY <1>3, <1>12 DEF WriteReport, Goto, Elsewhere, PipelineTypeOK, ReportInv, BeforeVerdict
<1>13. CASE MustRunPipeline
  BY <1>3, <1>13 DEF MustRunPipeline, Elsewhere, PipelineTypeOK, ReportInv, BeforeVerdict
<1>14. CASE UNCHANGED vars
  BY <1>3, <1>14 DEF vars, PipelineTypeOK, ReportInv, BeforeVerdict
<1> QED BY <1>1, <1>2, <1>4, <1>5, <1>6, <1>7, <1>8, <1>9, <1>10, <1>11, <1>12, <1>13, <1>14
        DEF CINext, Proceed

\* The invariant of the pipeline, for any number of specifications and whatever
\* TLC and the go command do.
THEOREM GateAlwaysSound == CISpec => []GateInv
<1>1. CIInit /\ CheckerTypeOK => GateInv
  BY EmptySeq DEF CIInit, GateInv, PipelineTypeOK, ReportInv, ResultsInv, BeforeVerdict
<1>2. GateInv /\ [CINext]_vars /\ CheckerTypeOK' => GateInv'
  BY GateStep
<1>3. CISpec => []CheckerTypeOK
  BY PipelineUsesChecker, CheckerTypes, PTL
<1> QED BY <1>1, <1>2, <1>3, PTL DEF CISpec

\* Types of the pipeline and of the channel that RunModelChecker waits on.
THEOREM PipelineTypes == CISpec => []PipelineTypeOK
<1>1. GateInv => PipelineTypeOK
  BY DEF GateInv
<1> QED BY <1>1, GateAlwaysSound, PTL

\* MustRunPipeline lets a merge through exactly when the Go tests, found and run,
\* agreed with Check; TLC has no say.
THEOREM GateHearsOnlyGo == CISpec => []GateHearsGoTestsOnly
<1>1. GateInv => GateHearsGoTestsOnly
  <2> SUFFICES ASSUME GateInv PROVE GateHearsGoTestsOnly
    OBVIOUS
  <2>1. pc # "select" => done = <<>>
    BY DEF GateInv, PipelineTypeOK
  <2>2. \A i \in 1..Len(satisfied) : exits[i] => satisfied[i]
    <3>1. ASSUME NEW i \in 1..Len(satisfied)
          PROVE  exits[i] \in BOOLEAN /\ satisfied[i] \in BOOLEAN
      <4>1. satisfied \in Seq(BOOLEAN) /\ exits \in Seq(BOOLEAN)
        BY DEF GateInv, PipelineTypeOK
      <4>2. Len(satisfied) \in Nat /\ Len(exits) \in Nat /\ Len(satisfied) <= Len(exits)
        BY <4>1, LenProperties DEF GateInv, ResultsInv
      <4>3. i \in 1..Len(exits)
        BY <4>2
      <4> QED BY <4>1, <4>3, ElementOfSeq
    <3>2. \A i \in 1..Len(satisfied) : exits[i] = TRUE => satisfied[i] = TRUE
      BY DEF GateInv, ResultsInv
    <3> QED BY <3>1, <3>2, Zenon
  <2> QED BY <2>1, <2>2 DEF GateInv, ReportInv, ResultsInv, GateHearsGoTestsOnly
<1> QED BY <1>1, GateAlwaysSound, PTL
=============================================================================
