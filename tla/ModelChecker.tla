---------------------------- MODULE ModelChecker ----------------------------
(***************************************************************************)
(* modelchecker.ModelChecker (src/pkg/modelchecker/model.go): a depth-     *)
(* first search with a stack over a list of labelled transitions.  A state *)
(* is known by its trace and number only: its hash is neither part of the  *)
(* key of the visited map nor compared with the From of a transition.      *)
(* Each round of Check's outer and of its inner loop is one step.  A       *)
(* checker may be used again, with the same transitions or others.         *)
(***************************************************************************)
EXTENDS Integers, Sequences

CONSTANTS
    TraceID,    \* trace identifiers
    Hash,       \* hashes of states
    Modulus,    \* 2^64: sequence numbers are uint64
    Given       \* the lists of transitions that callers set

State == [trace : TraceID, seq : 0..(Modulus - 1), hash : Hash]

Transition == [from : State, to : State]

ASSUME ModelCheckerAssumption ==
    /\ Modulus \in Nat \ {0}
    /\ Given \subseteq Seq(Transition)

VARIABLES
    transitions,    \* ModelChecker.transitions
    visited,        \* ModelChecker.visited
    verdict,        \* "none" before a Check, then "running", "nil" or "error"
    initial,        \* the argument of the last Check
    stack,          \* the stack of that Check
    current,        \* the state it is looking at
    at              \* the transition it looks at next; 0: it takes a new state

checkerVars == <<transitions, visited, verdict, initial, stack, current, at>>

\* stateKey, without its formatting; a number has no ':' in it.
Key(s) == <<s.trace, s.seq>>

Keys == TraceID \X (0..(Modulus - 1))

\* validateTransition: only the numbers are looked at, so a transition may lead
\* from one trace to another.
Valid(t) == t.to.seq = (t.from.seq + 1) % Modulus

Top(s) == s[Len(s)]
Rest(s) == SubSeq(s, 1, Len(s) - 1)

\* The place in the list after the i-th; behind the last the outer loop goes on.
After(i) == IF i < Len(transitions) THEN i + 1 ELSE 0

Init ==
    /\ transitions = <<>> /\ visited = {} /\ stack = <<>> /\ at = 0
    /\ initial \in State /\ current = initial
    /\ verdict = "none"

SetTransitions(ts) ==
    /\ verdict # "running"
    /\ transitions' = ts
    /\ verdict' = "none"
    /\ UNCHANGED <<visited, initial, stack, current, at>>

\* Slip: the visited map of the last call is kept.
CheckUsedMap(s) ==
    /\ verdict # "running"
    /\ initial' = s /\ current' = s /\ stack' = <<s>> /\ at' = 0
    /\ verdict' = "running"
    /\ UNCHANGED <<transitions, visited>>

\* Check is called.
Check(s) ==
    /\ verdict # "running"
    /\ visited' = {}
    /\ stack' = <<s>>
    /\ initial' = s /\ current' = s /\ at' = 0
    /\ verdict' = "running"
    /\ UNCHANGED transitions

\* Slip: a state is looked at although its key was seen.
TakeAgain ==
    /\ verdict = "running" /\ at = 0 /\ stack # <<>>
    /\ current' = Top(stack) /\ stack' = Rest(stack)
    /\ visited' = visited \cup {Key(Top(stack))} /\ at' = After(0)
    /\ UNCHANGED <<transitions, verdict, initial>>

\* The next state is taken off the stack, and marked unless its key was seen.
Take ==
    /\ verdict = "running" /\ at = 0 /\ stack # <<>>
    /\ current' = Top(stack)
    /\ stack' = Rest(stack)
    /\ visited' = visited \cup {Key(Top(stack))}
    /\ at' = IF Key(Top(stack)) \in visited THEN 0 ELSE After(0)
    /\ UNCHANGED <<transitions, verdict, initial>>

\* The next transition leaves another state, or is followed if it is valid, or
\* else Check returns its error.
Follow ==
    /\ verdict = "running" /\ at \in 1..Len(transitions)
    /\ LET t == transitions[at]
       IN  \/ /\ Key(t.from) # Key(current)
              /\ UNCHANGED <<stack, verdict>>
           \/ /\ Key(t.from) = Key(current) /\ Valid(t)
              /\ stack' = Append(stack, t.to)
              /\ UNCHANGED verdict
           \/ /\ Key(t.from) = Key(current) /\ ~Valid(t)
              /\ verdict' = "error"
              /\ UNCHANGED stack
    /\ at' = After(at)
    /\ UNCHANGED <<transitions, visited, initial, current>>

\* The outer loop ends with the stack empty.
Return ==
    /\ verdict = "running" /\ at = 0 /\ stack = <<>>
    /\ verdict' = "nil"
    /\ UNCHANGED <<transitions, visited, initial, stack, current, at>>

Search == Take \/ Follow \/ Return

Next ==
    \/ \E ts \in Given : SetTransitions(ts)
    \/ \E s \in State : Check(s)
    \/ Search

Spec == Init /\ [][Next]_checkerVars

-----------------------------------------------------------------------------
(* Properties *)

\* Type invariant.
CheckerTypeOK ==
    /\ transitions \in Seq(Transition)
    /\ visited \subseteq Keys
    /\ initial \in State
    /\ stack \in Seq(State)
    /\ current \in State
    /\ at \in Nat
    /\ verdict \in {"none", "running", "nil", "error"}

\* K holds the initial state and everything its transitions lead to.
Closed(K) ==
    /\ Key(initial) \in K
    /\ \A i \in 1..Len(transitions) :
          Key(transitions[i].from) \in K => Key(transitions[i].to) \in K

\* "Returns nil if all reachable states are valid.  Returns error on first
\* invariant violation" (model.go:57): on nil the visited states are the least
\* closed set, that is, exactly the reachable ones, and no transition out of
\* them is invalid; on error an invalid transition leaves a reachable state.
\* So it is for every order of the list, for cycles and diamonds, and for a
\* checker used before.
VerdictExact ==
    /\ verdict = "nil" =>
          /\ Closed(visited)
          /\ \A i \in 1..Len(transitions) :
                Key(transitions[i].from) \in visited => Valid(transitions[i])
    /\ verdict = "error" =>
          \E i \in 1..Len(transitions) :
             Key(transitions[i].from) \in visited /\ ~Valid(transitions[i])
    /\ verdict \in {"nil", "error"} =>
          \A K \in SUBSET Keys : Closed(K) => visited \subseteq K
=============================================================================
