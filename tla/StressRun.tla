----------------------------- MODULE StressRun -----------------------------
(***************************************************************************)
(* The long-term stress run (src/pkg/stress/stress.go): a simulated        *)
(* network whose nodes crash and whose partition comes and goes while a    *)
(* loop broadcasts events and runs three checks on the nodes.              *)
(*                                                                         *)
(* The hash of event number i is a function of i, so an event is its       *)
(* number.  The Byzantine flag of an event is set and never read: it is    *)
(* left out.  Whether tick i crashes a node or partitions the network      *)
(* depends on a hash of i: any choice is allowed.                          *)
(*                                                                         *)
(* RestartRandomNode is exported and nobody calls it.  The network of      *)
(* RunLongTerm is its own (stress.go:208), so that only code added to its  *)
(* loop could: here a restart may come between any two iterations, more    *)
(* than the code as it stands allows.  A node in fresh has been live from  *)
(* the start, a node in restarted came back: both are history.             *)
(***************************************************************************)
EXTENDS Integers, Sequences, FiniteSets

CONSTANTS
    N,          \* StressConfig.Nodes
    Events      \* StressConfig.Events

ASSUME StressAssumption == N \in Nat \ {0} /\ Events \in Nat

Node == 1..N

VARIABLES
    i,          \* iterations done, the number of the next event
    events,     \* Node.Events: the numbers a node has received
    crashed,    \* Node.Crashed
    partition,  \* ByzantineNetwork.PartitionActive
    verdict,    \* "" while RunLongTerm loops or returned nil, or its error
    fresh, restarted

vars == <<i, events, crashed, partition, verdict, fresh, restarted>>

Init ==
    /\ i = 0
    /\ events = [n \in Node |-> <<>>]
    /\ crashed = {}
    /\ partition = FALSE
    /\ verdict = ""
    /\ fresh = Node
    /\ restarted = {}

-----------------------------------------------------------------------------
(* The checks, of logs ev when the nodes in down are crashed *)

Live(down) == Node \ down

\* Leadership is "having STRICTLY MORE events than all other nodes".
Leaders(ev) == {n \in Node : \A m \in Node \ {n} : Len(ev[m]) < Len(ev[n])}

CheckNoSplitBrain(ev) == Cardinality(Leaders(ev)) <= 1

\* Nodes with no events are skipped; the others must all be like the first.
CheckReplayEquivalence(ev, down) ==
    \A m, n \in {x \in Live(down) : ev[x] # <<>>} : ev[m] = ev[n]

\* eventCounts[seq]: how often a live node holds event number seq.
EventCount(ev, down, seq) ==
    Cardinality({h \in Live(down) \X (1..Events) :
                    h[2] <= Len(ev[h[1]]) /\ ev[h[1]][h[2]] = seq})

\* Slip: the nodes are counted, crashed ones as well.
CheckConvergenceAll(ev, down) ==
    \A seq \in 0..(Events - 1) :
        EventCount(ev, down, seq) \in {0, Cardinality(Node)}

\* Every event number held at all is held as often as there are live nodes.
CheckConvergence(ev, down) ==
    \A seq \in 0..(Events - 1) :
        EventCount(ev, down, seq) \in {0, Cardinality(Live(down))}

\* What the iteration returns: the first check that fails.
Verdict(ev, down) ==
    IF ~CheckNoSplitBrain(ev) THEN "INV_NoSplitBrain"
    ELSE IF ~CheckReplayEquivalence(ev, down) THEN "INV_ReplayEquiv"
    ELSE IF ~CheckConvergence(ev, down) THEN "INV_Convergence"
    ELSE ""

-----------------------------------------------------------------------------
(* The network and the loop *)

\* Slip: the events are numbered from 1.
BroadcastFromOne(down) ==
    [n \in Node |-> IF n \in down THEN events[n] ELSE Append(events[n], i + 1)]

\* Broadcast of event i to the live nodes, when those in down are crashed.
Broadcast(down) ==
    [n \in Node |-> IF n \in down THEN events[n] ELSE Append(events[n], i)]

\* The first node of S in the slice, if there is one.
First(S) == {n \in S : \A m \in S : n <= m}

\* "Crash a random live node": the first one.
CrashFirst == crashed \cup First(Live(crashed))

\* One iteration of RunLongTerm.  A partition drops the broadcast.
Iterate(crash, cut) ==
    /\ i < Events /\ verdict = ""
    /\ i' = i + 1
    /\ crashed' = IF crash THEN CrashFirst ELSE crashed
    /\ partition' = cut
    /\ events' = IF cut THEN events ELSE Broadcast(crashed')
    /\ verdict' = Verdict(events', crashed')
    /\ fresh' = fresh \ crashed'
    /\ UNCHANGED restarted

\* Slip: the node comes back with the log of one that was never down.
RestartWithReplay ==
    /\ i < Events /\ verdict = ""
    /\ crashed' = crashed \ First(crashed)
    /\ restarted' = restarted \cup First(crashed)
    /\ \E f \in fresh, n \in First(crashed) : events' = [events EXCEPT ![n] = events[f]]
    /\ UNCHANGED <<i, partition, verdict, fresh>>

\* RestartRandomNode: the first crashed node comes back with the log it had.
RestartRandomNode ==
    /\ i < Events /\ verdict = ""
    /\ crashed # {}
    /\ crashed' = crashed \ First(crashed)
    /\ restarted' = restarted \cup First(crashed)
    /\ UNCHANGED <<i, events, partition, verdict, fresh>>

Next ==
    \/ \E crash, cut \in BOOLEAN : Iterate(crash, cut)
    \/ RestartRandomNode

Spec == Init /\ [][Next]_vars

-----------------------------------------------------------------------------
(* Properties *)

\* Type invariant.
TypeOK ==
    /\ i \in 0..Events
    /\ events \in [Node -> Seq(0..(i - 1))]
    /\ crashed \subseteq Node
    /\ partition \in BOOLEAN
    /\ verdict \in {"", "INV_NoSplitBrain", "INV_ReplayEquiv", "INV_Convergence"}
    /\ fresh \subseteq Node \ crashed
    /\ restarted \subseteq Node

\* Without a restart no check fails, whatever crashes and partitions the loop
\* injects and however long it runs (TestLongTerm_Stability samples one run).
RunSucceeds == restarted = {} => verdict = ""

\* The check that only counts event numbers is exact all the same: it passes
\* when, and only when, the live nodes hold the same log.
ConvergenceIsExact ==
    CheckConvergence(events, crashed)
        <=> \A m, n \in Live(crashed) : events[m] = events[n]

\* A restarted node "will catch up through the normal event replay mechanism"
\* (stress.go:101) as far as this: it does not.  Two nodes whose logs once differ
\* never hold the same log again, whichever of them is down, is restarted, is cut
\* off or receives more.
NeverCatchesUp ==
    [][\A m, n \in Node : events[m] # events[n] => events'[m] # events'[n]]_vars
=============================================================================
