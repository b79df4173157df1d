----------------------------- MODULE Consensus -----------------------------
(***************************************************************************)
(* The replicas of src/pkg/consensus/engine.go.  The package has no        *)
(* transport and no scheduler: a driver, which is not in the repository,   *)
(* calls GEBAdvanceTerm, carries messages into HandleMessage, and asks     *)
(* ElectLeader and CommitEntry about a slice of nodes.  The driver here is *)
(* a careful one:                                                          *)
(*                                                                         *)
(*   - it asks every node for its vote in the term a node advanced to;     *)
(*   - it sends HEARTBEAT and APPEND only for a node that won the quorum   *)
(*     of GEB_THRESHOLD votes in its current term;                         *)
(*   - it commits only on such a node or on the one ElectLeader names.     *)
(*                                                                         *)
(* msgs holds every message ever sent and none is taken out, so a message  *)
(* may be lost, delayed, overtaken, or delivered again, to anybody.        *)
(*                                                                         *)
(* The slice []ConsensusNode that ElectLeader and CommitEntry take holds   *)
(* copies of the nodes: a copied Term is the one at the time of the copy,  *)
(* while the copied Store pointer still reaches the live store.  view is   *)
(* that slice; its elements are copied one at a time, at any time.         *)
(***************************************************************************)
EXTENDS EventLog, FiniteSets

CONSTANTS
    N,          \* number of nodes
    Campaigner, \* the nodes whose term the driver advances
    MaxTerm,    \* bound: terms the driver advances to
    MaxSeq      \* bound: events the driver commits in one trace

ASSUME ConsensusAssumption ==
    /\ N \in Nat \ {0}
    /\ Campaigner \subseteq 1..N
    /\ MaxTerm \in Nat
    /\ MaxSeq \in Nat

\* A node's ID is its index in the slice; NoNode is the empty ID "".
Node   == 1..N
NoNode == 0

VARIABLES
    term,       \* ConsensusNode.Term
    state,      \* ConsensusNode.State
    votedFor,   \* ConsensusNode.VotedFor
    store,      \* ConsensusNode.Store
    view,       \* the terms in the driver's copies of the nodes
    msgs,       \* every message sent
    committed   \* <<node, event>> of every CommitEntry that returned true

vars == <<term, state, votedFor, store, view, msgs, committed>>

NodeState == {"follower", "candidate", "leader"}

VoteRequestMsg == [type : {"VOTE_REQUEST"}, term : Nat, from : Node]
VoteMsg        == [type : {"VOTE"}, term : Nat, from : Node, to : Node]
HeartbeatMsg   == [type : {"HEARTBEAT"}, term : Nat, from : Node]
AppendMsg      == [type : {"APPEND"}, term : Nat, from : Node,
                   trace : Trace, seq : Nat, hash : Hash]
\* The ACK of an APPEND, with the entry it answers: HandleMessage returns the
\* reply to the caller that passed the request in.
AckMsg         == [type : {"ACK"}, term : Nat, from : Node,
                   trace : Trace, seq : Nat, hash : Hash]

Message == VoteRequestMsg \cup VoteMsg \cup HeartbeatMsg \cup AppendMsg \cup AckMsg

\* NewConsensusNode
Init ==
    /\ term = [n \in Node |-> 0]
    /\ state = [n \in Node |-> "follower"]
    /\ votedFor = [n \in Node |-> NoNode]
    /\ store = [n \in Node |-> NewEventStore]
    /\ view = [n \in Node |-> 0]
    /\ msgs = {}
    /\ committed = {}

-----------------------------------------------------------------------------
(* Quorum and leader *)

\* Slip: half the nodes is taken for a majority.
GEB_THRESHOLD_Half == N \div 2

GEB_THRESHOLD == (N \div 2) + 1

\* The tick argument of QuorumReached is not used by the code.
QuorumReached(terms) == Cardinality({n \in Node : terms[n] > 0}) >= GEB_THRESHOLD

\* n comes before m for ElectLeader: a higher copied term, then a longer live
\* log, then the earlier place in the slice.
Outranks(n, m) ==
    LET logLen(k) == Len(store[k].log)
    IN  \/ view[n] > view[m]
        \/ view[n] = view[m] /\ logLen(n) > logLen(m)
        \/ view[n] = view[m] /\ logLen(n) = logLen(m) /\ n < m

\* A node with term 0 and an empty log never replaces the initial "".
ElectLeader ==
    LET top == CHOOSE n \in Node : \A m \in Node \ {n} : Outranks(n, m)
    IN  IF view[top] = 0 /\ Len(store[top].log) = 0 THEN NoNode ELSE top

\* The driver's count of the VOTE replies to a candidate.
Voters(n, t) == {v \in Node : [type |-> "VOTE", term |-> t, from |-> v, to |-> n] \in msgs}

Won(n, t) == Cardinality(Voters(n, t)) >= GEB_THRESHOLD

-----------------------------------------------------------------------------
(* Steps of the driver that call no handler *)

\* One element of the slice is copied from the live node.
CopyNode(n) ==
    /\ view' = [view EXCEPT ![n] = term[n]]
    /\ UNCHANGED <<term, state, votedFor, store, msgs, committed>>

\* The winner of its current term asserts itself.
SendHeartbeat(n) ==
    /\ Won(n, term[n])
    /\ msgs' = msgs \cup {[type |-> "HEARTBEAT", term |-> term[n], from |-> n]}
    /\ UNCHANGED <<term, state, votedFor, store, view, committed>>

\* The winner of its current term sends out an event of its log.
SendAppend(n, i) ==
    /\ Won(n, term[n])
    /\ LET e == store[n].log[i]
       IN  msgs' = msgs \cup {[type |-> "APPEND", term |-> term[n], from |-> n,
                               trace |-> e.trace, seq |-> e.seq, hash |-> e.hash]}
    /\ UNCHANGED <<term, state, votedFor, store, view, committed>>

-----------------------------------------------------------------------------
(* The package's operations *)

\* GEBAdvanceTerm; the driver then asks for votes in the new term.  VotedFor
\* keeps the vote of an earlier term.
GEBAdvanceTerm(n) ==
    /\ n \in Campaigner
    /\ term[n] < MaxTerm
    /\ term' = [term EXCEPT ![n] = @ + 1]
    /\ state' = [state EXCEPT ![n] = "candidate"]
    /\ msgs' = msgs \cup {[type |-> "VOTE_REQUEST", term |-> term[n] + 1, from |-> n]}
    /\ UNCHANGED <<votedFor, store, view, committed>>

\* Slips: the quorum is not asked for; the store's checks are bypassed.
CommitEntryNoQuorum(n, e) ==
    /\ n = ElectLeader \/ Won(n, term[n])
    /\ AppendOk(store[n], e)
    /\ store' = [store EXCEPT ![n] = Appended(@, e)]
    /\ committed' = committed \cup {<<n, e>>}
    /\ UNCHANGED <<term, state, votedFor, view, msgs>>
CommitEntryUnchecked(n, e) ==
    /\ n = ElectLeader \/ Won(n, term[n])
    /\ QuorumReached(view)
    /\ e.seq > Len(store[n].log)
    /\ store' = [store EXCEPT ![n] = Appended(@, e)]
    /\ committed' = committed \cup {<<n, e>>}
    /\ UNCHANGED <<term, state, votedFor, view, msgs>>

\* CommitEntry on the live node n, with the quorum counted over the copies.
CommitEntry(n, e) ==
    /\ n = ElectLeader \/ Won(n, term[n])
    /\ QuorumReached(view)
    /\ AppendOk(store[n], e)
    /\ store' = [store EXCEPT ![n] = Appended(@, e)]
    /\ committed' = committed \cup {<<n, e>>}
    /\ UNCHANGED <<term, state, votedFor, view, msgs>>

\* Slip: the hash of the message is not copied.
EventOfUnhashed(m) == [trace |-> m.trace, seq |-> m.seq, prev |-> NoHash, hash |-> NoHash]

\* Slip: no event has a predecessor.
EventOfUnlinked(m) == [trace |-> m.trace, seq |-> m.seq, prev |-> NoHash, hash |-> m.hash]

\* The event HandleMessage builds from an APPEND: the message has no PrevHash,
\* and after the first event of a trace the handler uses the event's own hash.
EventOf(m) == [trace |-> m.trace, seq |-> m.seq,
               prev |-> IF m.seq > 1 THEN m.hash ELSE NoHash, hash |-> m.hash]

AckOf(n, m) == [type |-> "ACK", term |-> m.term, from |-> n,
                trace |-> m.trace, seq |-> m.seq, hash |-> m.hash]

\* Slip: the reply carries no FromID.
AppendReplyUnsigned(n, m) ==
    IF AppendOk(store[n], EventOf(m)) THEN {AckOf(NoNode, m)} ELSE {}
\* Slip: a refused event is acknowledged too.
AppendReplyAlways(n, m) == {AckOf(n, m)}

\* The reply to an APPEND: an ACK, if the store takes the event.
AppendReply(n, m) ==
    IF AppendOk(store[n], EventOf(m)) THEN {AckOf(n, m)} ELSE {}

\* HandleMessage, case APPEND.  Term and State move even when the store then
\* refuses the event; only an accepted event is acknowledged.
HandleAppend(n, m) ==
    /\ m.type = "APPEND"
    /\ m.term >= term[n]
    /\ term' = [term EXCEPT ![n] = m.term]
    /\ state' = [state EXCEPT ![n] = "follower"]
    /\ store' = [store EXCEPT ![n] = AfterAppend(@, EventOf(m))]
    /\ msgs' = msgs \cup AppendReply(n, m)
    /\ UNCHANGED <<votedFor, view, committed>>

\* Slip: an earlier vote in the same term is forgotten.
MayVoteAgain(n, m) == m.term >= term[n]

MayVote(n, m) == \/ m.term > term[n]
                 \/ m.term = term[n] /\ votedFor[n] = NoNode

\* HandleMessage, case VOTE_REQUEST.
HandleVoteRequest(n, m) ==
    /\ m.type = "VOTE_REQUEST"
    /\ MayVote(n, m)
    /\ term' = [term EXCEPT ![n] = m.term]
    /\ votedFor' = [votedFor EXCEPT ![n] = m.from]
    /\ state' = [state EXCEPT ![n] = "follower"]
    /\ msgs' = msgs \cup {[type |-> "VOTE", term |-> m.term, from |-> n, to |-> m.from]}
    /\ UNCHANGED <<store, view, committed>>

\* HandleMessage, case HEARTBEAT.  Its ACK says nothing and is not recorded.
HandleHeartbeat(n, m) ==
    /\ m.type = "HEARTBEAT"
    /\ m.term >= term[n]
    /\ term' = [term EXCEPT ![n] = m.term]
    /\ state' = [state EXCEPT ![n] = "follower"]
    /\ UNCHANGED <<votedFor, store, view, msgs, committed>>

\* The events a driver offers to CommitEntry.
Offered == [trace : Trace, seq : 1..MaxSeq, prev : Hash, hash : Hash]

Next ==
    \E n \in Node :
        \/ CopyNode(n)
        \/ SendHeartbeat(n)
        \/ \E i \in 1..Len(store[n].log) : SendAppend(n, i)
        \/ GEBAdvanceTerm(n)
        \/ \E e \in Offered : CommitEntry(n, e)
        \/ \E m \in msgs : HandleAppend(n, m)
        \/ \E m \in msgs : HandleVoteRequest(n, m)
        \/ \E m \in msgs : HandleHeartbeat(n, m)

Spec == Init /\ [][Next]_vars

-----------------------------------------------------------------------------
(* Properties *)

\* Type invariant.
TypeOK ==
    /\ term \in [Node -> Nat]
    /\ state \in [Node -> NodeState]
    /\ votedFor \in [Node -> Node \cup {NoNode}]
    /\ store \in [Node -> Store]
    /\ view \in [Node -> Nat]
    /\ msgs \subseteq Message
    /\ committed \subseteq Node \X Event

\* "G1 constraint: term only increases" (engine.go:234), for every handler and
\* any old message it is handed.
TermOnlyIncreases == [][\A n \in Node : term'[n] >= term[n]]_vars

\* A node gives its vote in a term to one candidate, however often and in
\* whatever order vote requests, heartbeats and appends reach it.
OneVotePerTerm ==
    \A v, w \in {m \in msgs : m.type = "VOTE"} :
        v.from = w.from /\ v.term = w.term => v.to = w.to

\* No two candidates win GEB_THRESHOLD votes in the same term.
ElectionSafety ==
    \A a, b \in Node : \A t \in {m.term : m \in msgs} :
        Won(a, t) /\ Won(b, t) => a = b

\* The quorum CommitEntry counts over stale copies of the nodes is a quorum of
\* the nodes themselves, then and ever after.
CommitsHadQuorum == committed # {} => QuorumReached(term)

\* A replica's store stays one unbroken chain per trace with exact tips, with
\* commits of the driver and appends of several leaders going into it.
ReplicasSound ==
    \A n \in Node :
        TipsMatch(store[n]) /\ ChainUnbroken(store[n]) /\ SeqUnique(store[n])

\* A node that acknowledged an entry holds it, and no other under its number.
AcksAreKept ==
    \A m \in {k \in msgs : k.type = "ACK"} :
        LET mine == {i \in 1..Len(store[m.from].log) :
                        /\ store[m.from].log[i].trace = m.trace
                        /\ store[m.from].log[i].seq = m.seq}
        IN  mine # {} /\ \A i \in mine : store[m.from].log[i].hash = m.hash

\* Every event in a log was once committed, with the same trace, number and
\* hash: no message order makes a replica invent an entry.
NothingInvented ==
    \A n \in Node : \A i \in 1..Len(store[n].log) :
        LET e == store[n].log[i]
        IN  \E c \in committed :
                c[2].trace = e.trace /\ c[2].seq = e.seq /\ c[2].hash = e.hash

\* Replication cannot grow a chain by anything new.  "For first event in trace,
\* PrevHash is empty; subsequent events use seq prev" (engine.go:248), but the
\* handler has only the event's own hash to use.  So beyond its first event a
\* trace at a node grows by the commits of that node, or by appends that repeat
\* the hash of the event before.
OnlyCommitsExtend ==
    \A n \in Node : \A i \in 1..Len(store[n].log) :
        LET e == store[n].log[i]
        IN  e.seq > 1 /\ <<n, e>> \notin committed =>
                \E j \in 1..(i-1) : /\ store[n].log[j].trace = e.trace
                                    /\ store[n].log[j].seq = e.seq - 1
                                    /\ store[n].log[j].hash = e.hash

-----------------------------------------------------------------------------
(* A claim of the repository that the code does not keep *)

\* "Provides split-brain-safe consensus over EventStore" (engine.go:2): two
\* entries committed under one number of one trace are the same entry.
CommittedAgree ==
    \A c, d \in committed :
        c[2].trace = d[2].trace /\ c[2].seq = d[2].seq => c[2].hash = d[2].hash
=============================================================================
