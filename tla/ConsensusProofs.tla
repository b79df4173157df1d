-------------------------- MODULE ConsensusProofs --------------------------
(***************************************************************************)
(* Safety of the replicas for any number of nodes, any terms, traces and   *)
(* events, and a network that loses, delays, reorders and repeats.         *)
(*                                                                         *)
(* The inductive invariant has three parts beside the types:               *)
(*   VotesBind    a VOTE binds its sender: its term has reached the vote's *)
(*                term, and while it is in that term VotedFor is the vote  *)
(*   CopiesLag    the driver's copies never run ahead of the nodes         *)
(*   StoresSound  every replica's store keeps StoreInv                     *)
(***************************************************************************)
EXTENDS Consensus, EventLogProofs, FiniteSetTheorems

VotesBind ==
    \A m \in msgs : m.type = "VOTE" =>
        /\ m.term <= term[m.from]
        /\ m.term = term[m.from] => votedFor[m.from] = m.to

CopiesLag == \A n \in Node : view[n] <= term[n]

StoresSound == \A n \in Node : StoreInv(store[n])

Inv == TypeOK /\ VotesBind /\ OneVotePerTerm /\ CopiesLag /\ CommitsHadQuorum /\ StoresSound

-----------------------------------------------------------------------------
\* What a message of each type carries.
LEMMA MessageFields ==
    ASSUME NEW m \in Message
    PROVE  /\ m.term \in Nat /\ m.from \in Node
           /\ m.type = "VOTE" => m.to \in Node
           /\ m.type \in {"APPEND", "ACK"} =>
                m.trace \in Trace /\ m.seq \in Nat /\ m.hash \in Hash
BY DEF Message, VoteRequestMsg, VoteMsg, HeartbeatMsg, AppendMsg, AckMsg

\* HandleMessage builds a well-formed event from every APPEND.
LEMMA EventOfType ==
    ASSUME NEW m \in Message, m.type = "APPEND"
    PROVE  EventOf(m) \in Event
BY MessageFields, EventLogAssumption DEF EventOf, Event

\* The driver offers well-formed events.
LEMMA OfferedType == Offered \subseteq Event
BY ConsensusAssumption DEF Offered, Event

\* A set of nodes has a number of members, and more members if it is larger.
LEMMA NodeCounts ==
    ASSUME NEW S \in SUBSET Node, NEW T \in SUBSET S
    PROVE  /\ IsFiniteSet(S)
           /\ Cardinality(S) \in Nat /\ Cardinality(T) \in Nat
           /\ Cardinality(T) <= Cardinality(S)
           /\ Cardinality(Node) = N
<1>1. IsFiniteSet(Node) /\ Cardinality(Node) = N
    BY FS_Interval, ConsensusAssumption DEF Node
<1>2. IsFiniteSet(S)
    BY <1>1, FS_Subset
<1>3. IsFiniteSet(T) /\ Cardinality(T) <= Cardinality(S)
    BY <1>2, FS_Subset
<1> QED
    BY <1>1, <1>2, <1>3, FS_CardinalityType

\* GEB_THRESHOLD is a majority: two such sets of nodes share a member.
LEMMA QuorumsMeet ==
    ASSUME NEW S \in SUBSET Node, NEW T \in SUBSET Node,
           Cardinality(S) >= GEB_THRESHOLD, Cardinality(T) >= GEB_THRESHOLD
    PROVE  S \cap T # {}
<1>1. /\ IsFiniteSet(Node) /\ Cardinality(Node) = N
      /\ Cardinality(S) \in Nat /\ Cardinality(T) \in Nat
    BY NodeCounts
<1>2. N \in Nat /\ GEB_THRESHOLD \in Nat /\ GEB_THRESHOLD + GEB_THRESHOLD > N
    BY ConsensusAssumption DEF GEB_THRESHOLD
<1>3. Cardinality(S) + Cardinality(T) > Cardinality(Node)
    BY <1>1, <1>2
<1> QED
    BY <1>1, <1>3, FS_MajoritiesIntersect

\* A quorum counted over lower terms is a quorum over higher ones.
LEMMA QuorumGrows ==
    ASSUME NEW f \in [Node -> Nat], NEW g \in [Node -> Nat],
           \A n \in Node : f[n] <= g[n], QuorumReached(f)
    PROVE  QuorumReached(g)
<1> DEFINE S == {n \in Node : g[n] > 0}
           T == {n \in Node : f[n] > 0}
<1>1. T \subseteq S
    OBVIOUS
<1>2. Cardinality(T) <= Cardinality(S) /\ Cardinality(S) \in Nat /\ Cardinality(T) \in Nat
    BY <1>1, NodeCounts
<1>3. GEB_THRESHOLD \in Nat
    BY ConsensusAssumption DEF GEB_THRESHOLD
<1> QED
    BY <1>2, <1>3 DEF QuorumReached

-----------------------------------------------------------------------------
\* The initial state satisfies the invariant.
LEMMA InitInv == Init => Inv
<1> SUFFICES ASSUME Init PROVE Inv
    OBVIOUS
<1>1. TypeOK
    BY NewStoreInv DEF Init, TypeOK, NodeState, StoreInv
<1>2. VotesBind /\ OneVotePerTerm /\ CopiesLag /\ CommitsHadQuorum
    BY DEF Init, VotesBind, OneVotePerTerm, CopiesLag, CommitsHadQuorum
<1>3. StoresSound
    BY NewStoreInv DEF Init, StoresSound
<1> QED
    BY <1>1, <1>2, <1>3 DEF Inv

\* What every step that records no vote has to do about VotesBind and
\* OneVotePerTerm: leave VotedFor alone, lower no term.
LEMMA NoNewVote ==
    ASSUME Inv, votedFor' = votedFor, term' \in [Node -> Nat],
           \A n \in Node : term'[n] >= term[n],
           \A m \in msgs' \ msgs : m.type # "VOTE"
    PROVE  VotesBind' /\ OneVotePerTerm'
<1>1. \A m \in msgs' : m.type = "VOTE" => m \in msgs /\ m \in Message
    BY DEF Inv, TypeOK
<1>2. \A m \in msgs' : m.type = "VOTE" => m.term \in Nat /\ m.from \in Node
    BY <1>1, MessageFields
<1>3. VotesBind'
    BY <1>1, <1>2 DEF VotesBind, Inv, TypeOK
<1>4. OneVotePerTerm'
    BY <1>1 DEF OneVotePerTerm, Inv
<1> QED
    BY <1>3, <1>4

\* What every step that commits nothing and lowers no term keeps.
LEMMA NothingCommitted ==
    ASSUME Inv, committed' = committed, term' \in [Node -> Nat],
           \A n \in Node : term'[n] >= term[n]
    PROVE  CommitsHadQuorum'
<1>1. term \in [Node -> Nat] /\ \A n \in Node : term[n] <= term'[n]
    BY DEF Inv, TypeOK
<1>2. QuorumReached(term) => QuorumReached(term')
    BY <1>1, QuorumGrows
<1> QED
    BY <1>2 DEF CommitsHadQuorum, Inv

\* One step of any handler or of the driver keeps the invariant and lowers no
\* node's term.
LEMMA StepInv ==
    ASSUME Inv, [Next]_vars
    PROVE  Inv' /\ \A n \in Node : term'[n] >= term[n]
<1> USE DEF Inv
<1> DEFINE TermsGrow == \A n \in Node : term'[n] >= term[n]
<1>0. /\ term \in [Node -> Nat] /\ view \in [Node -> Nat]
      /\ msgs \subseteq Message /\ votedFor \in [Node -> Node \cup {NoNode}]
    BY DEF TypeOK
<1>1. ASSUME NEW n \in Node, CopyNode(n)
      PROVE  Inv' /\ TermsGrow
    <2>1. TypeOK'
        BY <1>1 DEF CopyNode, TypeOK
    <2>2. TermsGrow
        BY <1>0, <1>1 DEF CopyNode
    <2>3. VotesBind' /\ OneVotePerTerm'
        BY <1>0, <1>1, <2>2, NoNewVote DEF CopyNode
    <2>4. CopiesLag'
        BY <1>0, <1>1 DEF CopyNode, CopiesLag
    <2>5. CommitsHadQuorum' /\ StoresSound'
        BY <1>1 DEF CopyNode, CommitsHadQuorum, QuorumReached, StoresSound
    <2> QED
        BY <2>1, <2>2, <2>3, <2>4, <2>5
<1>2. ASSUME NEW n \in Node, SendHeartbeat(n)
      PROVE  Inv' /\ TermsGrow
    <2>1. [type |-> "HEARTBEAT", term |-> term[n], from |-> n] \in Message
        BY <1>0 DEF Message, HeartbeatMsg
    <2>2. TypeOK'
        BY <1>2, <2>1 DEF SendHeartbeat, TypeOK
    <2>3. TermsGrow
        BY <1>0, <1>2 DEF SendHeartbeat
    <2>4. VotesBind' /\ OneVotePerTerm'
        BY <1>0, <1>2, <2>3, NoNewVote DEF SendHeartbeat
    <2>5. CopiesLag' /\ CommitsHadQuorum' /\ StoresSound'
        BY <1>2 DEF SendHeartbeat, CopiesLag, CommitsHadQuorum, QuorumReached, StoresSound
    <2> QED
        BY <2>2, <2>3, <2>4, <2>5
<1>3. ASSUME NEW n \in Node, NEW i \in 1..Len(store[n].log), SendAppend(n, i)
      PROVE  Inv' /\ TermsGrow
    <2>1. store[n].log \in Seq(Event)
        BY DEF TypeOK, Store
    <2>2. store[n].log[i] \in Event
        BY <2>1
    <2>3. [type |-> "APPEND", term |-> term[n], from |-> n,
           trace |-> store[n].log[i].trace, seq |-> store[n].log[i].seq,
           hash |-> store[n].log[i].hash] \in Message
        BY <1>0, <2>2 DEF Message, AppendMsg, Event
    <2>4. TypeOK'
        BY <1>3, <2>3 DEF SendAppend, TypeOK
    <2>5. TermsGrow
        BY <1>0, <1>3 DEF SendAppend
    <2>6. VotesBind' /\ OneVotePerTerm'
        BY <1>0, <1>3, <2>5, NoNewVote DEF SendAppend
    <2>7. CopiesLag' /\ CommitsHadQuorum' /\ StoresSound'
        BY <1>3 DEF SendAppend, CopiesLag, CommitsHadQuorum, QuorumReached, StoresSound
    <2> QED
        BY <2>4, <2>5, <2>6, <2>7
<1>4. ASSUME NEW n \in Node, GEBAdvanceTerm(n)
      PROVE  Inv' /\ TermsGrow
    <2>1. [type |-> "VOTE_REQUEST", term |-> term[n] + 1, from |-> n] \in Message
        BY <1>0 DEF Message, VoteRequestMsg
    <2>2. TypeOK'
        BY <1>4, <2>1 DEF GEBAdvanceTerm, TypeOK, NodeState
    <2>3. TermsGrow
        BY <1>0, <1>4 DEF GEBAdvanceTerm
    <2>4. VotesBind' /\ OneVotePerTerm'
        BY <1>4, <2>2, <2>3, NoNewVote DEF GEBAdvanceTerm, TypeOK
    <2>5. CommitsHadQuorum'
        BY <1>4, <2>2, <2>3, NothingCommitted DEF GEBAdvanceTerm, TypeOK
    <2>6. CopiesLag' /\ StoresSound'
        BY <1>0, <1>4 DEF GEBAdvanceTerm, CopiesLag, StoresSound
    <2> QED
        BY <2>2, <2>3, <2>4, <2>5, <2>6
<1>5. ASSUME NEW n \in Node, NEW e \in Offered, CommitEntry(n, e)
      PROVE  Inv' /\ TermsGrow
    <2>1. e \in Event /\ store[n] \in Store
        BY OfferedType DEF TypeOK
    <2>2. Appended(store[n], e) \in Store
        BY <2>1, AppendedFields
    <2>3. TypeOK'
        BY <1>5, <2>1, <2>2 DEF CommitEntry, TypeOK
    <2>4. TermsGrow
        BY <1>0, <1>5 DEF CommitEntry
    <2>5. VotesBind' /\ OneVotePerTerm'
        BY <1>0, <1>5, <2>4, NoNewVote DEF CommitEntry
    <2>6. QuorumReached(term')
        <3>1. \A k \in Node : view[k] <= term[k]
            BY DEF CopiesLag
        <3>2. QuorumReached(term)
            BY <1>0, <1>5, <3>1, QuorumGrows DEF CommitEntry
        <3> QED
            BY <1>5, <3>2 DEF CommitEntry
    <2>7. CopiesLag' /\ CommitsHadQuorum'
        BY <1>5, <2>6 DEF CommitEntry, CopiesLag, CommitsHadQuorum
    <2>8. StoresSound'
        <3>1. StoreInv(Appended(store[n], e))
            BY <1>5, <2>1, AppendedInv DEF CommitEntry, StoresSound
        <3>2. \A k \in Node : store'[k] = IF k = n THEN Appended(store[n], e) ELSE store[k]
            BY <1>5 DEF CommitEntry, TypeOK
        <3>3. \A k \in Node : StoreInv(store'[k])
            BY <3>1, <3>2 DEF StoresSound
        <3> QED
            BY <3>3 DEF StoresSound, StoreInv, TipsMatch, ChainUnbroken, SeqUnique,
                        SeqBounded, SeqDense, IsLast
    <2> QED
        BY <2>3, <2>4, <2>5, <2>7, <2>8
<1>6. ASSUME NEW n \in Node, NEW m \in msgs, HandleAppend(n, m)
      PROVE  Inv' /\ TermsGrow
    <2>1. m \in Message /\ m.term \in Nat /\ m.type = "APPEND"
        BY <1>0, <1>6, MessageFields DEF HandleAppend
    <2>2. EventOf(m) \in Event
        BY <2>1, EventOfType
    <2>3. StoreInv(AfterAppend(store[n], EventOf(m)))
        BY <2>2, AppendKeepsStoreInv DEF StoresSound
    <2>4. AppendReply(n, m) \subseteq AckMsg
        BY <2>1, MessageFields DEF AppendReply, AckOf, AckMsg
    <2>5. TypeOK'
        BY <1>6, <2>1, <2>3, <2>4 DEF HandleAppend, TypeOK, NodeState, StoreInv, Message
    <2>6. TermsGrow
        BY <1>0, <1>6, <2>1 DEF HandleAppend
    <2>7. \A k \in AppendReply(n, m) : k.type # "VOTE"
        BY <2>4 DEF AckMsg
    <2>8. VotesBind' /\ OneVotePerTerm'
        BY <1>6, <2>5, <2>6, <2>7, NoNewVote DEF HandleAppend, TypeOK
    <2>9. CommitsHadQuorum'
        BY <1>6, <2>5, <2>6, NothingCommitted DEF HandleAppend, TypeOK
    <2>10. CopiesLag'
        BY <1>0, <1>6, <2>1 DEF HandleAppend, CopiesLag
    <2>11. StoresSound'
        <3>1. \A k \in Node : store'[k] =
                IF k = n THEN AfterAppend(store[n], EventOf(m)) ELSE store[k]
            BY <1>6 DEF HandleAppend, TypeOK
        <3>2. \A k \in Node : StoreInv(store'[k])
            BY <2>3, <3>1 DEF StoresSound
        <3> QED
            BY <3>2 DEF StoresSound, StoreInv, TipsMatch, ChainUnbroken, SeqUnique,
                        SeqBounded, SeqDense, IsLast
    <2> QED
        BY <2>5, <2>6, <2>8, <2>9, <2>10, <2>11
<1>7. ASSUME NEW n \in Node, NEW m \in msgs, HandleVoteRequest(n, m)
      PROVE  Inv' /\ TermsGrow
    <2> DEFINE vote == [type |-> "VOTE", term |-> m.term, from |-> n, to |-> m.from]
    <2>1. m.term \in Nat /\ m.from \in Node
        BY <1>0, MessageFields
    <2>2. vote \in VoteMsg
        BY <2>1 DEF VoteMsg
    <2>3. /\ msgs' = msgs \cup {vote}
          /\ \A k \in Node : term'[k] = IF k = n THEN m.term ELSE term[k]
          /\ \A k \in Node : votedFor'[k] = IF k = n THEN m.from ELSE votedFor[k]
        BY <1>0, <1>7 DEF HandleVoteRequest
    <2>4. TypeOK'
        BY <1>7, <2>1, <2>2, <2>3 DEF HandleVoteRequest, TypeOK, NodeState, Message
    <2>5. TermsGrow
        BY <1>0, <1>7, <2>1, <2>3 DEF HandleVoteRequest, MayVote
    \* No earlier VOTE of n is for the term it votes in now.
    <2>6. \A k \in msgs : k.type = "VOTE" /\ k.from = n => k.term < m.term
        <3> SUFFICES ASSUME NEW k \in msgs, k.type = "VOTE", k.from = n
                     PROVE  k.term < m.term
            OBVIOUS
        <3>1. k.term \in Nat /\ k.to \in Node
            BY <1>0, MessageFields
        <3>2. /\ k.term <= term[n]
              /\ k.term = term[n] => votedFor[n] = k.to
            BY DEF VotesBind
        <3>3. k.to # NoNode
            BY <3>1 DEF Node, NoNode
        <3> QED
            BY <1>0, <1>7, <2>1, <3>1, <3>2, <3>3 DEF HandleVoteRequest, MayVote
    <2>7. \A k \in msgs : k.type = "VOTE" => k.term \in Nat /\ k.from \in Node
        BY <1>0, MessageFields
    <2>8. VotesBind'
        <3> SUFFICES ASSUME NEW k \in msgs', k.type = "VOTE"
                     PROVE  /\ k.term <= term'[k.from]
                            /\ k.term = term'[k.from] => votedFor'[k.from] = k.to
            BY DEF VotesBind
        <3>1. CASE k = vote
            BY <2>1, <2>3, <3>1
        <3>2. CASE k \in msgs /\ k.from = n
            BY <2>1, <2>3, <2>6, <2>7, <3>2
        <3>3. CASE k \in msgs /\ k.from # n
            BY <2>3, <2>7, <3>3 DEF VotesBind
        <3> QED
            BY <2>3, <3>1, <3>2, <3>3
    <2>9. OneVotePerTerm'
        <3> SUFFICES ASSUME NEW v \in msgs', NEW w \in msgs',
                            v.type = "VOTE", w.type = "VOTE",
                            v.from = w.from, v.term = w.term
                     PROVE  v.to = w.to
            BY DEF OneVotePerTerm
        <3>1. CASE v \in msgs /\ w \in msgs
            BY <3>1 DEF OneVotePerTerm
        <3>2. CASE v = vote /\ w \in msgs
            BY <2>1, <2>6, <2>7, <3>2
        <3>3. CASE w = vote /\ v \in msgs
            BY <2>1, <2>6, <2>7, <3>3
        <3> QED
            BY <2>3, <3>1, <3>2, <3>3
    <2>10. CommitsHadQuorum'
        BY <1>7, <2>4, <2>5, NothingCommitted DEF HandleVoteRequest, TypeOK
    <2>11. CopiesLag' /\ StoresSound'
        <3>1. \A k \in Node : view'[k] <= term'[k]
            BY <1>0, <1>7, <2>1, <2>3, <2>5 DEF HandleVoteRequest, CopiesLag
        <3> QED
            BY <1>7, <3>1 DEF HandleVoteRequest, CopiesLag, StoresSound
    <2> QED
        BY <2>4, <2>5, <2>8, <2>9, <2>10, <2>11
<1>8. ASSUME NEW n \in Node, NEW m \in msgs, HandleHeartbeat(n, m)
      PROVE  Inv' /\ TermsGrow
    <2>1. m.term \in Nat
        BY <1>0, MessageFields
    <2>2. TypeOK'
        BY <1>8, <2>1 DEF HandleHeartbeat, TypeOK, NodeState
    <2>3. TermsGrow
        BY <1>0, <1>8, <2>1 DEF HandleHeartbeat
    <2>4. VotesBind' /\ OneVotePerTerm'
        BY <1>8, <2>2, <2>3, NoNewVote DEF HandleHeartbeat, TypeOK
    <2>5. CommitsHadQuorum'
        BY <1>8, <2>2, <2>3, NothingCommitted DEF HandleHeartbeat, TypeOK
    <2>6. CopiesLag' /\ StoresSound'
        BY <1>0, <1>8, <2>1 DEF HandleHeartbeat, CopiesLag, StoresSound
    <2> QED
        BY <2>2, <2>3, <2>4, <2>5, <2>6
<1>9. CASE UNCHANGED vars
    <2>1. TypeOK'
        BY <1>9 DEF vars, TypeOK
    <2>2. TermsGrow
        BY <1>0, <1>9 DEF vars
    <2>3. VotesBind' /\ OneVotePerTerm'
        BY <1>9 DEF vars, VotesBind, OneVotePerTerm
    <2>4. CopiesLag' /\ CommitsHadQuorum' /\ StoresSound'
        BY <1>9 DEF vars, CopiesLag, CommitsHadQuorum, QuorumReached, StoresSound
    <2> QED
        BY <2>1, <2>2, <2>3, <2>4
<1> QED
    BY <1>1, <1>2, <1>3, <1>4, <1>5, <1>6, <1>7, <1>8, <1>9 DEF Next

\* The inductive invariant holds in every reachable state.
LEMMA InvAlways == Spec => []Inv
<1>1. Inv /\ [Next]_vars => Inv'
    BY StepInv
<1> QED
    BY InitInv, <1>1, PTL DEF Spec

-----------------------------------------------------------------------------
\* The type invariant TypeOK of the replicas.
THEOREM TypeCorrect == Spec => []TypeOK
<1>1. Inv => TypeOK
    BY DEF Inv
<1> QED
    BY <1>1, InvAlways, PTL

\* "Term only increases": no message, however old, takes a node back.
THEOREM TermMonotonic == Spec => TermOnlyIncreases
<1>1. Inv /\ [Next]_vars => [\A n \in Node : term'[n] >= term[n]]_vars
    BY StepInv
<1> QED
    BY <1>1, InvAlways, PTL DEF Spec, TermOnlyIncreases

\* A node votes for at most one candidate per term.
THEOREM VotesUnique == Spec => []OneVotePerTerm
<1>1. Inv => OneVotePerTerm
    BY DEF Inv
<1> QED
    BY <1>1, InvAlways, PTL

\* At most one candidate wins a term: two quorums of GEB_THRESHOLD voters share
\* a node, and that node votes once.
THEOREM OneWinnerPerTerm == Spec => []ElectionSafety
<1>1. Inv => ElectionSafety
    <2> SUFFICES ASSUME Inv, NEW a \in Node, NEW b \in Node, NEW t,
                        Won(a, t), Won(b, t)
                 PROVE  a = b
        BY DEF ElectionSafety
    <2>1. Voters(a, t) \cap Voters(b, t) # {}
        BY QuorumsMeet DEF Won, Voters
    <2>2. PICK v \in Node :
            /\ [type |-> "VOTE", term |-> t, from |-> v, to |-> a] \in msgs
            /\ [type |-> "VOTE", term |-> t, from |-> v, to |-> b] \in msgs
        BY <2>1 DEF Voters
    <2> QED
        BY <2>2 DEF Inv, OneVotePerTerm
<1> QED
    BY <1>1, InvAlways, PTL

\* A commit counted over stale copies has a quorum of the nodes behind it.
THEOREM StaleQuorumIsQuorum == Spec => []CommitsHadQuorum
<1>1. Inv => CommitsHadQuorum
    BY DEF Inv
<1> QED
    BY <1>1, InvAlways, PTL

\* Every replica's store keeps its chains whatever leaders append to it.
THEOREM ReplicasAlwaysSound == Spec => []ReplicasSound
<1>1. Inv => ReplicasSound
    BY DEF Inv, StoresSound, StoreInv, ReplicasSound
<1> QED
    BY <1>1, InvAlways, PTL

-----------------------------------------------------------------------------
(* What the logs of the replicas hold, for any order, loss and repetition of *)
(* messages: nothing is invented, what was acknowledged is kept, and appends *)
(* extend no chain.  LogInv adds to Inv that every APPEND carries a          *)
(* committed entry (SentCommitted), and says of an ACK only that its entry   *)
(* is held (AcksHeld): that no other entry has its number follows from the   *)
(* soundness of the store.                                                   *)


\* Two events, or an event and a message, show the same entry.
SameEntry(x, y) == x.trace = y.trace /\ x.seq = y.seq /\ x.hash = y.hash

\* The entry of event or message x was committed somewhere.
WasCommitted(x) == \E c \in committed : SameEntry(c[2], x)

SentCommitted == \A m \in msgs : m.type = "APPEND" => WasCommitted(m)

LogCommitted == \A n \in Node : \A i \in 1..Len(store[n].log) : WasCommitted(store[n].log[i])

AcksHeld ==
    \A m \in msgs : m.type = "ACK" =>
        \E i \in 1..Len(store[m.from].log) : SameEntry(store[m.from].log[i], m)

\* The event before the i-th of the log L has its hash already.
Repeats(L, i) ==
    \E j \in 1..(i-1) : /\ L[j].trace = L[i].trace
                        /\ L[j].seq = L[i].seq - 1
                        /\ L[j].hash = L[i].hash

LogInv == SentCommitted /\ LogCommitted /\ AcksHeld /\ OnlyCommitsExtend

-----------------------------------------------------------------------------
\* LogInv says what the runs check.
LEMMA LogInvSuffices ==
    ASSUME Inv, LogInv
    PROVE  NothingInvented /\ AcksAreKept /\ OnlyCommitsExtend
<1>1. NothingInvented
    BY DEF LogInv, LogCommitted, WasCommitted, SameEntry, NothingInvented
<1>2. AcksAreKept
    <2> SUFFICES ASSUME NEW m \in msgs, m.type = "ACK"
                 PROVE  LET mine == {i \in 1..Len(store[m.from].log) :
                                        /\ store[m.from].log[i].trace = m.trace
                                        /\ store[m.from].log[i].seq = m.seq}
                        IN  mine # {} /\ \A i \in mine : store[m.from].log[i].hash = m.hash
        BY DEF AcksAreKept
    <2>1. m.from \in Node
        BY MessageFields DEF Inv, TypeOK
    <2>2. SeqUnique(store[m.from])
        BY <2>1 DEF Inv, StoresSound, StoreInv
    <2>3. PICK i \in 1..Len(store[m.from].log) : SameEntry(store[m.from].log[i], m)
        BY DEF LogInv, AcksHeld
    <2> QED
        BY <2>2, <2>3 DEF SeqUnique, SameEntry
<1> QED
    BY <1>1, <1>2 DEF LogInv

\* A store whose tip of a trace is an event of the log: where the append of an
\* event that names its own hash as the one before is accepted, the event
\* before it in its trace has that hash.
LEMMA AcceptedRepeats ==
    ASSUME NEW es, StoreInv(es), NEW e \in Event, AppendOk(es, e),
           e.seq > 1, e.prev = e.hash
    PROVE  \E j \in 1..Len(es.log) : /\ es.log[j].trace = e.trace
                                     /\ es.log[j].seq = e.seq - 1
                                     /\ es.log[j].hash = e.hash
<1>1. /\ es.lastSeq \in [Trace -> Nat \cup {NoEntry}]
      /\ es.lastHash \in [Trace -> Hash \cup {NoEntry}]
      /\ es.log \in Seq(Event)
      /\ e.trace \in Trace /\ e.seq \in Nat
    BY DEF StoreInv, Store, Event
<1>2. es.lastSeq[e.trace] # NoEntry /\ e.seq = es.lastSeq[e.trace] + 1
    BY <1>1 DEF AppendOk, SeqOk
<1>3. PICK j \in 1..Len(es.log) :
        /\ es.log[j].trace = e.trace
        /\ es.lastSeq[e.trace] = es.log[j].seq
        /\ es.lastHash[e.trace] = es.log[j].hash
    BY <1>1, <1>2 DEF StoreInv, TipsMatch, IsLast
<1>4. es.log[j].seq \in Nat /\ es.log[j].hash \in Hash
    <2>1. es.log[j] \in Event
        BY <1>1
    <2> QED
        BY <2>1 DEF Event
<1>5. es.lastHash[e.trace] # NoEntry
    BY <1>3, <1>4, EventLogAssumption
<1>6. e.prev = es.log[j].hash
    BY <1>3, <1>5 DEF AppendOk, PrevOk
<1> QED
    BY <1>1, <1>2, <1>3, <1>4, <1>6

\* What a step that leaves all logs and commits alone has to do: send an APPEND
\* of committed entries only, and no ACK.
LEMMA LogsUnchanged ==
    ASSUME Inv, LogInv, store' = store, committed' = committed,
           \A m \in msgs' \ msgs :
              m.type # "ACK" /\ (m.type = "APPEND" => WasCommitted(m))
    PROVE  LogInv'
<1>1. \A x : WasCommitted(x) => WasCommitted(x)'
    BY DEF WasCommitted, SameEntry
<1> QED
    BY <1>1 DEF LogInv, SentCommitted, LogCommitted, AcksHeld, OnlyCommitsExtend,
                WasCommitted, SameEntry

\* Node n appends event e, which is committed now or repeats the hash before.
LEMMA LogGrows ==
    ASSUME Inv, LogInv, NEW n \in Node, NEW e \in Event, AppendOk(store[n], e),
           store' = [store EXCEPT ![n] = Appended(@, e)],
           committed \subseteq committed',
           \E c \in committed' : SameEntry(c[2], e),
           \/ e.seq <= 1
           \/ <<n, e>> \in committed'
           \/ e.prev = e.hash,
           \A m \in msgs' \ msgs : m.type = "ACK" /\ m.from = n /\ SameEntry(e, m)
    PROVE  LogInv'
<1> DEFINE L == Len(store[n].log)
<1>1. /\ store \in [Node -> Store] /\ store[n] \in Store /\ StoreInv(store[n])
      /\ L \in Nat
    BY DEF Inv, TypeOK, StoresSound, StoreInv, Store
<1>2. /\ \A k \in Node : k # n => store'[k] = store[k]
      /\ Len(store'[n].log) = L + 1
      /\ store'[n].log[L + 1] = e
      /\ \A i \in 1..L : store'[n].log[i] = store[n].log[i]
    BY <1>1, AppendedFields
<1>3. SentCommitted'
    BY DEF LogInv, SentCommitted, WasCommitted, SameEntry
<1>4. LogCommitted'
    <2> SUFFICES ASSUME NEW k \in Node, NEW i \in 1..Len(store'[k].log)
                 PROVE  \E c \in committed' : SameEntry(c[2], store'[k].log[i])
        BY DEF LogCommitted, WasCommitted, SameEntry
    <2>1. CASE k = n /\ i = L + 1
        BY <1>2, <2>1
    <2>2. CASE k # n \/ i # L + 1
        <3>1. i \in 1..Len(store[k].log) /\ store'[k].log[i] = store[k].log[i]
            BY <1>1, <1>2, <2>2
        <3> QED
            BY <3>1 DEF LogInv, LogCommitted, WasCommitted
    <2> QED
        BY <2>1, <2>2
<1>5. AcksHeld'
    <2> SUFFICES ASSUME NEW m \in msgs', m.type = "ACK"
                 PROVE  \E i \in 1..Len(store'[m.from].log) : SameEntry(store'[m.from].log[i], m)
        BY DEF AcksHeld, SameEntry
    <2>1. CASE m \in msgs
        <3>1. m.from \in Node
            BY <2>1, MessageFields DEF Inv, TypeOK
        <3>2. PICK i \in 1..Len(store[m.from].log) : SameEntry(store[m.from].log[i], m)
            BY <2>1 DEF LogInv, AcksHeld
        <3>3. i \in 1..Len(store'[m.from].log) /\ store'[m.from].log[i] = store[m.from].log[i]
            BY <1>1, <1>2, <3>1, <3>2
        <3> QED
            BY <3>2, <3>3
    <2>2. CASE m \notin msgs
        <3>1. L + 1 \in 1..Len(store'[n].log)
            BY <1>1, <1>2
        <3> QED
            BY <1>2, <2>2, <3>1
    <2> QED
        BY <2>1, <2>2
<1>6. OnlyCommitsExtend'
    <2> SUFFICES ASSUME NEW k \in Node, NEW i \in 1..Len(store'[k].log),
                        store'[k].log[i].seq > 1, <<k, store'[k].log[i]>> \notin committed'
                 PROVE  Repeats(store'[k].log, i)
        BY DEF OnlyCommitsExtend, Repeats
    <2>1. CASE k = n /\ i = L + 1
        <3>1. e.seq > 1 /\ e.prev = e.hash
            BY <1>2, <2>1 DEF Event
        <3>2. PICK j \in 1..L : /\ store[n].log[j].trace = e.trace
                                /\ store[n].log[j].seq = e.seq - 1
                                /\ store[n].log[j].hash = e.hash
            BY <1>1, <3>1, AcceptedRepeats
        <3>3. j \in 1..(i - 1) /\ store'[k].log[j] = store[n].log[j] /\ store'[k].log[i] = e
            BY <1>1, <1>2, <2>1, <3>2
        <3> QED
            BY <3>2, <3>3 DEF Repeats
    <2>2. CASE k # n \/ i # L + 1
        <3>1. /\ i \in 1..Len(store[k].log)
              /\ \A j \in 1..i : store'[k].log[j] = store[k].log[j]
            <4>1. CASE k # n
                BY <1>2, <4>1
            <4>2. CASE k = n /\ i # L + 1
                BY <1>1, <1>2, <4>2
            <4> QED
                BY <2>2, <4>1, <4>2
        <3>2. Len(store[k].log) \in Nat
            BY <1>1 DEF Store
        <3>3. i \in 1..i /\ \A j \in 1..(i - 1) : j \in 1..i
            BY <3>1, <3>2
        <3>4. Repeats(store[k].log, i)
            BY <3>1, <3>3 DEF LogInv, OnlyCommitsExtend, Repeats
        <3> QED
            BY <3>1, <3>3, <3>4 DEF Repeats
    <2> QED
        BY <2>1, <2>2
<1> QED
    BY <1>3, <1>4, <1>5, <1>6 DEF LogInv

-----------------------------------------------------------------------------
LEMMA InitLogInv == Init => LogInv
<1>1. Init => \A n \in Node : Len(store[n].log) = 0
    BY DEF Init, NewEventStore
<1>2. Init => msgs = {} /\ \A n \in Node : 1..Len(store[n].log) = {}
    BY <1>1 DEF Init
<1> QED
    BY <1>2 DEF LogInv, SentCommitted, LogCommitted, AcksHeld, OnlyCommitsExtend

\* Every step keeps LogInv: most leave logs and commits alone, CommitEntry and
\* HandleAppend add an event.
LEMMA StepLogInv ==
    ASSUME Inv, LogInv, [Next]_vars
    PROVE  LogInv'
<1>0. /\ store \in [Node -> Store] /\ msgs \subseteq Message
      /\ \A n \in Node : StoreInv(store[n])
    BY DEF Inv, TypeOK, StoresSound
<1>1. ASSUME NEW n \in Node, CopyNode(n)
      PROVE  LogInv'
    BY <1>1, LogsUnchanged DEF CopyNode
<1>2. ASSUME NEW n \in Node, SendHeartbeat(n)
      PROVE  LogInv'
    BY <1>2, LogsUnchanged DEF SendHeartbeat
<1>3. ASSUME NEW n \in Node, NEW i \in 1..Len(store[n].log), SendAppend(n, i)
      PROVE  LogInv'
    <2>1. WasCommitted(store[n].log[i])
        BY DEF LogInv, LogCommitted
    <2>2. \A m \in msgs' \ msgs : m.type = "APPEND" /\ WasCommitted(m)
        BY <1>3, <2>1 DEF SendAppend, WasCommitted, SameEntry
    <2> QED
        BY <1>3, <2>2, LogsUnchanged DEF SendAppend
<1>4. ASSUME NEW n \in Node, GEBAdvanceTerm(n)
      PROVE  LogInv'
    BY <1>4, LogsUnchanged DEF GEBAdvanceTerm
<1>5. ASSUME NEW n \in Node, NEW e \in Offered, CommitEntry(n, e)
      PROVE  LogInv'
    <2>1. e \in Event
        BY OfferedType
    <2>2. <<n, e>> \in committed' /\ committed \subseteq committed'
        BY <1>5 DEF CommitEntry
    <2>3. \E c \in committed' : SameEntry(c[2], e)
        BY <2>2 DEF SameEntry
    <2> QED
        BY <1>5, <2>1, <2>2, <2>3, LogGrows DEF CommitEntry
<1>6. ASSUME NEW n \in Node, NEW m \in msgs, HandleAppend(n, m)
      PROVE  LogInv'
    <2>1. m \in Message /\ m.type = "APPEND" /\ EventOf(m) \in Event
        BY <1>0, <1>6, EventOfType DEF HandleAppend
    <2>2. CASE ~AppendOk(store[n], EventOf(m))
        <3>1. store' = store /\ msgs' = msgs /\ committed' = committed
            BY <1>0, <1>6, <2>2 DEF HandleAppend, AfterAppend, AppendReply
        <3> QED
            BY <3>1, LogsUnchanged
    <2>3. CASE AppendOk(store[n], EventOf(m))
        <3>1. /\ store' = [store EXCEPT ![n] = Appended(@, EventOf(m))]
              /\ msgs' = msgs \cup {AckOf(n, m)}
              /\ committed' = committed
            BY <1>6, <2>3 DEF HandleAppend, AfterAppend, AppendReply
        <3>2. SameEntry(EventOf(m), m) /\ SameEntry(EventOf(m), AckOf(n, m))
            BY DEF SameEntry, EventOf, AckOf
        <3>3. \E c \in committed' : SameEntry(c[2], EventOf(m))
            BY <2>1, <3>1, <3>2 DEF LogInv, SentCommitted, WasCommitted, SameEntry
        <3>4. \A k \in msgs' \ msgs : k.type = "ACK" /\ k.from = n /\ SameEntry(EventOf(m), k)
            BY <3>1, <3>2 DEF AckOf
        <3>5. EventOf(m).seq <= 1 \/ EventOf(m).prev = EventOf(m).hash
            BY <2>1, MessageFields DEF EventOf
        <3> QED
            BY <2>1, <2>3, <3>1, <3>3, <3>4, <3>5, LogGrows
    <2> QED
        BY <2>2, <2>3
<1>7. ASSUME NEW n \in Node, NEW m \in msgs, HandleVoteRequest(n, m)
      PROVE  LogInv'
    BY <1>7, LogsUnchanged DEF HandleVoteRequest
<1>8. ASSUME NEW n \in Node, NEW m \in msgs, HandleHeartbeat(n, m)
      PROVE  LogInv'
    BY <1>8, LogsUnchanged DEF HandleHeartbeat
<1>9. CASE UNCHANGED vars
    BY <1>9, LogsUnchanged DEF vars
<1> QED
    BY <1>1, <1>2, <1>3, <1>4, <1>5, <1>6, <1>7, <1>8, <1>9 DEF Next

\* The three properties hold in every reachable state.
LEMMA LogInvAlways == Spec => [](NothingInvented /\ AcksAreKept /\ OnlyCommitsExtend)
<1>1. Inv /\ LogInv /\ [Next]_vars => LogInv'
    BY StepLogInv
<1>2. Inv /\ LogInv => NothingInvented /\ AcksAreKept /\ OnlyCommitsExtend
    BY LogInvSuffices
<1> QED
    BY InitLogInv, InvAlways, <1>1, <1>2, PTL DEF Spec

\* Every entry of every log was committed at some node with the same trace,
\* number and hash.
THEOREM LogsAreCommitted == Spec => []NothingInvented
BY LogInvAlways, PTL

\* What a node acknowledged it holds for ever, and no other entry under that
\* number.
THEOREM AcksKeptForever == Spec => []AcksAreKept
BY LogInvAlways, PTL

\* Replicated appends never extend a chain by a new hash.
THEOREM AppendsExtendNothing == Spec => []OnlyCommitsExtend
BY LogInvAlways, PTL
=============================================================================
