--------------------------- MODULE ByzantineNetwork ---------------------------
(***************************************************************************)
(* byzantine.Network (src/pkg/byzantine/network.go): goroutines broadcast  *)
(* to the nodes and read them at the same time.                            *)
(*                                                                         *)
(* Whether a node receives is drawn from the seed, its ID and its index,   *)
(* so it is the same for every broadcast: the set receives.  The shuffle   *)
(* of the recipients reaches nobody and is left out.  CheckConvergence and *)
(* Stats take no lock before they copy a Node, and its mutex with it; they *)
(* then lock the copy.  Copying one node is one step.  A copy of a locked  *)
(* mutex is never unlocked, so what such a copy holds is never read, and   *)
(* the append and the unlock that follows it can be one step.              *)
(* done, the field quiet, since and caught are history.                    *)
(***************************************************************************)
EXTENDS Integers, Sequences, FiniteSets, FiniteSetsExt, SequencesExt

CONSTANTS
    Sender,     \* goroutines that broadcast
    Reader,     \* goroutines that check and count
    Event,      \* values that are broadcast
    N,          \* number of nodes; their IDs sort like their indices up to 10
    MaxSends    \* bound: calls of Broadcast

ASSUME NetworkAssumption == N \in 2..10 /\ MaxSends \in Nat

Nodes  == 1..N
Caller == Sender \cup Reader

VARIABLES
    receives,   \* the nodes whose sample is not below DropRate
    events,     \* Node.Events of each node
    locked,     \* Node.mu of each node
    call,       \* each caller's call under way
    done,       \* how many broadcasts of each event have returned
    panicked    \* the program has ended

networkVars == <<receives, events, locked, call, done, panicked>>

Idle == [op |-> "idle"]

NewNetwork ==
    /\ receives \in SUBSET Nodes
    /\ events = [n \in Nodes |-> <<>>]
    /\ locked = [n \in Nodes |-> FALSE]
    /\ call = [c \in Caller |-> Idle]
    /\ done = [e \in Event |-> 0]
    /\ panicked = FALSE

Calling(op) == {c \in Caller : call[c].op = op}

-----------------------------------------------------------------------------
(* Broadcast *)

\* A count's broadcasts, each by its event and its number, how many they are,
\* and the calls of Broadcast so far.
Numbered(count) == UNION {{e} \X (1..count[e]) : e \in Event}
Total(count) == Cardinality(Numbered(count))
Sends == Total(done) + Cardinality(Calling("broadcast"))

\* A broadcast begins; no check under way is undisturbed any more.
Broadcast(c, e) ==
    /\ call[c] = Idle /\ Sends < MaxSends
    /\ call' = [d \in Caller |->
                  IF d = c THEN [op |-> "broadcast", event |-> e, left |-> receives, in |-> FALSE]
                  ELSE IF call[d].op = "check" THEN [call[d] EXCEPT !.quiet = FALSE]
                  ELSE call[d]]
    /\ UNCHANGED <<receives, events, locked, done, panicked>>

\* Slip: the mutex is taken whoever holds it.
LockAnyway(c) ==
    /\ call[c].op = "broadcast" /\ ~call[c].in /\ call[c].left # {}
    /\ locked' = [locked EXCEPT ![Min(call[c].left)] = TRUE]
    /\ call' = [call EXCEPT ![c].in = TRUE]
    /\ UNCHANGED <<receives, events, done, panicked>>

\* The mutex of the next recipient is taken.
Lock(c) ==
    /\ call[c].op = "broadcast" /\ ~call[c].in /\ call[c].left # {}
    /\ LET n == Min(call[c].left)
       IN  /\ ~locked[n]
           /\ locked' = [locked EXCEPT ![n] = TRUE]
    /\ call' = [call EXCEPT ![c].in = TRUE]
    /\ UNCHANGED <<receives, events, done, panicked>>

\* Slip: the mutex is not released.
Leave(n) == UNCHANGED locked
Release(n) == locked' = [locked EXCEPT ![n] = FALSE]

\* The event is appended and the mutex released.
Deliver(c) ==
    /\ call[c].op = "broadcast" /\ call[c].in
    /\ LET n == Min(call[c].left)
       IN  /\ events' = [events EXCEPT ![n] = Append(@, call[c].event)]
           /\ Release(n)
           /\ call' = [call EXCEPT ![c].in = FALSE, ![c].left = @ \ {n}]
    /\ UNCHANGED <<receives, done, panicked>>

\* Broadcast returns, or panics when nobody received.
Delivered(c) ==
    /\ call[c].op = "broadcast" /\ call[c].left = {}
    /\ IF receives = {}
       THEN panicked' = TRUE /\ UNCHANGED <<call, done>>
       ELSE /\ call' = [call EXCEPT ![c] = Idle]
            /\ done' = [done EXCEPT ![call[c].event] = @ + 1]
            /\ UNCHANGED panicked
    /\ UNCHANGED <<receives, events, locked>>

-----------------------------------------------------------------------------
(* CheckConvergence *)

\* A delivery is in the middle of node n.
Delivering(n) ==
    \E c \in Calling("broadcast") : call[c].in /\ Min(call[c].left) = n

CheckConvergence(c) ==
    /\ call[c] = Idle
    /\ call' = [call EXCEPT ![c] =
                  [op |-> "check", copy |-> <<>>, at |-> 1, caught |-> FALSE,
                   quiet |-> Calling("broadcast") = {}]]
    /\ UNCHANGED <<receives, events, locked, done, panicked>>

\* The next node is copied with its mutex.
CopyNode(c) ==
    /\ call[c].op = "check" /\ Len(call[c].copy) < N
    /\ LET n == Len(call[c].copy) + 1
       IN  call' = [call EXCEPT
                      ![c].copy = Append(@, [events |-> events[n], locked |-> locked[n]]),
                      ![c].caught = @ \/ Delivering(n)]
    /\ UNCHANGED <<receives, events, locked, done, panicked>>

\* Slip: only the lengths are compared.
SameLength(ref, other) == Len(ref) = Len(other)

\* The copies of two nodes agree: one length, and then event by event.
SameEvents(ref, other) ==
    /\ Len(ref) = Len(other)
    /\ \A j \in 1..Len(ref) : ref[j] = other[j]

\* The next copy is locked, which its state must allow, and compared with the
\* first; the first mismatch or the last node gives the answer.
CompareNode(c) ==
    /\ call[c].op = "check" /\ Len(call[c].copy) = N
    /\ LET i    == call[c].at
           ref  == call[c].copy[1].events
           same == SameEvents(ref, call[c].copy[i].events)
       IN  /\ ~call[c].copy[i].locked
           /\ call' = [call EXCEPT ![c] =
                         IF same /\ i < N
                         THEN [@ EXCEPT !.at = i + 1]
                         ELSE [op |-> "checked", same |-> same, len |-> Len(ref),
                               quiet |-> call[c].quiet]]
    /\ UNCHANGED <<receives, events, locked, done, panicked>>

-----------------------------------------------------------------------------
(* Stats *)

Stats(c) ==
    /\ call[c] = Idle
    /\ call' = [call EXCEPT ![c] =
                  [op |-> "stats", stats |-> <<>>, since |-> done, caught |-> FALSE, stuck |-> FALSE]]
    /\ UNCHANGED <<receives, events, locked, done, panicked>>

\* The next node is copied and the copy locked: if it holds, for ever.
CountNode(c) ==
    /\ call[c].op = "stats" /\ ~call[c].stuck
    /\ LET n     == Len(call[c].stats) + 1
           stats == Append(call[c].stats, Len(events[n]))
       IN  call' = [call EXCEPT ![c] =
                      IF locked[n] THEN [@ EXCEPT !.stuck = TRUE, !.caught = Delivering(n)]
                      ELSE IF n < N THEN [@ EXCEPT !.stats = stats]
                      ELSE [op |-> "counted", stats |-> stats, since |-> call[c].since]]
    /\ UNCHANGED <<receives, events, locked, done, panicked>>

\* The caller has its answer and goes on.
Resume(c) ==
    /\ call[c].op \in {"checked", "counted"}
    /\ call' = [call EXCEPT ![c] = Idle]
    /\ UNCHANGED <<receives, events, locked, done, panicked>>

-----------------------------------------------------------------------------
\* What a goroutine in a call does next, and what it may call.
Proceed(c) ==
    /\ ~panicked
    /\ \/ Lock(c) \/ Deliver(c) \/ Delivered(c)
       \/ CopyNode(c) \/ CompareNode(c) \/ CountNode(c)

Enter(c) ==
    /\ ~panicked
    /\ \/ c \in Sender /\ \E e \in Event : Broadcast(c, e)
       \/ c \in Reader /\ (CheckConvergence(c) \/ Stats(c) \/ Resume(c))

NetworkNext == \E c \in Caller : Proceed(c) \/ Enter(c)

\* A goroutine that can run is run, and is not passed over for ever by the
\* holders of a mutex it waits for.
NetworkSpec == NewNetwork /\ [][NetworkNext]_networkVars /\ \A c \in Caller : SF_networkVars(Proceed(c))

-----------------------------------------------------------------------------
(* Properties *)

Times(e, s) == Cardinality({j \in 1..Len(s) : s[j] = e})

\* Type invariant: as well, a node that receives holds each event once for every
\* broadcast that has reached it, whatever ran at the same time, a node that does
\* not holds none, a mutex is locked by a delivery, and only a broadcast to nobody
\* panics.
NetworkTypeOK ==
    /\ events \in [Nodes -> Seq(Event)]
    /\ \A n \in Nodes :
         /\ locked[n] = Delivering(n)
         /\ n \notin receives => events[n] = <<>>
         /\ n \in receives =>
              \A e \in Event :
                 Times(e, events[n]) =
                    done[e] + Cardinality({c \in Calling("broadcast") :
                                             call[c].event = e /\ n \notin call[c].left})
    /\ panicked => receives = {}
    /\ \A e \in Event : done[e] > 0 => receives # {}

\* CheckConvergence "verifies all nodes have identical event sequences" (line 97)
\* although it copies them at different moments: when it says so they agree as far
\* as the first was read, even if broadcasts ran meanwhile, and when none did it
\* says no only of nodes that differ.  Stats is not behind any broadcast that had
\* returned before the call.
ReadsWereSo ==
    \A c \in Caller :
      /\ call[c].op = "checked" /\ call[c].same =>
           \A n \in Nodes : IsPrefix(SubSeq(events[1], 1, call[c].len), events[n])
      /\ call[c].op = "checked" /\ ~call[c].same /\ call[c].quiet =>
           \E n \in Nodes : events[n] # events[1]
      /\ call[c].op = "counted" =>
           \A n \in receives : call[c].stats[n] >= Total(call[c].since)

\* Every call ends, unless the program panics or a reader copied the mutex of a
\* node in the middle of a delivery.
CallsEnd ==
    \A c \in Caller :
      call[c].op \in {"broadcast", "check", "stats"} ~>
        \/ panicked
        \/ call[c].op \notin {"broadcast", "check", "stats"}
        \/ call[c].op \in {"check", "stats"} /\ call[c].caught
=============================================================================
