# A verification of atom-runtime

TLA+ models of the Go packages under `src/pkg` that hold the runtime's own
logic, the TLC runs that check them on small instances, and TLAPS proofs of the
properties that matter most for every instance. `PROJECT.json` names, for every
definition that stands for code, the lines it stands for.

## 1. Inventory

The repository is a set of packages with small interfaces and no program that
joins them: there is no transport, no scheduler, no main loop. Each package
keeps its own state and the tests call it directly. Where a model needs a
caller, the caller is written down as a *driver*, marked external, and made as
careful as the interface permits unless a run says otherwise.

| component | state | operations | interaction |
|---|---|---|---|
| event store (`consensus/engine.go`) | log of events; last number and last hash per trace | `NewEventStore`, `Append` | one per replica; pointer shared by copies of the node |
| replicas (`consensus/engine.go`) | term, role, vote, store | `ElectLeader`, `QuorumReached`, `CommitEntry`, `GEBAdvanceTerm`, `HandleMessage` | messages APPEND, VOTE_REQUEST, HEARTBEAT and their replies; slices of node *copies* |
| write-ahead log (`wal/wal.go`) | one file, its position, closed flag | `NewWAL`, `Append`, `Recover`, `Stats`, `Close` | file system: writes, syncs, crashes |
| snapshot (`snapshot/store.go`) | last number and hash per trace | `CreateSnapshot`, `Clone`, `FastReplay`, `EquivalenceProof` | made from a store, continued with recovered events |
| invariant guard (`invariant/guard.go`) | none | `CheckEvent`, `CheckSeqMonotonic`, `CheckHashChain` | panics; nothing calls it |
| clock and barrier (`clock/clock.go`, `geb/geb.go`) | tick, epoch, two mutexes | `Now`, `Advance`, `AdvanceTo`, `SetEpochMs`; `Tick`, `Snapshot`, `Commit` | any number of goroutines |
| stress run (`stress/stress.go`) | logs and crash flags of simulated nodes, partition flag | `RunLongTerm` and its three checks, `RestartRandomNode` | a sequential loop |
| chaos mode (`chaos/mode.go`) | active flag, elapsed ticks, duration | `Start`, `Stop`, `SetDuration`, `Tick` | sets the injectors, records the trace; one mutex |
| failure injectors (`failure/failure.go`) | call counters and thresholds, partition flag | `ShouldKill`, `CorruptFile`, `InjectAfter`, `CorruptAt`, `Reset`, `Break`, `Heal` | asked by goroutines of the tested system; atomics and plain fields |
| Byzantine network (`byzantine/network.go`) | the event list and the mutex of each node | `NewNetwork`, `Broadcast`, `CheckConvergence`, `Stats` | called by several goroutines; copies whole nodes |
| CI pipeline (`ci/ci.go`) | a report, specification files | `GenerateSpecs`, `RunModelChecker`, `ValidateInvariants`, `RunFullPipeline`, `MustRunPipeline` | a goroutine, a channel, a select; TLC and the go command |
| model checker (`modelchecker/model.go`) | transitions, visited map, stack | `SetTransitions`, `Check` | called by the Go tests that the pipeline runs |
| diff (`diff/engine.go`) | a guarded hash, sequence and map per state | `Set`, `AppendSeq`, `SetHash`, `Compare`, `GlobalDiff` | read-write locks, several held at once |
| trace recorder (`trace/recorder.go`) | a list of entries | `Record`, `Diff`, `StateDiff` | filled by the chaos mode |
| canon, schema, contract, rng, coverage, formal, scripts | none or constant | hashing, tables, text | pure |

What is hard in this code, with what should be true of it:

* **Event store.** Events of many traces interleave in one log, and only two maps
  know the end of each trace. Retries and stale clients offer numbers already
  used. Correct: the maps match the log; every trace is one unbroken chain,
  counted without gaps and without repeats.
* **Replicas.** Votes, heartbeats and appends come in any order, late, twice or
  never; terms move in four places and votes are never reset; quorums are counted
  over copies. Correct: one vote per term, one winner per term, terms never fall,
  a commit has its quorum, no replica holds an event nobody committed, an
  acknowledged entry is kept.
* **Write-ahead log.** A write may be torn, a sync may fail, a crash keeps any
  unsynced part, the file position survives errors, a reopened file starts at 0.
  Correct: acknowledged entries are recovered, in order, and nothing is invented.
* **Recovery.** Snapshots are of any age, the encoding does not return exactly what
  it was given. Correct: replay from any snapshot knows the tips of what it
  covered, and does not panic on a log the store accepted.
* **Clock and barrier.** Advance can be called past the barrier, jumps interleave
  with it, a snapshot is read in two calls. Correct: a tick is given out once,
  ticks grow, a restored clock repeats none, nobody waits for ever.
* **Stress run.** The checks must fail when nodes differ and not otherwise.
* **Chaos mode and injectors.** Runs are stopped, restarted and cut short while calls
  are counted, and a call is judged after it was counted, perhaps after a reset. Correct:
  the trace depends on the seed only; of the calls counted between two resets an
  injection spares no more than it says.
* **Byzantine network.** Readers copy nodes, mutexes included, while deliveries go on.
  Correct: recipients hold what was sent once each; an answer was so; calls end.
* **Pipeline and model checker.** A goroutine, a select without a timer, errors that are
  dropped; a search over cycles, diamonds and colliding keys, on a checker that was
  used before. Correct: the verdict is exact; a gate that does not let wrong things by.
* **Diff.** Hashes are read under separate locks, then four read locks are held
  together while writers queue. Correct: what is reported was so; calls end.

Every hazard, at its line and with the properties that watch it, is in
`PROJECT.json` under `hazards`.

## 2. Modules

| module | stands for | used by |
|---|---|---|
| `EventLog` | `EventStore` as a value: `Appended`, `AppendOk`, what a sound store is | `EventStore`, `Consensus` |
| `TraceChains` | abstract: a family of append-only chains | `EventStore` (refinement) |
| `EventStore` | one store and its clients | `Recovery`, `MCEventStore`, `RecoveryProofs` |
| `Consensus` | the replicas, the network and the driver | `MCConsensus`, `ConsensusProofs` |
| `DurableLog` | abstract: a log that loses only an unsynced end | `WAL` (refinement) |
| `WAL` | the log file under failures | `MCWAL`, `WALProofs` |
| `Recovery` | encoding, snapshot, replay and guard over a growing store | `MCRecovery`, `RecoveryProofs` |
| `ClockGEB` | clock, barrier and goroutines | `MCClockGEB`, `ClockGEBProofs` |
| `StressRun` | the stress loop | `MCStressRun`, `HarnessProofs` |
| `ModelChecker` | the search of `Check` | `CIPipeline`, `CIPipelineProofs` |
| `CIPipeline` | the pipeline around TLC and the Go tests | `MCCIPipeline`, `CIPipelineProofs` |
| `StateDiff` | `Compare` and `GlobalDiff` beside writers | `MCStateDiff`, `ComparisonProofs` |
| `ChaosMode` | mode, injectors, trace and their callers | `MCChaosMode`, `HarnessProofs` |
| `ByzantineNetwork` | broadcasts and readers | `MCByzantineNetwork`, `ComparisonProofs` |
| `EventLogProofs`, `RecoveryProofs`, `ConsensusProofs`, `WALProofs`, `ClockGEBProofs`, `HarnessProofs`, `CIPipelineProofs`, `ComparisonProofs` | theorems (section 4) | |

How state and steps correspond to the code:

* **EventLog.** A store is the record of the struct's three fields; a map without
  a key is `NoEntry` there. `SeqOk` and `PrevOk` are the two groups of early
  returns of `Append`, `Appended` its three assignments. Events carry an abstract
  hash; the empty string is `NoHash`, because the code treats it specially.
* **Consensus.** `term`, `state`, `votedFor` and `store` are the fields of the live
  nodes. `ElectLeader` and `CommitEntry` take `[]ConsensusNode` *by value*: `view`
  is the terms in such a slice, each copied at its own moment (`CopyNode`), while
  the stores behind the copied pointers are the live ones. `msgs` only grows; a
  handler may take any message at any node any number of times or never, which
  is loss, delay, reordering and duplication. Each case of `HandleMessage` is one
  action with every field it changes; a message the guards turn away changes
  nothing. The driver, external, asks for votes when a node advances its term
  and sends heartbeats and appends only for a node that won its term.
* **WAL.** The file is cells, an entry a few of them; a cell is the unit a write
  keeps or loses, and `Blank` is a hole. `Append` is `AppendWrite` and then
  `AppendSync`, with a failing form of each, so that a crash can come between.
  `Recover` is one step, under the mutex, with three outcomes: no error
  (`RecoverOK`, also when the last entry is incomplete), a corrupt entry
  (`RecoverCorrupt`) and a failed read (`RecoverReadFails`); what each leaves behind
  is the file position. A header of mixed cells holds a length nobody wrote, so
  both the quiet and the noisy outcome are allowed for it. The client recovers
  before it appends and stops after a failed append. Of the file system it is assumed
  that a sync that succeeds makes durable all that was written, after a sync that
  failed as well.
* **Recovery** extends `EventStore`: its steps are that store's, which nothing else in it
  changes, and those of the recovery path. What the
  log decodes to is `Encode` followed by `DecodeEntry`: a hash that is not 64 characters
  long comes back as 64 zeros, one that is comes back as the lower-case digits that its
  characters, unchecked, are packed to (`Digits`), and identifiers are cut to 16 bytes. The
  guard's comparison of ticks is left out, as the log keeps none. The loops of
  `FastReplay` and of a rebuild are taken one event at a time beside the growing
  store. `EquivalenceProof`, which holds no state, is an operator that runs
  the same step over a range of the log.
* **ClockGEB.** Methods of the clock are atomic under its mutex. `GEB.Tick` is three
  steps: wait, lock, advance and unlock. `GEB.Snapshot` is two reads. `issued` and `past`
  are history.
* **StressRun.** One action is one iteration of the loop: crash, partition,
  broadcast, checks. The sampled choices are free. `RestartRandomNode`, exported and
  called by nobody, may come between iterations, which is more than the code allows
  as it stands: the loop's network is local to it. `fresh` and `restarted` are history.
* **ModelChecker.** Each round of `Check`'s outer loop (pop, visit) and of its inner
  loop (one transition looked at) is a step. The visited map is a set of keys, a key
  being trace and number, as in the code; the hash of a state is in none of the
  comparisons. `From.Seq+1` is taken modulo `Modulus`, which stands for 2^64.
* **CIPipeline** extends it: the Go tests call `Check` and compare its verdict with the one
  they expect. `RunModelChecker` is the start of the goroutine, the command's exit (a
  value in `done`), and the select, whose two receives are two disjuncts that can both take the
  value. TLC is looked for before each specification, and found or not; it succeeds, fails, does
  not start or hangs. `dir` is where the process was started: the tests run in its
  parent, so they are found or not. The go command always ends. The second run that
  `CombinedOutput` would make of a TLC that did not start is taken to fail to start too.
* **StateDiff.** A writer's `Lock` is two steps: `Announce`, which keeps new readers out,
  and `Write`, when the readers that are in have left, which is what `sync.RWMutex` does.
  Each of the six `Hash()` calls and each of the four `RLock`s of `Compare` is a step
  that needs no announced writer; the deferred unlocks are part of `Return`, which every
  return uses. `held` lists the read locks of a call, one entry for each.
* **ChaosMode.** The methods of the mode are one step each, under its mutex except for
  `SetDuration`, a store. A call of an injector is two: the atomic add, and the comparison
  with the threshold at that later moment. `roll` is what the seed and the four Enable
  flags make the code draw at each tick: the flags are set before the first start, as
  in the tests, and only `Tick` sets the injectors, although the getters hand them out.
  A call counts for the period, between two resets of its injector, in which it was counted.
* **ByzantineNetwork.** Whether a node receives depends on seed, name and index, so one
  set `receives` is chosen at the start. A delivery holds the node's mutex for one step. A
  reader copies the nodes one at a time; a copy made during a delivery has a mutex that
  nobody unlocks, and the reader waits at it for ever (`caught`).

## 3. What the runs check

| run | instance | shows |
|---|---|---|
| `event_store` | 2 traces, 3 numbers, 2 hashes | the maps match the log, chains are unbroken, counted and free of repeats; refinement of `TraceChains` |
| `elections` | 3 nodes, 2 candidates, 2 terms, 1 event | one vote and one winner per term, a quorum over copies is a real one, nothing is invented |
| `chains` | 2 nodes, 2 terms, 2 events | types; replicas keep their chains; acknowledged entries are kept; what a node is sent extends no chain |
| `split` | as `elections` | **violated:** `CommittedAgree` |
| `wal_careful` | 2 entries of 4 and 3 cells, 8 cells of file | a careful client's log is a `DurableLog` under all failures; acknowledged entries are recovered while there is no residue, and on the disk in any case; nothing is overwritten, and a client that does not recover first would |
| `recovery` | 2 traces, 2 numbers, 4 hashes: empty, zeros, lower case, upper case | replay never panics and knows exactly the tips; what `EquivalenceProof` says; guard and store agree; a new store takes nothing of what was recovered |
| `clock_geb` | 2 goroutines, ticks to 3 and jumps to 3 | ticks are unique and ordered, a snapshot restores past all ticks given out before it, every `Tick` is served |
| `stress` | 3 nodes, 7 events | no check fails without a restart; the convergence check is exact; a node that missed something never catches up |
| `ci_gate` | 2 specifications, lists of up to 3 of 7 transitions, numbers modulo 3 | the checker's verdict is exact on a fresh and on a used checker; the gate hears the Go tests and nothing else; only a hanging TLC keeps the pipeline from ending |
| `state_diff` | 2 states, 2 comparers, 2 writers, 2 writes, 2 numbers | reports were so; calls end unless calls and queued writers tie each other up |
| `chaos` | 2 callers, 2 ticks, 2 starts, 2 calls and 1 reset per injector | the trace of any history of starts is that of the seed; what an injection spares of the calls of a period, also of those judged after it |
| `byzantine` | 3 nodes, 2 senders, 1 reader, 2 broadcasts | recipients hold what was sent; answers were so; calls end unless nobody receives or a held mutex was copied |

**The violated property.** `split`: `CommitEntry` appends to one node. The quorum it asks
for is nodes with a term above 0, and nothing is replicated before it returns true. Node 1
wins a term and commits an entry; `ElectLeader`, over a slice with an older copy of node 1,
names node 2, which commits another entry under the same number. No later term is
needed. Against "split-brain-safe consensus" (`engine.go:2`).

**Properties that say how far a sentence of the repository holds.** Where the code does
less than a comment says, the property states what it does do, so that a change of
either shows:

* `OnlyCommitsExtend`: an APPEND carries no previous hash and the handler uses the
  entry's own in its place, so a follower takes a second entry of a trace only if it
  repeats the hash of the first.
* `AppendsAtEnd`: `NewWAL` leaves the position at 0, so the "append-only" log is so only
  for a client that recovers first: without it, on a clean file that is not empty, the
  first append takes the place of the first entry and a recovery finds no more entries than
  before.
* `AckedKept`: a write that fails after some bytes leaves them in the file. `Recover` takes
  them for an entry that is not complete and returns no error; the next `Append` writes
  behind them, syncs and returns nil, and no recovery finds its entry, although the log is
  "crash-safe" (`wal.go:267`) and an append "atomic" (`wal.go:285`). This is why
  `AckedWhileClean` speaks of a file without residue; `AckedOnDisk` says what is left of the
  promise, that such an entry is whole on the disk for ever.
* `NeverCatchesUp`: "it will catch up through the normal event replay mechanism"
  (`stress.go:101`); there is none, and a restarted node never gets what it missed.
* `NothingRebuilt`: the empty previous hash of a first event comes back as 64 zeros,
  and `Append` takes only the empty one; a store rebuilt by appending is empty.
* `ProofExact`: `EquivalenceProof` returns nil or panics, and never an error.
* `SnapshotRestores`: an advance and a change of the epoch fit between the two reads of
  a snapshot, so it may be a pair the clock never held; it restores all the same.
* `GateHearsGoTestsOnly`: `RunModelChecker` returns a nil error always, and
  `RunFullPipeline` does not look at `InvariantsSatisfied`: a merge is not blocked by TLC.
* `PipelineEnds`: "run with timeout" (`ci.go:101`) has none.
* `ComparesEnd`: `Compare` takes a read lock it holds already; one writer in between is enough
  for a deadlock (`Knot`).
* `CallsEnd`: the copied mutex.

Two more disagreements are not run. INV1 and INV4 of `formal/spec.go` number and
chain the *whole* log; `Append` does so per trace, as its tests expect, so any two
interleaved traces break them, and `CheckHashChain`, written the same way, would
panic. `FastReplay` panics when two traces share their first 16 bytes.

**Bounds.** Three numbers per trace are the least with a gap and a retry of an old
event. Three nodes are the least where two quorums differ and share a node; two
candidates in two terms give split votes and a late message of an old term. Two
events are the least on which a chain can break. Eight cells hold an entry, a
residue and another entry; the entries differ in length, so that one may end inside what
another left. Two goroutines suffice for each pair of interleaved
methods of the clock. Three transitions are a cycle of three states, a diamond with a
shortcut, or a gap behind a valid step. Two comparers with two writers make both
knots: a lock taken twice, and two states in two orders. Two starts with a reset show
what one run leaves to the next. Two broadcasts can cross under a reader.
`MaxTerm`, `MaxSeq`, `MaxFile`, `MaxTarget`, `MaxTick`, `MaxWrites`, `MaxSends`, `MaxStarts`,
`MaxCalls`, `MaxResets` and `MaxChecks` occur in guards of calls
from outside only; `Events` is the stress loop's own limit. `MaxTick` of the clock is asked when
a call begins, never inside one, so it cannot leave a goroutine stuck.

**Deadlock** is checked wherever the system does not stop. It may stop in `stress` (the loop
returns), `ci_gate` (a merge, a panic or a hanging TLC), `state_diff` (a knot) and
`byzantine` (a panic, or a reader at a copied mutex); there the liveness properties say
which stops are possible, but for `stress`, whose loop has no wait.

**Fairness.** The Go scheduler runs every goroutine that can run, and its mutexes do not
starve a waiter: `sync.Mutex` hands itself to a waiter after a millisecond, `sync.RWMutex`
lets in the readers that waited for a writer when it leaves. So:

* `ClockGEB`: strong fairness for taking the barrier, weak for the steps of a goroutine
  that holds it or is inside `Snapshot`.
* `StateDiff`: strong for the steps of a comparer that need a read lock, weak for the others and
  for a writer that has announced itself.
* `ByzantineNetwork`: strong for the next step of a call, which may need a mutex that
  deliveries take in turn.
* `CIPipeline`: weak for the pipeline's own steps, and none for the end of a TLC run.

Nobody has to make a call. The other models promise no progress: nothing in the
repository retries.

## 4. What is proved

For every value of the constants, under the named assumptions in the modules
(sizes are natural numbers, the empty values lie outside or inside their sets).

* **EventLogProofs, RecoveryProofs: the store.** `StoreInv` is inductive under `Append`. The
  promises alone are not: that an accepted number is new needs `SeqBounded` (the tip
  bounds every number of its trace), and reading the log per trace by number needs
  `SeqDense` (no number up to the tip is missing). From it: `TypeCorrect`,
  `StoreSafety`, and `Refinement`: a step is `Extend` of one chain or a stutter.
* **RecoveryProofs: the recovery path.** It only reads the store (`RecoveryUsesStore`), so
  `StoreInv` holds beside it. `RecoveryTypes` and `RebuiltStaysEmpty` need nothing more.
  Replay needs `Knows`: a snapshot said to cover n events is the tips of the first n
  (`TipsAt`), of whatever age, and the next event of a trace has the next number
  (`NextInTrace`), so no round refuses it: `ReplayAlwaysExact`. `ProofAlwaysExact` follows
  the whole of `FastReplay`, a recursive function over a run of the log, by induction on
  the run (`RunOutcome`): a run that meets its snapshot without gap or overlap in any of
  its traces is accepted, and any other is refused at the first event of such a trace.
  `GuardAlwaysAgrees` puts the maps and the last event of a trace side by side. The
  theorems on decoded events have a hypothesis about identifiers, which the header's 16
  bytes justify and nothing in the code enforces: `Fits` (none is longer;
  `ReplayAlwaysExact`, `ProofAlwaysExact`) or the weaker `Apart` (no two are cut to the
  same; `GuardAlwaysAgrees`). The instance of `recovery` satisfies both. Without `Fits`
  the statements as they stand are false, since snapshots hold whole identifiers and the
  log cut ones.
* **ConsensusProofs.** `Inv` adds to the types `VotesBind` (a vote sent binds its
  sender while it stays in that term), `CopiesLag` (a copy is never ahead of its
  node) and `StoreInv` of every replica. `OneVotePerTerm` follows step by step from
  `VotesBind`, `ElectionSafety` from it by counting: two sets of more than half the
  nodes meet. `CommitsHadQuorum` follows from `CopiesLag` and from terms that never
  fall. Each replica's store is sound by `AppendKeepsStoreInv`, whatever is appended.
  `TermMonotonic` is an action property that no run repeats. On top of that, `LogInv`: an
  APPEND carries a committed entry, a log holds committed entries only, what an ACK names
  is in its sender's log. With sound stores, where a number occurs once, it gives
  `NothingInvented`, `AcksAreKept` and `OnlyCommitsExtend`.
* **WALProofs.** `Parsed`, a recursion over the file's cells, is first said by positions
  (`Chain`, `Complete`). Then three facts about files suffice: one in which less is intact
  has a prefix of the log, a whole entry at the end of a clean file is the next of the
  log, and a torn one, or any behind a residue, is nothing. `IInv` adds to the types that
  the synced cells are a prefix of the file, that a client that may append stands at its
  end, that an entry written and not yet synced is found unless there is a residue, and
  that what is synced either stops at a residue, at which the file then stops too, or has
  all that was acknowledged (`AckedOrResidue`; `AckedWhileClean` alone is not inductive,
  as a crash may cut the residue off). From it `CarefulClientAppends`, `AckedSurvives` and
  `Refinement`: a write that completes the file's last entry is `Add`, a sync `Flush`, a
  crash `Fail`. The part of `AckedSurvives` on what is on the disk needs only that what
  was written and not yet synced is whole in the file (`PendingWhole`) and that a file
  extends what was synced of it.
* **HarnessProofs: the stress run.** `Inv` says that logs are increasing lists of event
  numbers, that fresh nodes know all (`FreshKnowsAll`, checked by no run of its own), and
  that without a restart the fresh nodes are the live ones. Live nodes then hold the same
  log; each number is held by all of them or by none (`SameLogsConverge`, by a bijection),
  so `RunLongTerm` succeeds whatever is injected (`LongRunsSucceed`). `OneLeader`: of any
  logs at most one is strictly longer than all others, so `CheckNoSplitBrain` never fails
  (`SplitBrainNeverReported`). `CountingIsExact` is the converse: where each number has
  the count of the live nodes, every one holds it, and two increasing lists with the same
  members are equal (`SameMembersEqual`), so the counting check cannot pass over logs that
  differ. `DifferForEver`: logs grow by the number of the present event only, so an event
  once missed stays missed.
* **HarnessProofs: chaos mode.** `InjectorsMatchTrace` is inductive nearly as it stands.
  `RunsAlwaysRepeat` follows the joining of the runs' traces entry by entry
  (`FlattenAppend`): a tick lengthens the trace of the run under way, a start closes it.
  `SparedAlwaysBounded` cannot be had from the number of calls spared alone, since calls
  are in flight while the threshold moves. `SparedInv` says of each period that its
  numbers are given out once each, to calls that may outlive it (`Numbered`); and of the
  latest tick m in the trace that the calls of the period that were spared, those in
  flight with a number up to m and the numbers up to m that the period has not given out
  are together at most m (`Budget`). A reset closes the period with the numbers it has
  given out (`Given`) and begins the next with none; m only grows.
* **CIPipelineProofs: the model checker.** Every transition out of a visited state has
  been followed or lies ahead of the inner loop (`Covered`); nothing was visited or pushed
  that some closed set does not hold (`Needed`). When the stack is empty the visited
  states are therefore the least closed set, for any list, any modulus and any earlier use
  of the checker (`CheckIsExact`).
* **CIPipelineProofs: the pipeline.** It drives the checker as `ModelChecker` specifies
  (`PipelineUsesChecker`), so the verdict is exact in it too (`PipelineVerdictExact`).
  `GateInv` says what the report holds where the pipeline is, and how the results go with
  the exits of TLC, the last of which may wait in the channel. `PipelineTypes` and
  `GateHearsOnlyGo` follow, for any number of specifications.
* **ClockGEBProofs.** `ClockTypes` needs no hypothesis. The order of the ticks needs that the
  counter does not wrap: `NoWrap` bounds what callers ask for, plus one tick for each
  goroutine, below the modulus; `Room` is the invariant that counts the goroutines that
  are still to advance the clock. `Reading` says of a goroutine between the two reads of
  `Snapshot` that the tick it has is no less than any given out before its call. From
  these: `TicksInOrder` and `SnapshotsRestore`. The instance of `clock_geb` satisfies `NoWrap`.
* **ComparisonProofs: diff.** The locks a call holds are a function of its place
  (`TypeOK`), so no writer gets at what was compared before the return (`SeqsStay`); a
  pair whose hashes have not differed during a call has had one hash throughout
  (`HashesStay`). From these `LocksAreThose` and `ReportsAreTrue`. Both assume `Apart`: a
  state is not compared with itself, else it may be said to differ from itself, as its
  hash is read twice.
* **ComparisonProofs: the Byzantine network.** `NetworkInv` says of each node by event
  (`ReachedWith`) and in all (`Reached`) that it holds the broadcasts that have returned
  and those under way that have reached it, and that no two deliveries are in one node. Of
  a reader it says that each copy is how its node begins, for ever; that a check nobody
  disturbed has copies of what the nodes hold; and that Stats is not behind the broadcasts
  that had returned. The answer "they differ" must stay true while it waits to be read,
  which `~same` alone does not give: where nobody broadcast, nodes that differ do so in an
  event both have, or one of them never receives and the other holds something
  (`Differs`), and neither can be mended by more events.

**Induction over data.** Files, logs and traces are read by recursive functions and by
folds. An induction theorem that takes a predicate as its parameter cannot be used with
the provers at hand; the proofs take instead the least number for which the claim would
fail (`Least`, from the well-foundedness of the naturals, applied to a set), and define
the recursive function by the equation it satisfies (`FromExists` in `WALProofs`,
`RoundsExist` in `RecoveryProofs`, `JoinsExists` in `HarnessProofs`) before anything is
said of it.

Only model-checked is liveness: `TickServed`, `PipelineEnds`, `ComparesEnd`, `CallsEnd`.
Liveness under fairness and ENABLED are out of the prover's reach.

## 5. Plan

Done, in this order: the event store and its abstract chains; the replicas over it;
the write-ahead log over `DurableLog`; recovery, which joins store, encoding, snapshot and
guard; clock and barrier; the stress run; the pipeline with the model checker; diff; the
Byzantine network; chaos mode with the injectors; the proofs of section 4.

A model of two goroutines that append to one `EventStore` was planned and dropped: the
maps are written without a lock, Go ends the program when it sees that, and otherwise the
outcome is undefined, so there is no state of which to promise anything.

What could be added: the groups of `Partition` beside the other injectors; a driver with
retries, to ask for the liveness of elections, once the repository has one.

## 6. Not modelled

* The text generators (`formal`, `cmd/formalgen`, `coverage`), constant tables and hashing
  (`canon`, `schema`, `contract`, `rng`), the Python clock and the scripts keep no state
  that steps change; what could be wrong in them is in their bytes.
* Of the failure injectors, the groups of `Partition`, the set of killed nodes, `Permute`,
  `Metrics` and `Runner`: each is one map or list behind a mutex, or a pure function (`Permute`
  of an empty list returns a list of one).
* `trace.Diff`, which compares two finished lists, by `EventHash` and `Seq`, two
  fields the chaos mode never sets.
* `CheckHashChain` of the guard, which compares neighbours of different traces. Nothing
  calls it.
* `CheckNoSplitBrain` and `CheckSingleSourceOfTruth` of the replicas, which only read.
* A payload is part of an entry's cells in `WAL` and nothing elsewhere; the tick of an
  event is not modelled because the log does not record it.
