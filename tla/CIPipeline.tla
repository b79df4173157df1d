----------------------------- MODULE CIPipeline -----------------------------
(***************************************************************************)
(* The verification gate (src/pkg/ci/ci.go): RunFullPipeline writes the    *)
(* specifications, runs TLC on each in a goroutine of its own, then the    *)
(* Go tests of the model checker, and writes a report; MustRunPipeline     *)
(* panics unless the report has passed.  The Go tests call Check on        *)
(* transitions of their own and compare its verdict with the one they      *)
(* expect.                                                                 *)
(*                                                                         *)
(* What TLC and the go command do is theirs.  TLC may succeed, fail, not   *)
(* start or never end, and what does not start would not start on the      *)
(* second attempt either, that of CombinedOutput, whose output alone is    *)
(* used.  The go command ends, its tests as the checker lets them.  exits  *)
(* and goTest are history.                                                 *)
(***************************************************************************)
EXTENDS ModelChecker

CONSTANTS
    Specs,      \* number of specifications (EventStore, Snapshot, ...: 4)
    MaxChecks   \* bound: calls of Check in the Go tests

ASSUME CIAssumption == Specs \in Nat /\ MaxChecks \in Nat

VARIABLES
    pc,         \* where the pipeline is
    dir,        \* where ValidateInvariants runs go: the parent of $PWD
    cmd,        \* the TLC process: "none" or "running"
    done,       \* the channel, with room for one error; TRUE stands for nil
    satisfied,  \* Report.Results[i].InvariantsSatisfied
    exits,      \* whether the i-th TLC run succeeded
    passed,     \* Report.Passed
    checks,     \* calls of Check so far
    goTest      \* what the go command returned: "none", "ok" or "failed"

vars == <<checkerVars, pc, dir, cmd, done, satisfied, exits, passed, checks, goTest>>

Goto(from, to) == pc = from /\ pc' = to

\* Nothing but pc changes, or nothing but pc and the report.
Elsewhere == UNCHANGED <<checkerVars, dir, cmd, done, exits, checks>>

CIInit ==
    /\ Init
    /\ pc = "generate"
    /\ dir \in {"module", "elsewhere"}
    /\ cmd = "none" /\ done = <<>>
    /\ satisfied = <<>> /\ exits = <<>>
    /\ passed = TRUE
    /\ checks = 0 /\ goTest = "none"

\* GenerateSpecs makes the directory and all the files, or returns an error.
GenerateSpecs ==
    /\ pc = "generate"
    /\ pc' \in {"specs", "error"}
    /\ Elsewhere /\ UNCHANGED <<satisfied, passed, goTest>>

\* The loop over the specifications is left: all are done, or LookPath, asked
\* before each, does not find TLC.
SpecsDone ==
    /\ Goto("specs", "validate")
    /\ Elsewhere /\ UNCHANGED <<satisfied, passed, goTest>>

\* RunModelChecker starts TLC in a goroutine and waits in the select; its
\* argument timeoutSeconds is not used.
RunModelChecker ==
    /\ Goto("specs", "select")
    /\ Len(satisfied) < Specs
    /\ cmd' = "running"
    /\ UNCHANGED <<checkerVars, dir, done, satisfied, exits, passed, checks, goTest>>

\* TLC ends, or did not start; the goroutine sends its error and is gone.
CmdEnds ==
    /\ cmd = "running"
    /\ cmd' = "none"
    /\ \E ok \in BOOLEAN : done' = <<ok>> /\ exits' = Append(exits, ok)
    /\ UNCHANGED <<checkerVars, pc, dir, satisfied, passed, checks, goTest>>

\* Slips: the error is taken from nowhere; a failed TLC run fails the report.
ReceiveEarly ==
    /\ Goto("select", "specs")
    /\ \E runErr \in BOOLEAN : satisfied' = Append(satisfied, runErr)
    /\ done' = <<>>
    /\ UNCHANGED <<checkerVars, dir, cmd, exits, passed, checks, goTest>>
ReceiveStrict ==
    /\ Goto("select", "specs")
    /\ done # <<>> /\ done' = <<>>
    /\ satisfied' = Append(satisfied, done[1])
    /\ passed' = (passed /\ done[1])
    /\ UNCHANGED <<checkerVars, dir, cmd, exits, checks, goTest>>

\* Either case of the select receives from the one channel.  The second drops
\* what it receives, so that runErr stays nil.  The error RunModelChecker
\* returns is always nil, and Passed is left alone.
Receive ==
    /\ Goto("select", "specs")
    /\ done # <<>>
    /\ done' = <<>>
    /\ \E runErr \in {done[1], TRUE} : satisfied' = Append(satisfied, runErr)
    /\ UNCHANGED <<checkerVars, dir, cmd, exits, passed, checks, goTest>>

\* ValidateInvariants runs the Go tests; there are none where it looks unless
\* $PWD is a directory just below the module, or unset in the module.
StartTests ==
    /\ Goto("validate", "testing")
    /\ dir = "module"
    /\ \E ts \in Given : SetTransitions(ts)
    /\ UNCHANGED <<dir, cmd, done, satisfied, exits, passed, checks, goTest>>

TestCheck ==
    /\ pc = "testing" /\ checks < MaxChecks
    /\ checks' = checks + 1
    /\ \E s \in State : Check(s)
    /\ UNCHANGED <<pc, dir, cmd, done, satisfied, exits, passed, goTest>>

TestSearch ==
    /\ pc = "testing"
    /\ Search
    /\ UNCHANGED <<pc, dir, cmd, done, satisfied, exits, passed, checks, goTest>>

\* The go command has ended; RunFullPipeline looks at its error.
Validated(ok) ==
    /\ goTest' = (IF ok THEN "ok" ELSE "failed")
    /\ passed' = (passed /\ ok)

\* The go command fails, for want of a test or of a compiler,
GoFails ==
    /\ Goto("validate", "write")
    /\ Validated(FALSE)
    /\ Elsewhere /\ UNCHANGED satisfied

\* or the tests end, with the verdict they expected of the last Check or not.
TestsEnd ==
    /\ Goto("testing", "write")
    /\ verdict \in {"nil", "error"}
    /\ \E expected \in {"nil", "error"} : Validated(verdict = expected)
    /\ Elsewhere /\ UNCHANGED satisfied

\* The report is written, or not: nobody looks.
WriteReport ==
    /\ Goto("write", "report")
    /\ Elsewhere /\ UNCHANGED <<satisfied, passed, goTest>>

\* MustRunPipeline panics on an error and on a report that has not passed.
MustRunPipeline ==
    /\ pc \in {"error", "report"}
    /\ pc' = IF pc = "report" /\ passed THEN "merged" ELSE "panicked"
    /\ Elsewhere /\ UNCHANGED <<satisfied, passed, goTest>>

Proceed ==
    \/ GenerateSpecs \/ SpecsDone \/ RunModelChecker \/ Receive
    \/ StartTests \/ TestCheck \/ TestSearch \/ GoFails \/ TestsEnd
    \/ WriteReport \/ MustRunPipeline

CINext == Proceed \/ CmdEnds

\* The pipeline's goroutine runs when it can.  TLC need not end.
CISpec == CIInit /\ [][CINext]_vars /\ WF_vars(Proceed)

-----------------------------------------------------------------------------
(* Properties *)

\* Type invariant: as well, the channel holds an error only while somebody
\* waits for it.
PipelineTypeOK ==
    /\ CheckerTypeOK
    /\ pc \in {"generate", "error", "specs", "select", "validate", "testing",
               "write", "report", "merged", "panicked"}
    /\ cmd \in {"none", "running"}
    /\ done \in {<<>>, <<TRUE>>, <<FALSE>>}
    /\ pc = "select" <=> (cmd = "running" \/ done # <<>>)
    /\ satisfied \in Seq(BOOLEAN) /\ exits \in Seq(BOOLEAN)
    /\ passed \in BOOLEAN /\ checks \in Nat
    /\ goTest \in {"none", "ok", "failed"}

\* "Generates TLA+ specs, runs model checker, blocks merge on invariant
\* violation" (ci.go:2), as far as it goes: a merge is let through exactly when
\* the specifications were written and the Go tests, found and run, agreed with
\* Check.  No outcome of TLC on any specification has a say.  The report has one
\* result for each TLC run that ended, in their order, and a result can be wrong
\* in one way only: a failed run is called satisfied, when the second case of
\* the select was taken.
GateHearsGoTestsOnly ==
    /\ pc = "merged" => goTest = "ok" /\ dir = "module"
    /\ pc = "panicked" => goTest \in {"none", "failed"}
    /\ pc = "panicked" /\ goTest = "none" => satisfied = <<>>
    /\ pc # "select" => Len(satisfied) = Len(exits)
    /\ \A i \in 1..Len(satisfied) : exits[i] => satisfied[i]

\* The pipeline ends, with a merge or a panic, unless a TLC run never does: it
\* then waits in the select for ever, since there is no timeout (ci.go:101 has
\* "Run with timeout").
PipelineEnds == <>(pc \in {"merged", "panicked"}) \/ <>[](pc = "select" /\ cmd = "running")
=============================================================================
