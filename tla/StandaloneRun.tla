---------------------------- MODULE StandaloneRun ----------------------------
(***************************************************************************)
(* One run of the standalone driver: analyzePatterns and analysisLevels of *)
(* internal/standalone/loader.go, and the end of Main in main.go.          *)
(*                                                                         *)
(* The selected packages ("units") are cut into dependency-first waves; a  *)
(* wave's units go through a closed channel to a pool of at most           *)
(* GOMAXPROCS goroutines, which classify, load and build each one, commit  *)
(* its function summaries to the shared fact store and keep a result if a  *)
(* pattern named it.  The first failure is remembered and cancels the work *)
(* context; the deadline cancels it too.                                   *)
(***************************************************************************)
EXTENDS PackageSelection, Sequences, FiniteSets

CONSTANTS Listings,          \* the go list answers to consider, without tests and with them
          Workers,           \* GOMAXPROCS many goroutine identities
          FailOnIncomplete,  \* fail_on_incomplete
          NoUnit             \* the job of an idle worker

ASSUME ListingsAssumption == \A tests \in BOOLEAN : \A L \in Listings[tests] : IsListing(L)
\* go list lists variants only with -test, and a variant is of a package proper.
ASSUME VariantsAssumption ==
  \A tests \in BOOLEAN : \A L \in Listings[tests] : \A v \in DOMAIN L :
    L[v].forTest # NoPath =>
      tests /\ (L[v].forTest \in DOMAIN L => L[L[v].forTest].forTest = NoPath)
ASSUME SwitchAssumption == FailOnIncomplete \in BOOLEAN
ASSUME WorkersAssumption == IsFiniteSet(Workers) /\ Workers # {}
ASSUME NoUnitAssumption == NoUnit \notin Paths
ASSUME FiniteAssumption == IsFiniteSet(Paths)

VARIABLES
  includeTests, \* include_tests, or -tests
  listing,   \* what go list answered
  units,     \* the selected packages
  roots,     \* those of them whose results are reported
  deps,      \* deps[u]: the units u imports
  main,      \* where the main goroutine is
  levels,    \* the waves
  wave,      \* the next wave to start
  deadline,  \* ctx has expired
  work,      \* workCtx: "live", or why it was cancelled
  firstErr,  \* the error errOnce kept
  jobs,      \* the wave's channel; it is sorted, so its head is the least unit
  alive,     \* worker goroutines that have not returned
  job,       \* the unit a worker holds
  stage,     \* how far a unit has come
  err,       \* the error a unit ran into
  program,   \* what BuildContext returned for a unit
  facts,     \* units whose summaries are in the store
  result,    \* result[r]: what a root's slot of results holds
  runErr,    \* the error analyzePatterns returned
  panicked,  \* some goroutine panicked
  exit       \* the process's exit code

inputs == <<includeTests, listing, units, roots, deps>>
plan == <<levels, wave>>
pool == <<jobs, alive, job>>
context == <<deadline, work>>
outputs == <<runErr, panicked, exit>>
unitState == <<stage, err, program>>
vars == <<includeTests, listing, units, roots, deps, main, levels, wave, deadline, work, firstErr,
          jobs, alive, job, stage, err, program, facts, result, runErr, panicked, exit>>

NoErr == "none"
CtxErrs == {"deadline", "canceled"}
Errs == CtxErrs \cup {NoErr, "error"}

\* A worker holds its unit through these stages.
Held == {"claimed", "classify", "load", "build", "built", "recorded", "failing"}
Settled == {"done", "excluded"}
Stages == Held \cup Settled \cup {"waiting", "queued", "dropped", "failed"}

\* What BuildContext can hand back.  "nothing" and "partial" come with an error.
Programs == {"none", "nothing", "partial", "truncated", "whole"}
Results == {"none", "excluded", "partial", "truncated", "whole"}
Places == {"setup", "plan", "loop", "wait", "merge", "report", "done", "crashed"}
Exits == {"none", "ok", "invalid", "internal", "ci"}

TypeOK ==
  /\ includeTests \in BOOLEAN /\ listing \in Listings[includeTests]
  /\ units \subseteq Paths /\ roots \subseteq units
  /\ deps \in [units -> SUBSET units]
  /\ main \in Places
  /\ levels \in Seq(SUBSET units)
  /\ wave \in Nat
  /\ deadline \in BOOLEAN
  /\ work \in CtxErrs \cup {"live"}
  /\ firstErr \in Errs
  /\ jobs \subseteq units
  /\ alive \subseteq Workers
  /\ job \in [Workers -> units \cup {NoUnit}]
  /\ stage \in [units -> Stages]
  /\ err \in [units -> Errs]
  /\ program \in [units -> Programs]
  /\ facts \subseteq units
  /\ result \in [roots -> Results]
  /\ runErr \in Errs
  /\ panicked \in BOOLEAN
  /\ exit \in Exits

Init ==
  /\ includeTests \in BOOLEAN /\ listing \in Listings[includeTests]
  /\ units = Units(listing, includeTests)
  /\ roots = Roots(listing, includeTests)
  /\ deps = [u \in units |-> Deps(listing, units, u)]
  /\ main = "setup"
  /\ levels = <<>> /\ wave = 1
  /\ deadline = FALSE /\ work = "live" /\ firstErr = NoErr
  /\ jobs = {} /\ alive = {} /\ job = [w \in Workers |-> NoUnit]
  /\ stage = [u \in units |-> "waiting"]
  /\ err = [u \in units |-> NoErr]
  /\ program = [u \in units |-> "none"]
  /\ facts = {}
  /\ result = [r \in roots |-> "none"]
  /\ runErr = NoErr /\ panicked = FALSE /\ exit = "none"

Running == main \notin {"done", "crashed"}

-----------------------------------------------------------------------------
(* The environment *)

\* The timer of analysisContext fires; workCtx is a child of ctx.
Deadline ==
  /\ Running /\ ~deadline
  /\ deadline' = TRUE
  /\ work' = IF work = "live" THEN "deadline" ELSE work
  /\ UNCHANGED <<inputs, plan, pool, unitState, main, firstErr, facts, result, outputs>>

-----------------------------------------------------------------------------
(* The main goroutine, up to the first wave *)

ReturnEarly(e) ==
  /\ runErr' = e
  /\ main' = "report"
  /\ UNCHANGED <<inputs, plan, pool, context, unitState, firstErr, facts, result,
                 panicked, exit>>

\* newTargetPackageLoader runs `go env`; then a selected package must be sound.
Setup ==
  /\ main = "setup"
  /\ \/ deadline /\ ReturnEarly("deadline")
     \/ ~deadline /\ ReturnEarly("error")
     \/ /\ \E u \in units : listing[u].broken
        /\ ReturnEarly("error")
     \/ /\ \A u \in units : ~listing[u].broken
        /\ main' = "plan"
        /\ UNCHANGED <<inputs, plan, pool, context, unitState, firstErr, facts, result,
                       outputs>>

Planned == {u \in units : \E i \in DOMAIN levels : u \in levels[i]}

\* Mutant of Ready: a unit is queued at its first satisfied import, not at its last.
ReadyAtFirst == {u \in units \ Planned : deps[u] = {} \/ deps[u] \cap Planned # {}}

\* Units whose indegree has come down to zero and which no wave has yet.
Ready == {u \in units \ Planned : deps[u] \subseteq Planned}

PlanLevel ==
  /\ main = "plan" /\ Ready # {}
  /\ levels' = Append(levels, Ready)
  /\ UNCHANGED <<inputs, wave, pool, context, unitState, main, firstErr, facts, result,
                 outputs>>

PlanDone ==
  /\ main = "plan" /\ Ready = {}
  /\ IF Planned = units
     THEN /\ main' = "loop"
          /\ UNCHANGED <<inputs, plan, pool, context, unitState, firstErr, facts, result,
                         outputs>>
     ELSE ReturnEarly("error")

-----------------------------------------------------------------------------
(* The main goroutine, wave by wave *)

PoolSize(level) ==
  IF Cardinality(level) < Cardinality(Workers) THEN Cardinality(level)
                                               ELSE Cardinality(Workers)

StartWave ==
  /\ main = "loop" /\ work = "live" /\ wave \in DOMAIN levels
  /\ jobs' = levels[wave]
  /\ \E W \in SUBSET Workers : Cardinality(W) = PoolSize(levels[wave]) /\ alive' = W
  /\ job' = [w \in Workers |-> NoUnit]
  /\ stage' = [u \in units |-> IF u \in levels[wave] THEN "queued" ELSE stage[u]]
  /\ wave' = wave + 1
  /\ main' = "wait"
  /\ UNCHANGED <<inputs, levels, context, err, program, firstErr, facts, result, outputs>>

\* wg.Wait returns.
WaveDone ==
  /\ main = "wait" /\ alive = {}
  /\ main' = IF firstErr # NoErr THEN "merge" ELSE "loop"
  /\ UNCHANGED <<inputs, plan, pool, context, unitState, firstErr, facts, result, outputs>>

LoopEnds ==
  /\ main = "loop" /\ (work # "live" \/ wave \notin DOMAIN levels)
  /\ main' = "merge"
  /\ UNCHANGED <<inputs, plan, pool, context, unitState, firstErr, facts, result, outputs>>

\* Mutant of Merge: the final ctx.Err() is not consulted.
MergeForgetsDeadline ==
  /\ main = "merge"
  /\ runErr' = firstErr
  /\ main' = "report"
  /\ UNCHANGED <<inputs, plan, pool, context, unitState, firstErr, facts, result,
                 panicked, exit>>

Merge ==
  /\ main = "merge"
  /\ runErr' = IF firstErr # NoErr THEN firstErr
               ELSE IF deadline THEN "deadline" ELSE NoErr
  /\ main' = "report"
  /\ UNCHANGED <<inputs, plan, pool, context, unitState, firstErr, facts, result,
                 panicked, exit>>

\* Mutant of Incomplete: the timeout is a diagnostic only, not part of the status.
IncompleteByResults == \E r \in roots : result[r] = "truncated"

\* Status.Incomplete of the merged status, after WithTimeout.
Incomplete == runErr = "deadline" \/ \E r \in roots : result[r] = "truncated"

\* Which diagnostics match fail_on is not modelled here: either answer is possible.
Report ==
  /\ main = "report"
  /\ main' = "done"
  /\ exit' \in IF runErr \notin {NoErr, "deadline"} THEN {"invalid"}
               ELSE {"internal", "ci"} \cup
                    (IF FailOnIncomplete /\ Incomplete THEN {} ELSE {"ok"})
  /\ UNCHANGED <<inputs, plan, pool, context, unitState, firstErr, facts, result,
                 runErr, panicked>>

\* A panic of the main goroutine reaches the recover of Main.
MainPanic ==
  /\ Running /\ main # "wait"
  /\ panicked' = TRUE
  /\ main' = "done" /\ exit' = "internal"
  /\ UNCHANGED <<inputs, plan, pool, context, unitState, firstErr, facts, result, runErr>>

-----------------------------------------------------------------------------
(* A worker goroutine *)

Holds(w, u, s) == Running /\ w \in alive /\ job[w] = u /\ stage[u] = s
Idle(w) == Running /\ w \in alive /\ job[w] = NoUnit

Move(u, s) == stage' = [stage EXCEPT ![u] = s]
Release(w) == job' = [job EXCEPT ![w] = NoUnit]
Return(w) == alive' = alive \ {w} /\ Release(w)

\* err is about to be passed to fail.
Stop(u, e) == Move(u, "failing") /\ err' = [err EXCEPT ![u] = e]

TakeJob(w) ==
  /\ Idle(w)
  /\ \E u \in jobs :
       /\ \A v \in jobs : u <= v
       /\ jobs' = jobs \ {u}
       /\ job' = [job EXCEPT ![w] = u]
       /\ Move(u, "claimed")
  /\ UNCHANGED <<inputs, plan, alive, context, main, err, program, firstErr, facts, result,
                 outputs>>

\* Mutant of NoMoreJobs: the wave's channel is not closed.
NoMoreJobsUnclosed(w) ==
  /\ Idle(w) /\ jobs = {} /\ work # "live"
  /\ Return(w)
  /\ UNCHANGED <<inputs, plan, jobs, context, main, unitState, firstErr, facts, result,
                 outputs>>

\* The channel is closed and drained.
NoMoreJobs(w) ==
  /\ Idle(w) /\ jobs = {}
  /\ Return(w)
  /\ UNCHANGED <<inputs, plan, jobs, context, main, unitState, firstErr, facts, result,
                 outputs>>

\* workCtx.Err() at the head of the loop body.
CheckWork(w, u) ==
  /\ Holds(w, u, "claimed")
  /\ IF work # "live" THEN Move(u, "dropped") /\ Return(w)
                      ELSE Move(u, "classify") /\ UNCHANGED <<alive, job>>
  /\ UNCHANGED <<inputs, plan, jobs, context, main, err, program, firstErr, facts, result,
                 outputs>>

\* classifySourceExclusions asks ctx before a file, so it may not see a late expiry.
Classify(w, u) ==
  /\ Holds(w, u, "classify")
  /\ \/ \E e \in {"error"} \cup ({work} \ {"live"}) :
          Stop(u, e) /\ UNCHANGED <<job, result>>
     \/ Move(u, "load") /\ UNCHANGED <<job, err, result>>
     \/ /\ Move(u, "excluded") /\ Release(w) /\ UNCHANGED err
        /\ result' = IF u \in roots THEN [result EXCEPT ![u] = "excluded"] ELSE result
  /\ UNCHANGED <<inputs, plan, jobs, alive, context, main, program, firstErr, facts, outputs>>

\* loadOneFiltered asks ctx once more after type checking.
Load(w, u) ==
  /\ Holds(w, u, "load")
  /\ \/ \E e \in {"error"} \cup ({work} \ {"live"}) : Stop(u, e)
     \/ work = "live" /\ Move(u, "build") /\ UNCHANGED err
  /\ UNCHANGED <<inputs, plan, pool, context, main, program, firstErr, facts, result, outputs>>

\* BuildContext polls ctx; what it had finished is in the program it returns.
Build(w, u) ==
  /\ Holds(w, u, "build")
  /\ Move(u, "built")
  /\ \/ \E p \in {"truncated", "whole"} :
          program' = [program EXCEPT ![u] = p] /\ UNCHANGED err
     \/ \E p \in {"nothing", "partial"} :
          /\ work # "live"
          /\ program' = [program EXCEPT ![u] = p]
          /\ err' = [err EXCEPT ![u] = work]
  /\ UNCHANGED <<inputs, plan, pool, context, main, firstErr, facts, result, outputs>>

\* facts.recordPackage: all the completed functions of the package, under its lock.
Record(w, u) ==
  /\ Holds(w, u, "built")
  /\ Move(u, "recorded")
  /\ IF program[u] = "nothing" THEN UNCHANGED facts ELSE facts' = facts \cup {u}
  /\ UNCHANGED <<inputs, plan, pool, context, main, err, program, firstErr, result, outputs>>

Keep(w, u) ==
  /\ Holds(w, u, "recorded")
  /\ result' = IF u \in roots /\ program[u] # "nothing"
               THEN [result EXCEPT ![u] = program[u]] ELSE result
  /\ IF err[u] = NoErr THEN Move(u, "done") /\ Release(w)
                       ELSE Move(u, "failing") /\ UNCHANGED job
  /\ UNCHANGED <<inputs, plan, jobs, alive, context, main, err, program, firstErr, facts,
                 outputs>>

\* Mutant of Fail: no errOnce, the last error wins.
FailOverwrites(w, u) ==
  /\ Holds(w, u, "failing")
  /\ firstErr' = err[u]
  /\ work' = IF work = "live" THEN "canceled" ELSE work
  /\ Move(u, "failed") /\ Return(w)
  /\ UNCHANGED <<inputs, plan, jobs, deadline, main, err, program, facts, result, outputs>>

\* fail: errOnce keeps the first error and cancels workCtx; the worker returns.
Fail(w, u) ==
  /\ Holds(w, u, "failing")
  /\ firstErr' = IF firstErr = NoErr THEN err[u] ELSE firstErr
  /\ work' = IF firstErr = NoErr /\ work = "live" THEN "canceled" ELSE work
  /\ Move(u, "failed") /\ Return(w)
  /\ UNCHANGED <<inputs, plan, jobs, deadline, main, err, program, facts, result, outputs>>

\* Nothing recovers a panic of a worker: the runtime ends the process with status 2.
WorkerPanic(w) ==
  /\ Running /\ w \in alive
  /\ panicked' = TRUE
  /\ main' = "crashed" /\ exit' = "invalid"
  /\ UNCHANGED <<inputs, plan, pool, context, unitState, firstErr, facts, result, runErr>>

UnitStep(w, u) ==
  \/ CheckWork(w, u) \/ Classify(w, u) \/ Load(w, u) \/ Build(w, u)
  \/ Record(w, u) \/ Keep(w, u) \/ Fail(w, u)

WorkerStep(w) == TakeJob(w) \/ NoMoreJobs(w) \/ \E u \in units : UnitStep(w, u)

MainStep == \/ Setup \/ PlanLevel \/ PlanDone
            \/ StartWave \/ WaveDone \/ LoopEnds \/ Merge \/ Report

\* The process has ended.
Ended == ~Running /\ UNCHANGED vars

Next == \/ MainStep \/ Deadline \/ MainPanic
        \/ \E w \in Workers : WorkerStep(w) \/ WorkerPanic(w)
        \/ Ended

\* The Go scheduler runs every runnable goroutine; no library call blocks for ever.
Fairness == WF_vars(MainStep) /\ \A w \in Workers : WF_vars(WorkerStep(w))

Spec == Init /\ [][Next]_vars /\ Fairness

-----------------------------------------------------------------------------
(* Properties *)

(* No source file is diagnosed twice: a package and the variant that       *)
(* compiles the same files again are never both roots                      *)
(* (selectAnalysisRoots' comment on production files).                     *)
NothingTwice ==
  \A p, v \in roots : ~(listing[v].forTest = p /\ listing[v].name = listing[p].name)

(* Without tests, every package outside the Go distribution that a root    *)
(* can reach a function of, however far down, is summarised from its       *)
(* source (docs/limitations.md on standalone summaries).                   *)
ReachableSourceSummarised ==
  ~includeTests => \A r \in roots : \A d \in Needed(listing, r) \cap DOMAIN listing :
                     listing[d].source /\ ~listing[d].standard => d \in units

(* docs/tutorial.md: with -tests, same-package tests and external test     *)
(* packages are analysed.                                                  *)
EveryTestAnalysed ==
  includeTests => \A v \in DOMAIN listing :
    (listing[v].forTest # NoPath /\ ~listing[v].depOnly /\ listing[v].source) => v \in roots

\* u's summaries are in the store, or u has no source left to summarise.
Committed(u) == u \in facts \/ stage[u] = "excluded"

\* The units u depends on along imports between units.
DependsOn(u) ==
  {d \in units : \A S \in SUBSET units :
     (deps[u] \subseteq S /\ \A p \in S : deps[p] \subseteq S) => d \in S}

(* While BuildContext runs on a package, and may ask the store for any     *)
(* function it can name, everything the package depends on through         *)
(* selected packages has committed its summaries: the waves, the wait at   *)
(* the end of each and the tests for failure and cancellation between them *)
(* together leave no schedule in which a lookup comes too early.           *)
DependencyFirst ==
  \A u \in units : stage[u] = "build" => \A d \in DependsOn(u) : Committed(d)

(* The same for everything the package can reach through export data,      *)
(* selected on the way or not: docs/architecture.md says the waves are     *)
(* dependency-first.                                                       *)
NeededFirst ==
  \A u \in units : stage[u] = "build" =>
     \A d \in (Needed(listing, u) \cap units) \ {u} : Committed(d)

(* No package's summaries change while a package that depends on it is     *)
(* being built: what a lookup answers does not depend on when it is made.  *)
SummariesStable ==
  [][\A u \in units : stage[u] = "build" =>
        DependsOn(u) \cap facts' = DependsOn(u) \cap facts]_vars

(* The error a run ends with is a cause and never the echo of another      *)
(* worker's failure: it is some package's own error, or the deadline after *)
(* it has passed, and never the cancellation that fail spreads.            *)
ErrorIsACause ==
  /\ firstErr # NoErr => /\ firstErr # "canceled"
                         /\ \E u \in units : stage[u] = "failed" /\ err[u] = firstErr
  /\ runErr # "canceled"
  /\ "deadline" \in {firstErr, runErr} => deadline

(* With fail_on_incomplete, exit code 0 means that nothing was left out:   *)
(* every selected package was summarised or excluded as a whole, and the   *)
(* slot of every requested one holds a result that no bound and no         *)
(* deadline cut short.                                                     *)
OkMeansWhole ==
  FailOnIncomplete /\ exit = "ok" =>
    /\ \A u \in units : stage[u] \in Settled
    /\ \A r \in roots : result[r] \in {"excluded", "whole"}

(* docs/specification.md: internal panics are caught in standalone mode,   *)
(* and exit code 3 stands for an internal failure.                         *)
PanicsAreCaught == panicked => exit = "internal"

\* What AnalysisOrder sees of a run.
Begun == {u \in units : stage[u] \notin {"waiting", "queued", "claimed", "dropped"}}
SettledUnits == {u \in units : stage[u] \in Settled}
Verdict == CASE exit = "none" -> "running"
             [] exit \in {"invalid", "internal"} -> "rejected"
             [] OTHER -> IF runErr = NoErr THEN "whole" ELSE "cut"

Order == INSTANCE AnalysisOrder WITH
  need <- deps, begun <- Begun, settled <- SettledUnits, verdict <- Verdict

(* The run implements AnalysisOrder: a package is begun when what it       *)
(* imports is settled, and the verdict is whole only if all are settled.   *)
RefinesOrder == Order!Spec

(* Every run ends: no worker waits for a job that will not come, and the   *)
(* main goroutine never waits for a worker that has stopped.               *)
Terminates == <>(exit # "none")
=============================================================================
