# A TLA+ model of Lifeline

Lifeline is a conservative static analyzer for the lifecycles of goroutines in
Go programs.  It reports lost cancel functions (LL1001), goroutines caught in
a loop nothing stops (LL1002), wait groups and error groups nobody joins
(LL1003, LL1004), waits placed before the stop they wait for (LL1005), and its
own incompleteness (LL9001).  It runs as `lifeline ./...` (standalone) or under
`go vet -vettool`.

Every diagnostic depends on the answer to a question about *all* paths or *all*
functions: is `cancel` called on every path, has every dependency of this
package been summarised, does anybody still hold this handle.  The tests give
examples; the modules here state the questions, and check and prove the
answers.  Line numbers are those of the repository; `PROJECT.json` maps each
definition to the lines it models.

## 1. The system

```
 go list ──> selection ──> waves ──> worker pool ──────────────┐
 (loader.go)                          │ per package            │ summaries
                                      v                        v
                      frontend: pre-passes over the functions  fact store
                        ├ parameter effects   (worklist) <──── lookups
                        ├ constructor ownership (worklist)
                        └ buildFunction ── control flow graph (cfg.go)
                                             └ queries (model.go)
                                      v
                      engine: verdicts, status ──> report, exit code
 go vet ──> analyzer.run ── facts in/out ──> the same frontend and engine
```

| component (source) | state | operations | hard behaviour | what makes it correct |
|---|---|---|---|---|
| package selection (`standalone/loader.go` 386-441, 832-891) | none; a function of the `go list` answer | `selectAnalysisRoots`, `selectAnalysisUnits` | tests are answered as variants and a synthetic main | no file twice, nothing left out |
| standalone run (`loader.go` 454-773, `main.go`) | waves, channel, workers, work context, first error, results | plan, start a wave, take a job, classify, load, build, record, keep, fail, merge, report | concurrency, failure, deadline, panics | dependency order, stable summaries, the cause is reported, exit 0 is complete, the run ends |
| `go list` process and JSON stream (`loader.go` 777-950) | a bounded buffer | decode, report errors | partial output | — |
| shared importer (`loader.go` 239-286) | map of packages under a mutex | import | all workers share it | one identity per package |
| graph builder (`cfg/cfg.go`) | blocks, edges, frames, labels, current block | one operation per statement form | jumps out of nested statements, dead code | the graph has the paths the function has |
| graph queries (`model/model.go`) | none | reachability, reachability avoiding blocks or edges, components | cycles, parallel edges | exact on every graph |
| loop verdict (`engine/cfg_verdict.go`) | none | `UnresolvedLoop` | several loops in one body | reported iff the goroutine can be caught |
| parameter effects (`frontend.go` 1896-2377) | summary per function, worklist | evaluate a function | recursion, order of evaluation, invoked literals, `max_functions` | summaries are what the functions do |
| constructor ownership (`frontend.go` 4635-5521) | sites, verdicts per call, worklist, findings | evaluate a function, resolve imported obligations, build a function | wrappers of wrappers, many callers, other packages | each dropped handle is reported, and nothing else |
| group balances (`frontend.go` 5553-6177) | a tally per group, loop and round | add, done, go, fold the arms of a branch, close a loop | loops and branches nobody ran, several rounds on one group | a mismatch is claimed only when every execution has it |
| exit and stop ordering (`frontend.go` 6398-6906, 8416-8549) | sites of calls in the graph | `calledOnAllPaths`, `joinedOnAllPaths`, `computeStopOrdering` | deferred calls, error branches, loops | called or joined on all paths, stop before wait, as the executions do |
| stop signals of workers (`frontend.go` 6953-8403) | indices of what variables and fields may hold; memoised summaries of helpers | ask, search, keep; collect sources; judge | cycles of helpers, question order, aliases | a worker's sources cover every execution; an answer that is kept is true |
| handle following inside a body (`frontend.go` 3323-4600) | captures with generations, memo and stack of receiver summaries | classify a use, follow a method or argument | recursion, the depth bound, `go`, stores | what is reported is called nowhere, what is credited is called |
| engine, status and the two drivers' runs (`engine/engine.go`, `status.go`, `timeout.go`, `analyzer.go`) | what the built units carry, findings at callers, results | index, build, attach, cut, report, finish | the function bound, the deadline, suppression, callers in other units | nothing that is not known to be clean leaves no trace |
| data flow solver (`model/dataflow.go`, `engine/dataflow_lattices.go`) | out values, worklist | solve | back-edges, a block that still has bottom | every block has the join over its paths |
| configuration, report, rendering, version, command | — | formatting and parsing | — | not modelled |

The components meet in four places.  Workers share the fact store: one worker
commits a package's summaries while others look functions up.  The pre-passes
share the tables of effects and sites, which `buildFunction` reads when they
are final.  The engine reads graphs and bindings; findings that a constructor's
unit makes are attached to its callers' units at the end.  Packages meet through
facts: what one run exports is what another imports.

## 2. Modules

| module | models | state and actions |
|---|---|---|
| `PackageSelection` | selection | operators from a listing to roots, units and dependencies |
| `StandaloneRun` | waves, workers, store, failure, deadline, exit code | one action per step of the main goroutine and of a worker; `Deadline`, `MainPanic`, `WorkerPanic` by the environment |
| `AnalysisOrder` | what a run promises of its packages | abstract specification: begin after what is needed is settled |
| `GraphSearch` | `Reachable`, `CanReach`, `ReachableAvoiding`, `ReachableAvoidingEdges` | one action: visit a block of the worklist |
| `LoopVerdict` | `SCCs`, `IsPersistentSCC`, `UnresolvedLoop` | Tarjan's algorithm with its recursion as an explicit stack |
| `DataflowSolve` | `model.Solve` with the engine's lattices | one action: a block of the queue |
| `GraphAnalyses` | `SummarizeTermination`, and the solver and the search by themselves | composes the three modules above: components, search forward, search backward, verdict |
| `CfgBuild` | the builder | operators from an abstract syntax to a graph with call sites |
| `CfgExecution` | the language the builder must be true to | one action: a step of the execution of a body |
| `CallRoles` | calls that cancel, start, wait, stop, add or are deferred | operators |
| `ExitOrder` | `computeOrdering`: exits, joins, stops and waits | operators on the graph of a body |
| `GroupBalance` | `computeGroupBalances`, `computeGroupRoundBalances` | operators on the syntax of a body |
| `ParamEffects` | effects of parameters | one action: evaluate a queued function |
| `Constructors` | ownership of returned handles | `Evaluate`, `ResolveImported`, `Build` |
| `HandleUses` | field captures of one struct variable, summaries of methods and helpers | one action per kind of use; entering, cutting and leaving a summary |
| `SignalSummaries` | what helpers do with a channel or holder: received, must close, context fields | `Ask`, the steps of a search, `Answer` |
| `StopSignals` | which signals stop a group's workers (LL1005) | questions first, then the verdict, then one action per statement of the owner's execution |
| `RunStatus` | `BuildContext` under bound and deadline, engine, status, policies | `Start`, `Index`, `Build`, `Attach`, `Cut`, `Report`, `Finish`, `DeadlinePasses` |

`StandaloneRun` extends `PackageSelection` and is shown to implement
`AnalysisOrder` through an `INSTANCE` with a refinement mapping (`Begun`,
`SettledUnits`, `Verdict`).  `GraphAnalyses` extends `GraphSearch` and
instantiates `LoopVerdict` and `DataflowSolve`.  `CfgExecution` extends
`CfgBuild`, and asks of its graphs the questions that `GraphAnalyses` shows to be
answered exactly; `CallRoles` extends it, and `ExitOrder` and `GroupBalance` extend
that.  `StopSignals` extends `SignalSummaries`.  The `MC*` modules give the constants values.  Operators whose name
starts with that of another and whose comment begins "Mutant of" are plausible
mistakes; they are never used by a specification and serve to show that a
property would notice.

How the state corresponds to the code:

* `StandaloneRun`: `levels`, `jobs`, `firstErr`, `work` and `result` are the
  variables of `analyzePatterns` with those meanings (`levels`, `jobs`,
  `firstErr`, the state of `workCtx`, `results`); `stage[u]` is where the worker
  that holds `u` is in its loop body; `facts` is the set of packages
  `recordPackage` was called for.  A step of a worker ends where another
  goroutine can see a difference: at the channel, the store, `fail`, the context.
* `LoopVerdict`: `index`, `low`, `stack` are those of `strongConnect`; `calls` is
  the goroutine's own call stack with the successors each call has still to visit.
* `CfgBuild`: the record `b` is the `builder` struct; a block is the number of its
  instructions, because the code only ever compares positions.  Edge kinds and
  labels, spans and rendering are left out.
* `ParamEffects`: a function body is the set of its paths, and a path the set of
  events on it (cancel, store, return, pass to a function, invoke a literal that
  calls one).  What the code finds with its path-avoiding search in the body is
  "every path has such an event" here; that the search is exact is `GraphSearch`.
* `Constructors`: `sites`, `verdicts`, `findings` are `returnFieldInfo` (with its
  index `returnFieldsByFunc`), `callerVerdicts` and `callerFindings`.  A call is
  given with the uses its caller makes of the handle on each path, the result of
  `walkFieldCaptureUses` and `liveExitReachable`.
* `HandleUses`: `memo` and `stack` are `receiverSummaries` and `receiverStack`;
  `low` in a frame is the depth of the lowest frame a recursion was cut at, by
  which `handleSummaryOf` decides what may be kept; `credited` are the captures
  marked consumed.
* `SignalSummaries`: `memo` is the three maps of answers, `stack` the calls under
  way.  A body is the list of what it does with its parameter, in source order.
* `StopSignals`: the sources the indices give are operators on the owner's text, and
  an index is a function over how many statements have been read, each entry made
  of the one before.  What a pointer is one with, and which contexts are
  derived from which, are least closed sets: the code follows edges with a set of
  what it has seen.
  `holds`, `points`, `derived`, `stopped` are the store of an execution of it.
* `RunStatus`: units are numbered as `BuildContext` keeps them; `recorded` is what
  the functions of `program.Functions` carry, `findings` is `callerFindings`.
  What a binding is (how it is discharged, whether it escapes, the verdict on
  each call that receives it) is given; the modules above find it.  A call that
  cannot be followed is `"unverified"`: `callerSitesFor` leaves it out (`SitesSeen`),
  and the calls it keeps decide what is written on the constructor (`Settled`).

## 3. What the runs check

All passing runs together fire every action.  Deadlock is checked in
`standalone`, `selection` and `handles`; the other modules model algorithms that stop when
their worklist is empty or the function returns, and `Terminates` says of the two
worklists that they stop where they should.

| run | module | bounds | states |
|---|---|---|---|
| `selection` | `MCPackageSelection` | every answer about a package, its tests, and a chain of two dependencies, with `-test` and without | 448 |
| `standalone` | `MCStandaloneRun` | seven listings of up to five packages, with tests and without, two workers | 90,512 |
| `graphs` | `MCGraphAnalyses` | all graphs of three blocks with a parallel edge, all starts, avoided blocks, skipped edges; 2048 graphs of five blocks; all equations on four blocks | 345,129 |
| `bodies` | `MCBodies` | 23,000 function bodies | 340,988 |
| `effects` | `MCParamEffects` | 5112 packages of three functions | 93,152 |
| `constructors` | `MCConstructors` | 8640 packages of four functions and one imported | 280,012 |
| `handles` | `MCHandleUses` | 50,230 packages of four self variables and an owner, depth bound 3 | 283,151 |
| `signals` | `MCStopSignals` | three helpers with every question order; owners of up to six statements | 879,622 |
| `status` | `MCRunStatus` | two packages, function bound 1 to 3, the deadline at every moment, both drivers | 830,784 |

What they show:

* **selection** — a package and the variant that compiles it again are never both
  diagnosed (`NothingTwice`), and without tests every package with source outside
  the Go distribution that a root reaches is summarised
  (`ReachableSourceSummarised`).  The properties are about the initial states of
  `StandaloneRun`, which this run enumerates without running the waves.
* **standalone** — a lookup never comes before the commit it needs
  (`DependencyFirst`), a summary never changes under a reader
  (`SummariesStable`), the error reported is a cause, not the cancellation it
  spread (`ErrorIsACause`), exit code 0 with `fail_on_incomplete` vouches for
  everything (`OkMeansWhole`), the run implements `AnalysisOrder`
  (`RefinesOrder`), and it ends (`Terminates`).
* **graphs** — the search and Tarjan's algorithm compute what the
  textbook definition says (`SearchIsExact`, `ComponentsExact`), in any order of
  successors, and the verdict drawn from the components and two searches is that
  a reachable cycle has no way out (`VerdictIsTrap`).  The solver gives each block
  the join over all paths to it, through back-edges too (`SolveIsExact`).
* **bodies** — the builder and an interpreter written from the Go language run
  on the same bodies.  Each step of an execution is found in the graph
  (`PathsAreThere`); "always before", "can still return" and "can be caught in a
  loop", asked of the graph, are what all the executions do (`OrderIsExact`,
  `ExitIsExact`).  The bodies nest a jump of each kind in each kind of statement
  inside each kind of labelled statement; dead code follows the terminating
  statements.  Other bodies acquire, check an error, cancel, start workers, wait
  and stop, directly or deferred: "called on all paths" and "joined on all
  paths" are what the executions do (`CleanupIsExact`, `JoinIsExact`), and LL1005
  never contradicts one (`StopOrderHolds`).  Others count a group: a mismatch or
  an unjoined round is claimed only if every execution has one, and exactly then
  when the body is straight (`MismatchIsProved`, `UnjoinedIsReal`).
* **effects** — no summary outside the queue is stale (`NoStaleSummary`), and the
  final ones are what the functions do, in every order of evaluation
  (`SummariesExact`), with the exceptions its definition names; the worklist
  ends (`Terminates`).
* **constructors** — no caller is left with outdated knowledge (`NoStaleCaller`), a
  dropped handle is reported whatever other callers do (`NoLeakIsMissed`), what is
  reported is dropped (`AlarmsAreReal`), the exported summary is exact
  (`ExportIsExact`), and the worklist ends (`Terminates`).  `HandsOut`, `Leaks` and
  `Forwards`, which these are stated with, look only at the program and never at
  the tables of the analysis.
* **handles** — a summary that is kept is what the functions do, whatever recursion
  there is, whoever asked first and however deep the stack was
  (`SummariesExact`); a handle reported as never called is called nowhere
  (`ReportsAreReal`), and one that is credited is called (`CreditsAreReal`: a
  call in dead code is credited, so the owner must have none).
* **signals** — a kept "yes" is true in every order of questions (`YesIsReal`), a
  "no" outside cycles of helpers too (`NoIsRealOutsideCycles`), and the context
  fields of a helper are exact (`FieldsExact`), because answers cut short by a
  cycle are not kept.  What a worker is on in any execution is among its sources
  (`SourcesCover`), and LL1005 is reported only if no worker was stopped before
  the wait (`LateIsReal`).
* **status** — whatever is not known to be clean is in the report, hidden with a
  note, counted as assumed, or the run is incomplete (`OnlyOverlookedIsLost`); with
  the strict policies exit code 0 means a clean program (`StrictExitIsClean`).  Both
  except the calls `Overlooked` names, which the code takes for checked although
  nobody looked: those that could not be followed, beside one that was, and all
  of a handle that had escaped before.  They are in the run; callers beside them are still
  reported, and a constructor none of whose callers can be followed is counted.  A
  package is incomplete exactly if it was cut (`IncompleteIsExact`); one
  obligation is reported in one place (`ReportedOnce`).

Why the bounds are enough: waves interact only through the store, the context
and the first error, so two workers and a wave of three show every race between
two units, and a fourth package the effect on the next wave.  A worklist can go
wrong through a missing dependency, a cycle or an order; three functions
give all cycles of length one to three, four a chain of two wrappers with two
callers.  Searches go wrong at the start, at an avoided block, at a parallel
edge or on a cycle; three blocks have all four.  A summary memo goes wrong when a
search is cut by a cycle and asked again from elsewhere; three helpers have two
overlapping cycles, and a chain of four is deeper than the bound of three.  The
engine judges bindings one at a time, and they meet only in the merged status
and at callers, so one binding of every kind in each place is enough.  Where the
bounds are not the argument, the proofs of section 5 are.

What the passing runs leave out because the code is known to answer otherwise
there is named with each property, and in the next section.

* `bodies`: groups' waits stand at the top of the body and are not deferred, a
  loop is left between an Add and the start of its worker, and no call but Add,
  Done, Wait and go gets the group.
* `handles`: stores by the owner only; reads under an `if` only of what a
  straight store left.
* `signals`: the owner has conditions and no loops, a holder has one field, helpers
  take one parameter.  Every owner satisfies `Followed` (a pointer is assigned at
  most once, channels that were passed are not replaced, a context is made once,
  from a variable) and `ClosersEnd` (what the owner closes through calls into no
  cycle).  Without any one of their conditions TLC finds an owner that the
  property is false of.
* `status`: a binding's variable is declared in the unit that assigns it.  What
  happens to overlooked calls is excepted in the properties, not left out of the
  run.

### Disagreements

Three have a run of their own, which finds the counterexample:

| run | what it shows |
|---|---|
| `effects_recursion` | in mutual recursion a function is recorded to cancel always although its partner may return first (`frontend.go:2196`) |
| `later_wait` | a group's second round is reported as never joined although a deferred wait, or one in both arms of a branch, joins it (`frontend.go:5796`) |
| `status_escaping` | a constructor's handle that also escapes is neither reported at callers that drop it nor counted, so a strict run exits 0 (`frontend.go:4673`) |

For others there is a configuration to look at the counterexample with:

| `tlc -config` | what it shows |
|---|---|
| `PackageSelectionTests.cfg MCPackageSelection` | a package whose only files are tests is not analysed with `-tests` (`loader.go:879`; `docs/tutorial.md:339`) |
| `StandaloneRunTests.cfg MCStandaloneRun` | with `-tests`, two packages can land in one wave although one needs the other's summaries through a package replaced by its variant (`loader.go:470`; `docs/architecture.md:50`) |
| `StandaloneRunPanic.cfg MCStandaloneRun` | a panic in a worker is not caught by `Main`'s recover (`loader.go:674`; `docs/specification.md:190`) |
| `ConstructorsUnfollowed.cfg MCConstructors` | a caller that cancels on its error path and returns the handle otherwise is reported (`frontend.go:5414`; `docs/limitations.md:62`) |
| `HandleUsesOverwritten.cfg MCHandleUses` | a cancel function overwritten in its field counts as called when the one that replaced it is (`frontend.go:4275`; `docs/limitations.md:28`) |
| `RunStatusUnfollowed.cfg MCRunStatus` | `NothingIsLost`: of a constructor with one caller that is followed and one that is not, the second is neither reported nor counted, so a strict run exits 0 (`frontend.go:4743`, `status.go:159`; `status.go:61`) |
| `StopSignalsParameters.cfg MCStopSignals` | the first assignment to a channel parameter replaces the value it came with as a source (`frontend.go:7766`; comment at 7693) |

And some were met while reading and have no counterexample here:

* A `fallthrough` with a label, or with an empty statement after it, is not
  recognised (`cfg.go:704`), and the graph lacks the way into the next case.
* `docs/limitations.md:44` has mismatches reported only when every Add and Done
  is accounted for; a helper called with the group, or a literal invoked at once,
  is passed over by `walkGroupBalanceStmt`.
* `stopProvenAfterWait` calls its test "necessary and sufficient" (8404-8411); a
  stop in the block of a later wait, behind a block that always waits, is missed.
* The source index says one pass in source order is enough (7374); in a loop it
  is not, and a context derived from an alias hides its parent's earlier cancel.
* `docs/limitations.md:65` has a cancel function that is declared outside a
  literal and assigned inside it judged by the enclosing function;
  `collectBindings` skips literals, so nobody judges it.
* `go f()` can be judged differently when `f` is declared after its caller: a
  summary made early knows only the contexts among f's parameters (8596, 1079).
* `attachCallerFindings` tells findings apart by function name and file offset
  but not by file (4787-4886).
* A group that escapes and is joined with a mismatch is neither reported nor
  counted (`status.go:159`).
* A constructor that cancels on its error path and returns the handle otherwise
  is itself reported (3806); a handle kept in two fields is judged for each field
  apart (4737).
* Inside an invoked literal a function not evaluated yet is taken as opaque for
  good (1594), and one beyond `max_functions` contributes nothing (2953).

## 4. Fairness

* `StandaloneRun`: weak fairness of the main goroutine's steps and of each
  worker's.  The Go scheduler runs every runnable goroutine, and the calls a
  step stands for return: parsing and type checking work on finite input, and
  loading and building poll the context.  No fairness on `Deadline` or on panics.
* `GraphSearch`, `ParamEffects`, `Constructors`: weak fairness of
  `Next`.  They are loops of one goroutine; while there is something to do it
  is done, in an order the fairness does not choose.
* The others: none.  Executions, drivers and deadlines may stop anywhere, and the
  properties are safety.

## 5. What is proved

The theorems hold for every value of the constants; each `*_proofs` module
extends the module it is about.

| theorem | property | rests on |
|---|---|---|
| `StandaloneRun_proofs!NoFileTwice`, `SourceSummarised` | `NothingTwice`, `ReachableSourceSummarised` | `SelectionFixed`, `VariantsAssumption` |
| `StandaloneRun_proofs!TypeCorrect` | (`TypeOK`) | `SelectionTypes` |
| `OnlyCauses`, `ZeroMeansWhole`, `LookupsComeAfter`, `LookupsAreStable` | `ErrorIsACause`, `OkMeansWhole`, `DependencyFirst`, `SummariesStable` | the inductive invariant `IInv` |
| `ImplementsOrder` | `RefinesOrder` | `IInv`: each step is a step of `AnalysisOrder` or a stutter |
| `ReachedComesAfter` | (`NeededFirst`), if the selection is closed under imports | `LookupsComeAfter` |
| `GraphAnalyses_proofs!SearchTypes`, `SearchCorrect` | (`TypeOK`), `SearchIsExact` | seen blocks lead to seen or stacked ones |
| `LoopVerdict_proofs!TarjanIsExact`, `UnresolvedIsTrap` | `ComponentsExact`, and the verdict in terms of it | `TarjanInv` |
| `GraphAnalyses_proofs!SearchesCorrect`, `ComponentsCorrect`, `VerdictCorrect` | `SearchIsExact`, `ComponentsExact`, `VerdictIsTrap`, of the composition | `AnalysesInv`, and the two lines above |
| `GraphAnalyses_proofs!SolveCorrect` | `SolveIsExact` | `SolveInv` |
| `ParamEffects_proofs!TypeCorrect`, `NeverStale` | (`TypeOK`), `NoStaleSummary` | an evaluation reads only the summaries of its callees |
| `ParamEffects_proofs!NothingInvented` | (`Grounded`) | a recorded cancellation has a call behind it |
| `ParamEffects_proofs!SummariesCorrect` | `SummariesExact` | `NeverStale`, `HandsSound`, `MustSound` |
| `Constructors_proofs!TypeCorrect`, `NeverStale` | (`TypeOK`), `NoStaleCaller` | an evaluation reads only the sites of its callees |
| `NoLeakMissed`, `AlarmsReal`, `ExportExact` | `NoLeakIsMissed`, `AlarmsAreReal`, `ExportIsExact` | `Facts` and `Outcome` |
| `HandleUses_proofs!TypeCorrect`, `SummariesCorrect` | (`TypeOK`), `SummariesExact` | `Inv`: `StackOK`, `LinksOK`, `MemoOK` |
| `HandleUses_proofs!ReportsCorrect`, `CreditsCorrect` | `ReportsAreReal`, `CreditsAreReal` | `OwnerOK` |
| `StopSignals_proofs!YesCorrect`, `NoCorrect`, `FieldsCorrect` | `YesIsReal`, `NoIsRealOutsideCycles`, `FieldsExact` | `SearchesInv` |
| `StopSignals_proofs!SourcesCorrect` | `SourcesCover`, if `Followed` | `SignalsInv` |
| `StopSignals_proofs!LateCorrect` | `LateIsReal`, if `Followed` and `ClosersEnd` | `SignalsInv` |
| `RunStatus_proofs!OnlyOverlookedLost`, `StrictIsClean` | `OnlyOverlookedIsLost`, `StrictExitIsClean` | `IInv` |
| `RunStatus_proofs!NothingLost` | (`NothingIsLost`), if `Apart` and `AllOrNone` | `OnlyOverlookedLost` |
| `RunStatus_proofs!IncompleteExact`, `NeverTwice` | `IncompleteIsExact`, `ReportedOnce` | `IInv` |

A property in parentheses is in no passing run: the theorem replaces the run.

Assumptions are the named `ASSUME`s of the modules, which TLC evaluates in the
runs.  They type the constants: an answer of `go list` is a set of well-formed
records, a call leads to a function, `return` is not the name of a field, only a
group has a Wait, a binding stands in a unit of its package.  Some sets are
finite, because the code iterates over them: the workers, the blocks of a graph,
the values of a lattice, the functions of a package.  No edge enters the entry
block or leaves the exit block, as `cfg.Build` has it.  Programs, graphs, listings,
questions and their order are arbitrary, and so are `max_functions` and
`maxReceiverDepth`.  `go list` gives
variants only with `-test`, and a variant is of a package and not of a variant.

Four hypotheses are not on a constant.  `Apart`: no handle that is returned to
callers also escapes otherwise, which `status_escaping` shows to be needed.
`AllOrNone`: the callers of a constructor can all be followed or none can, which
`RunStatusUnfollowed.cfg` shows to be needed.  Only `NothingLost` rests on these two.
`Followed` and `ClosersEnd` say which owners the stop signals are right
about; all owners of the run `signals` satisfy both, and `StopSignalsParameters.cfg`
has one that does not.

The arguments:

* *StandaloneRun*.  `DependencyFirst` is not inductive: nothing in it says that a
  started wave was preceded by finished ones, or that a failure stops the next.
  `IInv` adds where the main goroutine can be (`PhaseInv`), that waves are
  disjoint and closed downwards (`PlanInv`), which errors can be where
  (`CauseInv`), who holds what (`PoolInv`), that all earlier waves are settled as
  long as nothing failed (`WaveInv`), and what a result slot can hold
  (`ResultInv`).  One lemma per part shows it preserved by every step.
* *GraphSearch*.  Everything seen is reached by a permitted path, and every way out
  of a seen block leads to a seen or a waiting one; with nothing waiting the seen
  set is closed, and so contains all that is reachable.
* *LoopVerdict*.  That a low link is the index of something below on the stack is not
  enough.  `TarjanInv` says that stack and open calls are in the order of the visits
  (`StackInv`, `CallInv`), that a block of the stack leads to all above it and to an
  open call below it (`PathInv`), that the low link of a call is the index of a
  block its block leads to (`LowInv`), that none of the ways seen so far leads
  lower (`BoundInv`), and that what was emitted is closed and consists of whole
  components (`ResultInv`).  A call whose low link is its own index has then above
  it on the stack exactly its component.  What a block leads to is the least closed
  set around it (`From`), so no induction along paths is needed.
* *DataflowSolve*.  `SolveInv` says that whatever a block has comes from a source
  whose value is carried to it, that a processed block that is not queued has what
  its predecessors pass on, and that the successors of a processed block have been
  queued.  With an empty queue every reached block has at least the join over its
  paths, and by the first part no more.
* *Worklists*.  Evaluating a function changes only what is known of that
  function, and an evaluation depends only on what is known of the functions
  called; so only callers can become stale, and these are queued.
* *ParamEffects*.  One direction is an invariant: what a summary says has an event
  behind it (`Grounded`, `HandsSound`), and no "must" is said where a path keeps
  the value, recursion aside (`MustSound`).  For the other, take among the functions
  that lack something one whose set of functions below (`Below`) is minimal; its
  summary is an evaluation of summaries that lack nothing, because nothing is
  stale.
* *Constructors*.  `Facts` relates the tables to the program: each site names a
  function that does hand out the obligation, through every field of it, and
  each verdict is that of a call on such a site.  `Outcome` says when findings
  are made and that they are all of `Findings`.  Completeness needs the converse
  of `Facts`: the functions with a site contain whoever creates the obligation and
  are closed under forwarding, because nobody is stale; `HandsOut` is the least
  such set.
* *HandleUses*.  A frame half way through a body knows neither what is left of it nor
  what a cut recursion hides.  What is done to a variable is a deed (`Deed`), and a
  set of variables keeps from a deed if none of them does it and calls lead out of
  the set only to variables named (`Aloof`).  `FrameComplete` says that every deed
  the frame has not recorded is kept from by such a set, and that calls lead out
  of it only to the variables of the stack from `low` upwards.  When the frame is
  left and `low` is its own place, the set with the variable added is closed, and
  the summary may be kept; when `low` is deeper, the set is handed to the frame
  below.  A frame that the depth bound cut, at any depth, has `low` 0 and escapes.
  `OwnerOK` says of the owner that each credited capture has a use that discharges
  it, and that up to `at` no use that might was passed over.
* *StopSignals*.  The same shape for three kinds of question.  Contexts that are read
  need more than the memo: what a frame below a cut has not got is what can be
  read apart from the frames above (`ReadsApart`).

  For the owner, the index is the value of a function defined by recursion over the
  number of statements; its equation is taken from the `CHOOSE` it stands for,
  after the function is shown to exist, and facts about all its entries by
  the least number without them.  `SourcesCover` is not inductive: a worker gets
  what is in the store.  `PointsOK` says that a pointer and the holder it points
  to have one root among the aliases (`Anchors`: a chain that ends, for a pointer
  that was assigned cannot be on a cycle), `HoldsOK` that the statements up to
  `pc` have put into the index whatever the execution has put into the store, and
  entries only grow from there.  `DerivedOK` and `StoppedOK` do the same for stops:
  whatever is stopped was stopped by a statement that the text relates to it, so
  by one of the signals; with the verdict "late" these stand after the wait, and
  before it nothing that a worker is on is stopped.
* *Selection*.  What is selected never changes.  A package whose variant has the same
  package name is no root (`RootIs`), and only a package proper has variants.
  Without tests everything listed is a package proper; if it has source outside
  the Go distribution it is a root when a pattern named it and a summary
  dependency when none did, so what the roots reach is a unit wherever it stands.
* *RunStatus*.  `BuildInv` and `CarryInv` say that what the built units carry and
  what the findings at callers blame are what the program holds in the units built,
  and nothing else, and `ReportInv` that the report is still what the units say.
  A call that drops its handle is then blamed if it was followed
  (`DroppedIsNamed`); if none was, the binding is counted where it is made
  (`UnfollowedIsCounted`).  What is left are the overlooked calls.

Model-checked only:

* all liveness (`Terminates` of `StandaloneRun`, `ParamEffects`, `Constructors`), because the
  prover has no rules for fairness here;
* the graph builder with everything that stands on it (`bodies`).  It is recursive over
  syntax, with operators that call each other; a recursive function over
  numbers, as in `StopSignals`, can be unfolded and reasoned about by least
  numbers, these cannot be.

## 6. What is not modelled, and the plan

Left out for good: parsing and formatting (configuration, reports, rendering,
the text of directives), `go list`'s process, spans and wording, the dumps' SSA.
Abstracted: the Go type checker (an event or use is given, not found).  In
`ParamEffects` variadic parameters, deferred calls and imported effects, and in
both pre-passes the groups, take the same route as what is modelled and have no
state of their own here.  In `HandleUses` other names of the struct variable,
promoted fields and literals in a return statement are left out; in
`GroupBalance` whether a helper calls Done is given with the go statement.  The
shared importer looks again, decodes and stores under one write lock, and has no
interleaving to check beyond that; the vet processes' status file relies on
`O_APPEND`.

Worth doing next:

1. The composition of `HandleUses` and `Constructors`: uses that are found instead
   of given.
2. The builder as a function over numbered statements instead of operators over
   syntax, so that what `bodies` checks comes within reach of the prover.
