------------------------ MODULE StandaloneRun_proofs ------------------------
(***************************************************************************)
(* Proofs about StandaloneRun, for every set of go list answers and every  *)
(* number of workers.                                                      *)
(***************************************************************************)
EXTENDS StandaloneRun, FiniteSetTheorems, TLAPS

LEMMA RootsListed ==
  ASSUME includeTests \in BOOLEAN, NEW L \in Listings[includeTests]
  PROVE  Roots(L, includeTests) \subseteq DOMAIN L
<1>1. \A b \in KeptBases(L) : PreferVariant(L, b) \subseteq DOMAIN L
  BY DEF PreferVariant, SameTest, Variants, KeptBases, Bases
<1>2. QED
  BY <1>1 DEF Roots, TestRoots, OrdinaryRoots, ExternalTests, Variants

LEMMA SelectionTypes ==
  ASSUME includeTests \in BOOLEAN, NEW L \in Listings[includeTests]
  PROVE  /\ Units(L, includeTests) \subseteq Paths
         /\ Roots(L, includeTests) \subseteq Units(L, includeTests)
<1>1. DOMAIN L \subseteq Paths
  BY ListingsAssumption DEF IsListing
<1>2. Roots(L, includeTests) \subseteq DOMAIN L
  BY RootsListed
<1>3. QED
  BY <1>1, <1>2 DEF Units, SummaryDependencies, DirectStandard

LEMMA InitType == Init => TypeOK
<1> SUFFICES ASSUME Init PROVE TypeOK
  OBVIOUS
<1>1. units \subseteq Paths /\ roots \subseteq units
  BY SelectionTypes DEF Init
<1>2. deps \in [units -> SUBSET units]
  BY DEF Init, Deps
<1>3. levels \in Seq(SUBSET units)
  BY DEF Init
<1>4. QED
  BY <1>1, <1>2, <1>3 DEF Init, TypeOK, Places, CtxErrs, Errs, NoErr, Stages, Held,
     Settled, Programs, Results, Exits

LEMMA StepType == TypeOK /\ [Next]_vars => TypeOK'
<1> SUFFICES ASSUME TypeOK, [Next]_vars PROVE TypeOK'
  OBVIOUS
<1> USE DEF TypeOK, inputs, plan, pool, context, outputs, unitState, Places, CtxErrs, Errs,
        NoErr, Stages, Held, Settled, Programs, Results, Exits
<1>1. CASE Deadline
  BY <1>1 DEF Deadline
<1>2. CASE Setup
  BY <1>2 DEF Setup, ReturnEarly
<1>3. CASE PlanLevel
  <2>1. Ready \in SUBSET units
    BY DEF Ready
  <2>2. QED
    BY <1>3, <2>1 DEF PlanLevel
<1>4. CASE PlanDone
  BY <1>4 DEF PlanDone, ReturnEarly
<1>5. CASE StartWave
  <2>1. levels[wave] \subseteq units
    BY <1>5 DEF StartWave
  <2>2. QED
    BY <1>5, <2>1 DEF StartWave
<1>6. CASE WaveDone \/ LoopEnds \/ Merge \/ Report
  BY <1>6 DEF WaveDone, LoopEnds, Merge, Report
<1>7. CASE MainPanic
  BY <1>7 DEF MainPanic
<1>8. ASSUME NEW w \in Workers, TakeJob(w) PROVE TypeOK'
  BY <1>8 DEF TakeJob, Move
<1>9. ASSUME NEW w \in Workers, NoMoreJobs(w) PROVE TypeOK'
  BY <1>9 DEF NoMoreJobs, Return, Release
<1>10. ASSUME NEW w \in Workers, NEW u \in units, UnitStep(w, u) PROVE TypeOK'
  <2> USE DEF Move, Release, Return, Stop, Holds
  <2>1. CASE CheckWork(w, u)
    BY <2>1 DEF CheckWork
  <2>2. CASE Classify(w, u)
    BY <2>2 DEF Classify
  <2>3. CASE Load(w, u)
    BY <2>3 DEF Load
  <2>4. CASE Build(w, u)
    BY <2>4 DEF Build
  <2>5. CASE Record(w, u)
    BY <2>5 DEF Record
  <2>6. CASE Keep(w, u)
    BY <2>6 DEF Keep
  <2>7. CASE Fail(w, u)
    BY <2>7 DEF Fail
  <2>8. QED
    BY <1>10, <2>1, <2>2, <2>3, <2>4, <2>5, <2>6, <2>7 DEF UnitStep
<1>11. ASSUME NEW w \in Workers, WorkerPanic(w) PROVE TypeOK'
  BY <1>11 DEF WorkerPanic
<1>12. CASE UNCHANGED vars
  BY <1>12 DEF vars
<1>13. QED
  BY <1>1, <1>2, <1>3, <1>4, <1>5, <1>6, <1>7, <1>8, <1>9, <1>10, <1>11, <1>12
     DEF Next, MainStep, WorkerStep, Ended

(* Every variable keeps its type, whatever go list answers. *)
THEOREM TypeCorrect == Spec => []TypeOK
BY InitType, StepType, PTL DEF Spec
-----------------------------------------------------------------------------
(***************************************************************************)
(* The inductive invariant.                                                *)
(***************************************************************************)

\* Units of the waves before the i-th.
Before(i) == {u \in units : \E j \in DOMAIN levels : j < i /\ u \in levels[j]}

\* Goroutines exist only between StartWave and WaveDone; a code ends the process.
PhaseInv ==
  /\ exit = "none" <=> Running
  /\ alive # {} => main \in {"wait", "crashed"}
  /\ main \in {"setup", "plan"} => wave = 1 /\ \A u \in units : stage[u] = "waiting"

\* What workCtx, errOnce and the units' errors know of each other.
CauseInv ==
  /\ work = "deadline" => deadline
  /\ deadline => work # "live"
  /\ work = "canceled" => firstErr # NoErr
  /\ firstErr # NoErr => /\ work # "live"
                         /\ firstErr # "canceled"
                         /\ \E u \in units : stage[u] = "failed" /\ err[u] = firstErr
  /\ firstErr = "deadline" => deadline
  /\ runErr # "canceled"
  /\ runErr = "deadline" => deadline
  /\ \A u \in units :
       /\ err[u] = "canceled" => firstErr # NoErr
       /\ err[u] = "deadline" => deadline
       /\ stage[u] \in {"failing", "failed"} => err[u] # NoErr
       /\ stage[u] \in {"dropped", "failed"} => work # "live"

\* A waiting, queued or held unit is where its stage says, and held once.
PoolInv ==
  /\ \A w \in Workers : job[w] # NoUnit =>
       /\ w \in alive
       /\ stage[job[w]] \in Held
       /\ \A v \in Workers : job[v] = job[w] => v = w
  /\ \A u \in units : stage[u] \in Held => \E w \in alive : job[w] = u
  /\ \A u \in units : u \in jobs <=> stage[u] = "queued"
  /\ work = "live" /\ jobs # {} => alive # {}

\* Each wave needs only earlier ones, and no unit is in two.
PlanInv ==
  /\ wave >= 1
  /\ \A i \in DOMAIN levels : \A u \in levels[i] :
       /\ deps[u] \subseteq Before(i)
       /\ u \notin Before(i)
  /\ main \in {"loop", "wait", "merge"} => Planned = units

\* Waves are worked off one after the other.
WaveInv ==
  /\ \A i \in DOMAIN levels : \A u \in levels[i] :
       /\ i >= wave => stage[u] = "waiting"
       /\ i < wave => stage[u] # "waiting"
       /\ i + 1 < wave => stage[u] \in Settled
  /\ \A u \in units \ Planned : stage[u] = "waiting"
  /\ main \in {"loop", "merge"} /\ work = "live" =>
       \A u \in Before(wave) : stage[u] \in Settled
  /\ main = "merge" /\ work = "live" => wave \notin DOMAIN levels

\* What a settled unit has left behind.
ResultInv ==
  /\ \A u \in units :
       /\ stage[u] \in {"built", "recorded"} /\ err[u] = NoErr =>
            program[u] \in {"truncated", "whole"}
       /\ stage[u] = "recorded" /\ err[u] = NoErr => u \in facts
       /\ stage[u] = "done" => u \in facts
       /\ stage[u] \in Settled /\ u \in roots =>
            result[u] \in {"excluded", "truncated", "whole"}
  /\ (main = "report" \/ exit \in {"ok", "ci"}) /\ runErr = NoErr =>
       \A u \in units : stage[u] \in Settled
  /\ exit = "ok" => runErr = NoErr \/ ~FailOnIncomplete
  /\ exit = "ok" /\ FailOnIncomplete => ~Incomplete

IInv == /\ TypeOK /\ PhaseInv /\ CauseInv /\ PoolInv /\ PlanInv /\ WaveInv /\ ResultInv
-----------------------------------------------------------------------------
(* Initially *)

LEMMA InitInv == Init => IInv
<1> SUFFICES ASSUME Init PROVE IInv
  OBVIOUS
<1>1. TypeOK
  BY InitType
<1>2. /\ levels = <<>> /\ DOMAIN levels = {} /\ wave = 1
      /\ main = "setup" /\ exit = "none" /\ work = "live" /\ ~deadline
      /\ firstErr = "none" /\ runErr = "none"
      /\ jobs = {} /\ alive = {}
      /\ \A w \in Workers : job[w] = NoUnit
      /\ \A u \in units : stage[u] = "waiting" /\ err[u] = "none"
  BY DEF Init, NoErr
<1>3. PhaseInv
  BY <1>2 DEF PhaseInv, Running
<1>4. CauseInv
  BY <1>2 DEF CauseInv, NoErr
<1>5. PoolInv
  BY <1>2 DEF PoolInv, Held
<1>6. PlanInv
  BY <1>2 DEF PlanInv
<1>7. WaveInv
  BY <1>2 DEF WaveInv
<1>8. ResultInv
  BY <1>2 DEF ResultInv, Settled
<1>9. QED
  BY <1>1, <1>3, <1>4, <1>5, <1>6, <1>7, <1>8 DEF IInv

-----------------------------------------------------------------------------
(* Every step *)

LEMMA StepPhase == IInv /\ [Next]_vars => PhaseInv'
<1> SUFFICES ASSUME IInv, [Next]_vars PROVE PhaseInv'
  OBVIOUS
<1> USE DEF IInv, TypeOK, PhaseInv, Running, inputs, plan, pool, context, outputs, unitState
<1>1. CASE Deadline \/ Setup \/ PlanLevel \/ PlanDone
  BY <1>1 DEF Deadline, Setup, PlanLevel, PlanDone, ReturnEarly
<1>2. CASE StartWave \/ WaveDone \/ LoopEnds \/ Merge
  BY <1>2 DEF StartWave, WaveDone, LoopEnds, Merge
<1>3. CASE Report \/ MainPanic
  BY <1>3 DEF Report, MainPanic, NoErr
<1>4. ASSUME NEW w \in Workers, TakeJob(w) \/ NoMoreJobs(w) PROVE PhaseInv'
  BY <1>4 DEF TakeJob, NoMoreJobs, Idle, Return, Move
<1>5. ASSUME NEW w \in Workers, NEW u \in units, UnitStep(w, u) PROVE PhaseInv'
  <2>1. /\ Running /\ w \in alive
        /\ alive' \subseteq alive
        /\ UNCHANGED <<main, exit, inputs, plan>>
    BY <1>5 DEF UnitStep, Holds, Return, CheckWork, Classify, Load, Build, Record, Keep, Fail
  <2>2. QED
    BY <2>1
<1>6. ASSUME NEW w \in Workers, WorkerPanic(w) PROVE PhaseInv'
  BY <1>6 DEF WorkerPanic
<1>7. CASE UNCHANGED vars
  BY <1>7 DEF vars
<1>8. QED
  BY <1>1, <1>2, <1>3, <1>4, <1>5, <1>6, <1>7 DEF Next, MainStep, WorkerStep, Ended

LEMMA StepPlan == IInv /\ [Next]_vars => PlanInv'
<1> SUFFICES ASSUME IInv, [Next]_vars PROVE PlanInv'
  OBVIOUS
<1> USE DEF IInv, TypeOK, PlanInv, inputs, plan, pool, context, outputs, unitState
<1>1. CASE PlanLevel
  <2>1. /\ levels' = Append(levels, Ready)
        /\ deps' = deps /\ units' = units /\ wave' = wave /\ main' = "plan"
    BY <1>1 DEF PlanLevel
  <2>2. /\ Ready \in SUBSET units
        /\ levels \in Seq(SUBSET units)
    BY DEF Ready
  <2>3. PICK n \in Nat : n = Len(levels) + 1
    BY <2>2
  <2>4. /\ DOMAIN levels' = DOMAIN levels \cup {n}
        /\ \A i \in DOMAIN levels : levels'[i] = levels[i] /\ i \in Nat /\ i < n
        /\ levels'[n] = Ready
    BY <2>1, <2>2, <2>3
  <2>5. \A i \in DOMAIN levels : Before(i)' = Before(i)
    BY <2>1, <2>4 DEF Before
  <2>6. Before(n)' = Planned
    BY <2>1, <2>4 DEF Before, Planned
  <2>7. \A u \in Ready : deps[u] \subseteq Planned /\ u \notin Planned
    BY DEF Ready
  <2>8. \A i \in DOMAIN levels' : \A u \in levels'[i] :
           deps'[u] \subseteq Before(i)' /\ u \notin Before(i)'
    <3> TAKE i \in DOMAIN levels'
    <3>1. CASE i = n
      BY <2>1, <2>4, <2>6, <2>7, <3>1
    <3>2. CASE i \in DOMAIN levels
      BY <2>1, <2>4, <2>5, <3>2
    <3>3. QED
      BY <2>4, <3>1, <3>2
  <2>9. QED
    BY <2>1, <2>8
<1>2. CASE PlanDone
  BY <1>2 DEF PlanDone, ReturnEarly, Planned, Before
<1>3. CASE ~PlanLevel /\ ~PlanDone
  <2>1. /\ UNCHANGED <<levels, deps, units>>
        /\ wave' \in {wave, wave + 1}
        /\ main' \in {"loop", "wait", "merge"} => main \in {"loop", "wait", "merge"}
    <3>1. CASE Deadline \/ Setup \/ StartWave \/ WaveDone \/ LoopEnds
      BY <3>1 DEF Deadline, Setup, ReturnEarly, StartWave, WaveDone, LoopEnds
    <3>2. CASE Merge \/ Report \/ MainPanic \/ UNCHANGED vars
      BY <3>2 DEF Merge, Report, MainPanic, vars
    <3>3. ASSUME NEW w \in Workers, TakeJob(w) \/ NoMoreJobs(w) \/ WorkerPanic(w)
          PROVE  <2>1
      BY <3>3 DEF TakeJob, NoMoreJobs, WorkerPanic
    <3>4. ASSUME NEW w \in Workers, NEW u \in units, UnitStep(w, u) PROVE <2>1
      BY <3>4 DEF UnitStep, CheckWork, Classify, Load, Build, Record, Keep, Fail
    <3>5. QED
      BY <1>3, <3>1, <3>2, <3>3, <3>4 DEF Next, MainStep, WorkerStep, Ended
  <2>2. QED
    BY <2>1 DEF Planned, Before
<1>4. QED
  BY <1>1, <1>2, <1>3

LEMMA StepCause == IInv /\ [Next]_vars => CauseInv'
<1> SUFFICES ASSUME IInv, [Next]_vars PROVE CauseInv'
  OBVIOUS
<1> USE DEF IInv, TypeOK, CauseInv, NoErr, CtxErrs, Errs, inputs, plan, pool, context,
        outputs, unitState
<1>1. CASE Deadline
  BY <1>1 DEF Deadline
<1>2. CASE Setup \/ PlanLevel \/ PlanDone
  BY <1>2 DEF Setup, PlanLevel, PlanDone, ReturnEarly
<1>3. CASE StartWave
  BY <1>3 DEF StartWave
<1>4. CASE WaveDone \/ LoopEnds \/ Merge \/ Report \/ MainPanic
  BY <1>4 DEF WaveDone, LoopEnds, Merge, Report, MainPanic
<1>5. ASSUME NEW w \in Workers, TakeJob(w) \/ NoMoreJobs(w) \/ WorkerPanic(w)
      PROVE  CauseInv'
  <2>1. CASE TakeJob(w)
    <3>1. \A u \in jobs : stage[u] = "queued"
      BY DEF PoolInv
    <3>2. QED
      BY <2>1, <3>1 DEF TakeJob, Move
  <2>2. CASE NoMoreJobs(w) \/ WorkerPanic(w)
    BY <2>2 DEF NoMoreJobs, WorkerPanic
  <2>3. QED
    BY <1>5, <2>1, <2>2
<1>6. ASSUME NEW w \in Workers, NEW u \in units, UnitStep(w, u) PROVE CauseInv'
  <2> USE DEF Move, Release, Return, Stop, Holds
  <2>1. CASE CheckWork(w, u)
    BY <2>1 DEF CheckWork
  <2>2. CASE Classify(w, u)
    BY <2>2 DEF Classify
  <2>3. CASE Load(w, u)
    BY <2>3 DEF Load
  <2>4. CASE Build(w, u)
    BY <2>4 DEF Build
  <2>5. CASE Record(w, u)
    BY <2>5 DEF Record
  <2>6. CASE Keep(w, u)
    BY <2>6 DEF Keep
  <2>7. CASE Fail(w, u)
    BY <2>7 DEF Fail
  <2>8. QED
    BY <1>6, <2>1, <2>2, <2>3, <2>4, <2>5, <2>6, <2>7 DEF UnitStep
<1>7. CASE UNCHANGED vars
  BY <1>7 DEF vars
<1>8. QED
  BY <1>1, <1>2, <1>3, <1>4, <1>5, <1>6, <1>7 DEF Next, MainStep, WorkerStep, Ended

\* A worker that keeps its unit, in another stage, disturbs nobody.
LEMMA StillHeld ==
  ASSUME IInv, NEW u \in units, stage[u] \in Held, stage'[u] \in Held,
         stage' = [stage EXCEPT ![u] = stage'[u]], UNCHANGED <<units, jobs, alive, job, work>>
  PROVE  PoolInv'
<1>1. PoolInv /\ stage \in [units -> Stages] /\ job \in [Workers -> units \cup {NoUnit}]
  BY DEF IInv, TypeOK
<1>2. \A x \in units : stage'[x] \in Held <=> stage[x] \in Held
  BY <1>1
<1>3. \A x \in units : stage'[x] = "queued" <=> stage[x] = "queued"
  BY <1>1 DEF Held
<1>4. QED
  BY <1>1, <1>2, <1>3 DEF PoolInv

LEMMA StepPool == IInv /\ [Next]_vars => PoolInv'
<1> SUFFICES ASSUME IInv, [Next]_vars PROVE PoolInv'
  OBVIOUS
<1> USE NoUnitAssumption
    DEF IInv, TypeOK, PoolInv, Held, Stages, Settled, inputs, plan, pool, context, outputs,
        unitState
<1>1. CASE Deadline
  BY <1>1 DEF Deadline
<1>2. CASE Setup \/ PlanLevel \/ PlanDone
  BY <1>2 DEF Setup, PlanLevel, PlanDone, ReturnEarly
<1>3. CASE StartWave
  <2>1. /\ levels[wave] \subseteq units
        /\ \A u \in levels[wave] : stage[u] = "waiting"
    BY <1>3 DEF StartWave, WaveInv
  <2>2. alive = {} /\ jobs = {} /\ \A u \in units : stage[u] \notin Held
    <3>1. alive = {} /\ work = "live"
      BY <1>3 DEF StartWave, PhaseInv
    <3>2. QED
      BY <3>1
  <2>3. levels[wave] # {} => alive' # {}
    <3>1. IsFiniteSet(levels[wave]) /\ IsFiniteSet(Workers)
      BY <2>1, FiniteAssumption, WorkersAssumption, FS_Subset
    <3>2. /\ levels[wave] # {} => Cardinality(levels[wave]) # 0
          /\ Cardinality(Workers) # 0
          /\ Cardinality({}) = 0
      BY <3>1, WorkersAssumption, FS_EmptySet
    <3>3. QED
      BY <1>3, <3>2 DEF StartWave, PoolSize
  <2>4. QED
    BY <1>3, <2>1, <2>2, <2>3 DEF StartWave
<1>4. CASE WaveDone \/ LoopEnds \/ Merge \/ Report \/ MainPanic
  BY <1>4 DEF WaveDone, LoopEnds, Merge, Report, MainPanic
<1>5. ASSUME NEW w \in Workers, TakeJob(w) PROVE PoolInv'
  BY <1>5 DEF TakeJob, Idle, Move
<1>6. ASSUME NEW w \in Workers, NoMoreJobs(w) PROVE PoolInv'
  BY <1>6 DEF NoMoreJobs, Idle, Return, Release
<1>7. ASSUME NEW w \in Workers, NEW u \in units, UnitStep(w, u) PROVE PoolInv'
  <2> USE DEF Move, Release, Return, Stop, Holds
  <2>1. CASE CheckWork(w, u)
    <3>1. CASE work = "live"
      BY <2>1, <3>1 DEF CheckWork
    <3>2. CASE work # "live"
      BY <2>1, <3>2 DEF CheckWork
    <3>3. QED
      BY <3>1, <3>2
  <2>2. CASE Classify(w, u)
    BY <2>2 DEF Classify
  <2>3. CASE Load(w, u)
    BY <2>3 DEF Load
  <2>4. CASE Build(w, u)
    <3>1. stage[u] = "build" /\ stage' = [stage EXCEPT ![u] = "built"]
          /\ UNCHANGED <<units, jobs, alive, job, work>>
      BY <2>4 DEF Build
    <3>2. QED
      BY <3>1, StillHeld
  <2>5. CASE Record(w, u)
    <3>1. stage[u] = "built" /\ stage' = [stage EXCEPT ![u] = "recorded"]
          /\ UNCHANGED <<units, jobs, alive, job, work>>
      BY <2>5 DEF Record
    <3>2. QED
      BY <3>1, StillHeld
  <2>6. CASE Keep(w, u)
    <3>1. stage[u] = "recorded" /\ job[w] = u /\ UNCHANGED <<units, jobs, alive, work>>
      BY <2>6 DEF Keep
    <3>2. CASE err[u] = NoErr
      <4>1. stage' = [stage EXCEPT ![u] = "done"] /\ job' = [job EXCEPT ![w] = NoUnit]
        BY <2>6, <3>2 DEF Keep
      <4>2. QED
        BY <3>1, <4>1
    <3>3. CASE err[u] # NoErr
      <4>1. stage' = [stage EXCEPT ![u] = "failing"] /\ job' = job
        BY <2>6, <3>3 DEF Keep
      <4>2. QED
        BY <3>1, <4>1, StillHeld
    <3>4. QED
      BY <3>2, <3>3
  <2>7. CASE Fail(w, u)
    <3>1. work' # "live"
      BY <2>7 DEF Fail, CauseInv, CtxErrs
    <3>2. QED
      BY <2>7, <3>1 DEF Fail
  <2>8. QED
    BY <1>7, <2>1, <2>2, <2>3, <2>4, <2>5, <2>6, <2>7 DEF UnitStep
<1>8. ASSUME NEW w \in Workers, WorkerPanic(w) PROVE PoolInv'
  BY <1>8 DEF WorkerPanic
<1>9. CASE UNCHANGED vars
  BY <1>9 DEF vars
<1>10. QED
  BY <1>1, <1>2, <1>3, <1>4, <1>5, <1>6, <1>7, <1>8, <1>9
     DEF Next, MainStep, WorkerStep, Ended

\* While a worker can step, the main goroutine waits for it.
LEMMA WorkerTime ==
  ASSUME IInv, Running, NEW w \in alive
  PROVE  main = "wait" /\ exit = "none"
BY DEF IInv, PhaseInv, Running

LEMMA StepWave == IInv /\ [Next]_vars => WaveInv'
<1> SUFFICES ASSUME IInv, [Next]_vars PROVE WaveInv'
  OBVIOUS
<1> USE DEF IInv, TypeOK, WaveInv, Settled, Planned, Before, inputs, plan, pool, context,
        outputs, unitState
<1>1. CASE Deadline
  BY <1>1 DEF Deadline
<1>2. CASE Setup
  BY <1>2 DEF Setup, ReturnEarly
<1>3. CASE PlanLevel
  <2>1. /\ wave = 1
        /\ \A u \in units : stage[u] = "waiting"
        /\ wave' = wave /\ stage' = stage /\ units' = units /\ main' = "plan"
    BY <1>3 DEF PlanLevel, PhaseInv
  <2>2. /\ DOMAIN levels' \subseteq Nat \ {0}
        /\ \A i \in DOMAIN levels' : levels'[i] \subseteq units
    BY <1>3, StepType DEF PlanLevel
  <2>3. QED
    BY <2>1, <2>2
<1>4. CASE PlanDone
  <2>1. CASE Planned = units
    <3>1. wave = 1 /\ \A u \in units : stage[u] = "waiting"
      BY <1>4 DEF PlanDone, PhaseInv
    <3>2. QED
      BY <1>4, <2>1, <3>1 DEF PlanDone
  <2>2. CASE Planned # units
    BY <1>4, <2>2 DEF PlanDone, ReturnEarly
  <2>3. QED
    BY <2>1, <2>2
<1>5. CASE StartWave
  <2>1. /\ wave \in DOMAIN levels
        /\ wave' = wave + 1 /\ main' = "wait"
        /\ levels' = levels /\ units' = units
        /\ stage' = [u \in units |-> IF u \in levels[wave] THEN "queued" ELSE stage[u]]
    BY <1>5 DEF StartWave
  <2>2. \A u \in Before(wave) : stage[u] \in Settled
    BY <1>5 DEF StartWave
  <2>3. ASSUME NEW i \in DOMAIN levels, NEW u \in levels[i]
        PROVE  /\ u \in units
               /\ i < wave => u \in Before(wave) /\ u \notin levels[wave]
               /\ i > wave => u \notin levels[wave]
    BY <2>1 DEF PlanInv
  <2>4. ASSUME NEW i \in DOMAIN levels, NEW u \in levels[i]
        PROVE  /\ i >= wave + 1 => stage'[u] = "waiting"
               /\ i < wave + 1 => stage'[u] # "waiting"
               /\ i + 1 < wave + 1 => stage'[u] \in Settled
    <3>1. i \in Nat /\ u \in units
      BY <2>3
    <3>2. CASE i < wave
      BY <2>1, <2>2, <2>3, <3>1, <3>2
    <3>3. CASE i = wave
      BY <2>1, <3>1, <3>3
    <3>4. CASE i > wave
      BY <2>1, <2>3, <3>1, <3>4
    <3>5. QED
      BY <2>1, <3>1, <3>2, <3>3, <3>4
  <2>5. \A u \in units \ Planned : stage'[u] = "waiting"
    BY <2>1
  <2>6. QED
    BY <2>1, <2>4, <2>5
<1>6. CASE WaveDone
  <2>1. work = "live" => \A u \in Before(wave) : stage[u] \in Settled
    <3>1. SUFFICES ASSUME work = "live", NEW u \in Before(wave)
                   PROVE  stage[u] \in Settled
      OBVIOUS
    <3>2. stage[u] # "waiting"
      BY <3>1
    <3>3. jobs = {} /\ alive = {}
      BY <1>6, <3>1 DEF WaveDone, PoolInv
    <3>4. stage[u] \notin Held \cup {"queued"}
      BY <3>3 DEF PoolInv
    <3>5. stage[u] \notin {"dropped", "failed"}
      BY <3>1 DEF CauseInv
    <3>6. QED
      BY <3>2, <3>4, <3>5 DEF Stages
  <2>2. main' = "merge" => work # "live"
    BY <1>6 DEF WaveDone, CauseInv
  <2>3. QED
    BY <1>6, <2>1, <2>2 DEF WaveDone
<1>7. CASE LoopEnds \/ Merge \/ Report \/ MainPanic
  BY <1>7 DEF LoopEnds, Merge, Report, MainPanic
<1>8. ASSUME NEW w \in Workers, WorkerStep(w) PROVE WaveInv'
  <2>1. /\ main' = "wait"
        /\ UNCHANGED <<levels, wave, units>>
        /\ \/ stage' = stage
           \/ \E u \in units, s \in Stages :
                /\ stage[u] \notin Settled \cup {"waiting"}
                /\ s # "waiting"
                /\ stage' = [stage EXCEPT ![u] = s]
    <3>1. CASE TakeJob(w)
      <4>1. main = "wait"
        BY <3>1, WorkerTime DEF TakeJob, Idle
      <4>2. \A u \in jobs : u \in units /\ stage[u] = "queued"
        BY DEF PoolInv
      <4>3. "claimed" \in Stages
        BY DEF Stages, Held
      <4>4. QED
        BY <3>1, <4>1, <4>2, <4>3 DEF TakeJob, Move
    <3>2. CASE NoMoreJobs(w)
      BY <1>8, <3>2, WorkerTime DEF NoMoreJobs, Idle
    <3>3. ASSUME NEW u \in units, UnitStep(w, u) PROVE <2>1
      <4>1. main' = "wait" /\ UNCHANGED <<levels, wave, units>>
        BY <3>3, WorkerTime
           DEF UnitStep, Holds, CheckWork, Classify, Load, Build, Record, Keep, Fail
      <4>2. stage[u] \in Held
        BY <3>3 DEF UnitStep, Holds, CheckWork, Classify, Load, Build, Record, Keep, Fail,
                    Held
      <4>3. \E s \in Stages : s # "waiting" /\ Move(u, s)
        BY <3>3 DEF UnitStep, Stop, CheckWork, Classify, Load, Build, Record, Keep, Fail,
                    Held, Stages
      <4>4. QED
        BY <4>1, <4>2, <4>3 DEF Held, Move
    <3>4. QED
      BY <1>8, <3>1, <3>2, <3>3 DEF WorkerStep
  <2>2. QED
    BY <2>1
<1>9. ASSUME NEW w \in Workers, WorkerPanic(w) PROVE WaveInv'
  BY <1>9 DEF WorkerPanic
<1>10. CASE UNCHANGED vars
  BY <1>10 DEF vars
<1>11. QED
  BY <1>1, <1>2, <1>3, <1>4, <1>5, <1>6, <1>7, <1>8, <1>9, <1>10 DEF Next, MainStep, Ended

LEMMA StepResult == IInv /\ [Next]_vars => ResultInv'
<1> SUFFICES ASSUME IInv, [Next]_vars PROVE ResultInv'
  OBVIOUS
<1> USE DEF IInv, TypeOK, ResultInv, Incomplete, Settled, NoErr, inputs, plan, pool, context,
        outputs, unitState
<1>1. CASE Deadline
  BY <1>1 DEF Deadline
<1>2. CASE Setup \/ PlanLevel \/ PlanDone
  BY <1>2 DEF Setup, PlanLevel, PlanDone, ReturnEarly, PhaseInv, Running
<1>3. CASE StartWave
  BY <1>3 DEF StartWave, WaveInv, PhaseInv, Running
<1>4. CASE WaveDone \/ LoopEnds
  BY <1>4 DEF WaveDone, LoopEnds, PhaseInv, Running
<1>5. CASE Merge
  <2>1. exit = "none"
    BY <1>5 DEF Merge, PhaseInv, Running
  <2>2. runErr' = NoErr => \A u \in units : stage[u] \in Settled
    <3>1. SUFFICES ASSUME runErr' = NoErr PROVE \A u \in units : stage[u] \in Settled
      OBVIOUS
    <3>2. firstErr = NoErr /\ ~deadline
      BY <1>5, <3>1 DEF Merge
    <3>3. work = "live"
      BY <3>2 DEF CauseInv, CtxErrs
    <3>4. wave \notin DOMAIN levels /\ \A u \in Before(wave) : stage[u] \in Settled
      BY <1>5, <3>3 DEF Merge, WaveInv
    <3>5. \A i \in DOMAIN levels : i < wave
      BY <3>4 DEF PlanInv
    <3>6. units \subseteq Before(wave)
      BY <1>5, <3>5 DEF Merge, PlanInv, Planned, Before
    <3>7. QED
      BY <3>4, <3>6
  <2>3. QED
    BY <1>5, <2>1, <2>2 DEF Merge
<1>6. CASE Report
  BY <1>6 DEF Report
<1>7. CASE MainPanic
  BY <1>7 DEF MainPanic
<1>8. ASSUME NEW w \in Workers, TakeJob(w) \/ NoMoreJobs(w) PROVE ResultInv'
  <2>1. main = "wait" /\ exit = "none"
    BY <1>8, WorkerTime DEF TakeJob, NoMoreJobs, Idle
  <2>2. QED
    BY <1>8, <2>1 DEF TakeJob, NoMoreJobs, Move
<1>9. ASSUME NEW w \in Workers, NEW u \in units, UnitStep(w, u) PROVE ResultInv'
  <2>1. main = "wait" /\ exit = "none"
    BY <1>9, WorkerTime
       DEF UnitStep, Holds, CheckWork, Classify, Load, Build, Record, Keep, Fail
  <2>2. main' = "wait" /\ exit' = "none"
    BY <1>9, <2>1 DEF UnitStep, CheckWork, Classify, Load, Build, Record, Keep, Fail
  <2> USE DEF Move, Release, Return, Stop, Holds
  <2>3. CASE CheckWork(w, u)
    BY <2>2, <2>3 DEF CheckWork
  <2>4. CASE Classify(w, u)
    BY <2>2, <2>4 DEF Classify
  <2>5. CASE Load(w, u)
    BY <2>2, <2>5 DEF Load
  <2>6. CASE Build(w, u)
    BY <2>2, <2>6 DEF Build, CtxErrs
  <2>7. CASE Record(w, u)
    BY <2>2, <2>7 DEF Record
  <2>8. CASE Keep(w, u)
    BY <2>2, <2>8 DEF Keep
  <2>9. CASE Fail(w, u)
    BY <2>2, <2>9 DEF Fail
  <2>10. QED
    BY <1>9, <2>3, <2>4, <2>5, <2>6, <2>7, <2>8, <2>9 DEF UnitStep
<1>10. ASSUME NEW w \in Workers, WorkerPanic(w) PROVE ResultInv'
  BY <1>10 DEF WorkerPanic
<1>11. CASE UNCHANGED vars
  BY <1>11 DEF vars
<1>12. QED
  BY <1>1, <1>2, <1>3, <1>4, <1>5, <1>6, <1>7, <1>8, <1>9, <1>10, <1>11
     DEF Next, MainStep, WorkerStep, Ended

LEMMA Inductive == Spec => []IInv
<1>1. IInv /\ [Next]_vars => IInv'
  BY StepType, StepPhase, StepCause, StepPool, StepPlan, StepWave, StepResult DEF IInv
<1>2. QED
  BY InitInv, <1>1, PTL DEF Spec
-----------------------------------------------------------------------------
(***************************************************************************)
(* What follows from it.                                                   *)
(***************************************************************************)

(* No schedule, deadline or failure makes the run report a cancellation it *)
(* caused itself: fail's errOnce keeps the error that came first.          *)
THEOREM OnlyCauses == Spec => []ErrorIsACause
<1>1. IInv => ErrorIsACause
  BY DEF IInv, CauseInv, ErrorIsACause, NoErr
<1>2. QED
  BY Inductive, <1>1, PTL

(* With fail_on_incomplete, exit code 0 vouches for every selected package *)
(* and every requested result.                                             *)
THEOREM ZeroMeansWhole == Spec => []OkMeansWhole
<1>1. IInv => OkMeansWhole
  BY DEF IInv, TypeOK, ResultInv, OkMeansWhole, Incomplete, Settled, NoErr
<1>2. QED
  BY Inductive, <1>1, PTL

\* All that a package being built depends on lies in waves that have ended.
LEMMA DependenciesSettled ==
  ASSUME IInv, NEW u \in units, stage[u] \in Held, NEW d \in DependsOn(u)
  PROVE  d \in units /\ stage[d] \in Settled
<1> USE DEF IInv, TypeOK
<1>1. PICK i \in DOMAIN levels : u \in levels[i] /\ i < wave
  BY DEF WaveInv, Planned, Held
<1>2. deps[u] \subseteq Before(i)
  BY <1>1 DEF PlanInv
<1>3. ASSUME NEW p \in Before(i) PROVE deps[p] \subseteq Before(i)
  <2>1. PICK j \in DOMAIN levels : j < i /\ p \in levels[j]
    BY DEF Before
  <2>2. deps[p] \subseteq Before(j)
    BY <2>1 DEF PlanInv
  <2>3. Before(j) \subseteq Before(i)
    BY <2>1 DEF Before
  <2>4. QED
    BY <2>2, <2>3
<1>4. d \in units /\ d \in Before(i)
  <2>1. Before(i) \in SUBSET units
    BY DEF Before
  <2>2. QED
    BY <1>2, <1>3, <2>1 DEF DependsOn
<1>5. PICK j \in DOMAIN levels : j < i /\ d \in levels[j]
  BY <1>4 DEF Before
<1>6. j + 1 < wave
  BY <1>1, <1>5
<1>7. QED
  BY <1>4, <1>5, <1>6 DEF WaveInv

(* A function summary is never looked up before the package it belongs to, *)
(* or a package in between, has committed it.                              *)
THEOREM LookupsComeAfter == Spec => []DependencyFirst
<1>1. IInv => DependencyFirst
  <2> SUFFICES ASSUME IInv, NEW u \in units, stage[u] = "build", NEW d \in DependsOn(u)
               PROVE  Committed(d)
    BY DEF DependencyFirst
  <2>1. d \in units /\ stage[d] \in Settled
    BY DependenciesSettled DEF Held
  <2>2. QED
    BY <2>1 DEF IInv, ResultInv, Committed, Settled
<1>2. QED
  BY Inductive, <1>1, PTL

(* While a package is being built the summaries it may look up stand       *)
(* still, whatever the other workers do.                                   *)
THEOREM LookupsAreStable == Spec => SummariesStable
<1>1. IInv /\ [Next]_vars =>
        \A u \in units : stage[u] = "build" =>
           DependsOn(u) \cap facts' = DependsOn(u) \cap facts
  <2> SUFFICES ASSUME IInv, [Next]_vars, NEW u \in units, stage[u] = "build"
               PROVE  DependsOn(u) \cap facts' = DependsOn(u) \cap facts
    OBVIOUS
  <2>1. facts' = facts \/ \E v \in units : stage[v] = "built" /\ facts' = facts \cup {v}
    <3> USE DEF inputs, plan, pool, context, outputs, unitState
    <3>1. CASE MainStep \/ Deadline \/ MainPanic \/ UNCHANGED vars
      BY <3>1 DEF MainStep, Setup, ReturnEarly, PlanLevel, PlanDone, StartWave, WaveDone,
         LoopEnds, Merge, Report, Deadline, MainPanic, vars
    <3>2. ASSUME NEW w \in Workers, TakeJob(w) \/ NoMoreJobs(w) \/ WorkerPanic(w)
          PROVE  facts' = facts
      BY <3>2 DEF TakeJob, NoMoreJobs, WorkerPanic
    <3>3. ASSUME NEW w \in Workers, NEW v \in units, UnitStep(w, v)
          PROVE  facts' = facts \/ (stage[v] = "built" /\ facts' = facts \cup {v})
      <4>1. CASE Record(w, v)
        BY <4>1 DEF Record, Holds
      <4>2. CASE ~Record(w, v)
        BY <3>3, <4>2 DEF UnitStep, CheckWork, Classify, Load, Build, Keep, Fail
      <4>3. QED
        BY <4>1, <4>2
    <3>4. QED
      BY <3>1, <3>2, <3>3 DEF Next, WorkerStep, Ended
  <2>2. \A d \in DependsOn(u) : stage[d] # "built"
    BY DependenciesSettled DEF Held, Settled
  <2>3. QED
    BY <2>1, <2>2
<1>2. QED
  BY Inductive, <1>1, PTL DEF Spec, SummariesStable
-----------------------------------------------------------------------------
(***************************************************************************)
(* StandaloneRun implements AnalysisOrder.                                 *)
(***************************************************************************)

\* A unit that moves neither to Begun nor to SettledUnits is not seen to move.
LEMMA UnseenMove ==
  ASSUME TypeOK, NEW u \in units, NEW s, Move(u, s), UNCHANGED <<units, deps, exit>>,
         exit = "none",
         s \in {"waiting", "queued", "claimed", "dropped"} <=>
           stage[u] \in {"waiting", "queued", "claimed", "dropped"},
         s \in Settled <=> stage[u] \in Settled
  PROVE  UNCHANGED Order!vars
<1>1. Begun' = Begun /\ SettledUnits' = SettledUnits
  BY DEF TypeOK, Move, Begun, SettledUnits
<1>2. Verdict' = Verdict
  BY DEF Verdict
<1>3. QED
  BY <1>1, <1>2 DEF Order!vars

LEMMA StepOrder == IInv /\ [Next]_vars => [Order!Next]_(Order!vars)
<1> SUFFICES ASSUME IInv, [Next]_vars PROVE Order!Next \/ UNCHANGED Order!vars
  OBVIOUS
<1> USE DEF IInv, inputs, plan, pool, context, outputs, unitState
<1>1. ASSUME UNCHANGED <<units, deps, stage, exit>>, exit = "none" \/ UNCHANGED runErr
      PROVE  UNCHANGED Order!vars
  BY <1>1 DEF Order!vars, Begun, SettledUnits, Verdict
<1>2. ASSUME UNCHANGED <<units, deps, stage>>, exit = "none", exit' # "none",
             exit' \in {"ok", "ci"} /\ runErr' = NoErr => SettledUnits = units
      PROVE  Order!Next
  <2>1. Begun' = Begun /\ SettledUnits' = SettledUnits
    BY <1>2 DEF Begun, SettledUnits
  <2>2. Verdict = "running"
    BY <1>2 DEF Verdict
  <2>3. Verdict' \in {"whole", "cut", "rejected"}
    BY <1>2 DEF Verdict
  <2>4. Verdict' = "whole" => SettledUnits = DOMAIN deps
    <3>1. Verdict' = "whole" => exit' \in {"ok", "ci"} /\ runErr' = NoErr
      BY <1>2, StepType DEF Verdict, TypeOK, Exits
    <3>2. QED
      BY <1>2, <3>1 DEF TypeOK
  <2>5. Order!Conclude(Verdict')
    BY <1>2, <2>1, <2>2, <2>4 DEF Order!Conclude
  <2>6. QED
    BY <2>3, <2>5 DEF Order!Next, Order!Verdicts
<1>3. CASE Deadline \/ Setup \/ PlanLevel \/ PlanDone
  BY <1>1, <1>3 DEF Deadline, Setup, PlanLevel, PlanDone, ReturnEarly, PhaseInv, Running
<1>4. CASE StartWave
  <2>1. \A u \in units : stage'[u] = stage[u] \/ (stage[u] = "waiting" /\ stage'[u] = "queued")
    <3>1. \A u \in levels[wave] : stage[u] = "waiting"
      BY <1>4 DEF StartWave, WaveInv, TypeOK
    <3>2. QED
      BY <1>4, <3>1 DEF StartWave
  <2>2. Begun' = Begun /\ SettledUnits' = SettledUnits
    <3>1. units' = units
      BY <1>4 DEF StartWave
    <3>2. QED
      BY <2>1, <3>1 DEF Begun, SettledUnits, Settled
  <2>3. Verdict' = Verdict
    BY <1>4 DEF StartWave, Verdict
  <2>4. QED
    BY <1>4, <2>2, <2>3 DEF StartWave, Order!vars
<1>5. CASE WaveDone \/ LoopEnds \/ Merge
  BY <1>1, <1>5 DEF WaveDone, LoopEnds, Merge, PhaseInv, Running
<1>6. CASE Report
  <2>1. runErr = NoErr => SettledUnits = units
    BY <1>6 DEF Report, ResultInv, SettledUnits
  <2>2. exit = "none" /\ exit' # "none"
    BY <1>6 DEF Report, PhaseInv, Running
  <2>3. QED
    BY <1>2, <1>6, <2>1, <2>2 DEF Report
<1>7. CASE MainPanic
  BY <1>2, <1>7 DEF MainPanic, PhaseInv
<1>8. ASSUME NEW w \in Workers, TakeJob(w) PROVE UNCHANGED Order!vars
  <2>1. PICK u \in units : stage[u] = "queued" /\ Move(u, "claimed")
    BY <1>8 DEF TakeJob, TypeOK, PoolInv
  <2>2. QED
    BY <1>8, <2>1, UnseenMove DEF TakeJob, Idle, PhaseInv, Settled
<1>9. ASSUME NEW w \in Workers, NoMoreJobs(w) PROVE UNCHANGED Order!vars
  BY <1>1, <1>9 DEF NoMoreJobs
<1>10. ASSUME NEW w \in Workers, NEW u \in units, UnitStep(w, u)
       PROVE  Order!Next \/ UNCHANGED Order!vars
  <2>1. Running /\ stage[u] \in Held
    BY <1>10 DEF UnitStep, Holds, CheckWork, Classify, Load, Build, Record, Keep, Fail, Held
  <2>2. exit = "none" /\ Verdict = "running"
    BY <2>1 DEF PhaseInv, Verdict
  <2>3. UNCHANGED <<units, deps, exit>> /\ Verdict' = Verdict
    <3>1. UNCHANGED <<units, deps, exit>>
      BY <1>10 DEF UnitStep, CheckWork, Classify, Load, Build, Record, Keep, Fail
    <3>2. QED
      BY <2>2, <3>1 DEF Verdict
  <2>4. ASSUME NEW s \in Settled, Move(u, s), stage[u] \in {"classify", "recorded"}
        PROVE  Order!Next
    <3>1. u \in Begun \ SettledUnits
      BY <2>4 DEF Begun, SettledUnits, Settled
    <3>2. SettledUnits' = SettledUnits \cup {u} /\ Begun' = Begun
      BY <2>3, <2>4 DEF Begun, SettledUnits, Settled, Move, TypeOK
    <3>3. Order!Settle(u)
      BY <2>2, <2>3, <3>1, <3>2 DEF Order!Settle
    <3>4. QED
      BY <3>3 DEF Order!Next, TypeOK
  <2>5. ASSUME stage[u] = "claimed", Move(u, "classify") PROVE Order!Next
    <3>1. u \notin Begun
      BY <2>5 DEF Begun
    <3>2. deps[u] \subseteq SettledUnits
      <4>1. deps[u] \subseteq DependsOn(u)
        BY DEF DependsOn, TypeOK
      <4>2. QED
        BY <2>1, <4>1, DependenciesSettled DEF SettledUnits
    <3>3. Begun' = Begun \cup {u} /\ SettledUnits' = SettledUnits
      BY <2>3, <2>5 DEF Begun, SettledUnits, Settled, Move, TypeOK
    <3>4. Order!Begin(u)
      BY <2>2, <2>3, <3>1, <3>2, <3>3 DEF Order!Begin, TypeOK
    <3>5. QED
      BY <3>4 DEF Order!Next, TypeOK
  <2>6. CASE CheckWork(w, u)
    <3>1. stage[u] = "claimed" /\ (Move(u, "dropped") \/ Move(u, "classify"))
      BY <2>6 DEF CheckWork, Holds
    <3>2. QED
      BY <2>2, <2>3, <2>5, <3>1, UnseenMove DEF Settled
  <2>7. CASE Classify(w, u)
    <3>1. /\ stage[u] = "classify"
          /\ Move(u, "failing") \/ Move(u, "load") \/ Move(u, "excluded")
      BY <2>7 DEF Classify, Holds, Stop
    <3>2. QED
      BY <2>2, <2>3, <2>4, <3>1, UnseenMove DEF Settled
  <2>8. CASE Load(w, u)
    <3>1. stage[u] = "load" /\ (Move(u, "failing") \/ Move(u, "build"))
      BY <2>8 DEF Load, Holds, Stop
    <3>2. QED
      BY <2>2, <2>3, <3>1, UnseenMove DEF Settled
  <2>9. CASE Build(w, u)
    BY <2>2, <2>3, <2>9, UnseenMove DEF Build, Holds, Settled
  <2>10. CASE Record(w, u)
    BY <2>2, <2>3, <2>10, UnseenMove DEF Record, Holds, Settled
  <2>11. CASE Keep(w, u)
    <3>1. stage[u] = "recorded" /\ (Move(u, "failing") \/ Move(u, "done"))
      BY <2>11 DEF Keep, Holds
    <3>2. QED
      BY <2>2, <2>3, <2>4, <3>1, UnseenMove DEF Settled
  <2>12. CASE Fail(w, u)
    BY <2>2, <2>3, <2>12, UnseenMove DEF Fail, Holds, Settled
  <2>13. QED
    BY <1>10, <2>6, <2>7, <2>8, <2>9, <2>10, <2>11, <2>12 DEF UnitStep
<1>11. ASSUME NEW w \in Workers, WorkerPanic(w) PROVE Order!Next
  BY <1>2, <1>11 DEF WorkerPanic, PhaseInv
<1>12. CASE UNCHANGED vars
  BY <1>1, <1>12 DEF vars
<1>13. QED
  BY <1>3, <1>4, <1>5, <1>6, <1>7, <1>8, <1>9, <1>10, <1>11, <1>12
     DEF Next, MainStep, WorkerStep, Ended

(* The waves, the worker pool and the cancellation together are nothing    *)
(* but a way to take the packages in dependency order.                     *)
THEOREM ImplementsOrder == Spec => RefinesOrder
<1>1. Init => Order!Init
  BY DEF Init, Order!Init, Begun, SettledUnits, Settled, Verdict
<1>2. QED
  BY Inductive, StepOrder, <1>1, PTL DEF Spec, RefinesOrder, Order!Spec
-----------------------------------------------------------------------------
(***************************************************************************)
(* When the waves are dependency-first for export data too.                *)
(***************************************************************************)

\* The selection does not change during a run.
Selection == /\ includeTests \in BOOLEAN /\ listing \in Listings[includeTests]
             /\ units = Units(listing, includeTests) /\ roots = Roots(listing, includeTests)
             /\ deps = [u \in units |-> Deps(listing, units, u)]

LEMMA SelectionFixed == Spec => []Selection
<1>1. Init => Selection
  BY DEF Init, Selection
<1>2. [Next]_vars => UNCHANGED inputs
  <2> SUFFICES ASSUME [Next]_vars PROVE UNCHANGED inputs
    OBVIOUS
  <2>1. CASE MainStep \/ Deadline \/ MainPanic \/ UNCHANGED vars
    BY <2>1 DEF MainStep, Setup, ReturnEarly, PlanLevel, PlanDone, StartWave, WaveDone,
       LoopEnds, Merge, Report, Deadline, MainPanic, vars, inputs
  <2>2. ASSUME NEW w \in Workers, WorkerStep(w) \/ WorkerPanic(w) PROVE UNCHANGED inputs
    BY <2>2 DEF WorkerStep, WorkerPanic, TakeJob, NoMoreJobs, UnitStep, CheckWork, Classify,
       Load, Build, Record, Keep, Fail
  <2>3. QED
    BY <2>1, <2>2 DEF Next, Ended
<1>3. Selection /\ UNCHANGED inputs => Selection'
  BY DEF Selection, inputs
<1>4. QED
  BY <1>1, <1>2, <1>3, PTL DEF Spec

\* A root is a package proper that has no variant of its own, or is itself a variant.
LEMMA RootIs ==
  ASSUME includeTests = TRUE, NEW L \in Listings[TRUE], NEW r \in Roots(L, includeTests)
  PROVE  /\ r \in DOMAIN L
         /\ L[r].forTest = NoPath => SameTest(L, r) = {}
         /\ L[r].forTest # NoPath => r \in Variants(L)
<1>1. r \in ExternalTests(L) \/ \E b \in KeptBases(L) : r \in PreferVariant(L, b)
  BY DEF Roots, TestRoots
<1>2. CASE r \in ExternalTests(L)
  BY <1>2 DEF ExternalTests, Variants
<1>3. ASSUME NEW b \in KeptBases(L), r \in PreferVariant(L, b)
      PROVE  /\ r \in DOMAIN L
             /\ L[r].forTest = NoPath => SameTest(L, r) = {}
             /\ L[r].forTest # NoPath => r \in Variants(L)
  <2>1. b \in DOMAIN L /\ L[b].forTest = NoPath
    BY DEF KeptBases, Bases
  <2>2. CASE SameTest(L, b) = {}
    BY <1>3, <2>1, <2>2 DEF PreferVariant
  <2>3. CASE SameTest(L, b) # {}
    BY <1>3, <2>3 DEF PreferVariant, SameTest, Variants
  <2> QED BY <2>2, <2>3
<1> QED BY <1>1, <1>2, <1>3

(* Whatever go list answers, a package and the variant that compiles the   *)
(* same files again are never both diagnosed (selectAnalysisRoots).        *)
THEOREM NoFileTwice == Spec => []NothingTwice
<1>1. Selection => NothingTwice
  <2> SUFFICES ASSUME Selection, NEW p \in roots, NEW v \in roots,
                      listing[v].forTest = p, listing[v].name = listing[p].name
               PROVE  FALSE
    BY DEF NothingTwice
  <2>1. roots = Roots(listing, includeTests) /\ includeTests \in BOOLEAN /\ listing \in Listings[includeTests] /\ roots \subseteq Paths
    BY SelectionTypes DEF Selection
  <2>2. listing[v].forTest # NoPath
    BY <2>1, PathsAssumption DEF NoPath
  <2>3. v \in DOMAIN listing
    BY <2>1, RootsListed
  <2>4. includeTests
    BY <2>1, <2>2, <2>3, VariantsAssumption
  <2>5. p \in DOMAIN listing /\ v \in Variants(listing)
    BY <2>1, <2>2, <2>4, RootIs
  <2>6. listing[p].forTest = NoPath
    BY <2>1, <2>2, <2>3, <2>5, VariantsAssumption
  <2>7. SameTest(listing, p) = {}
    BY <2>1, <2>4, <2>6, RootIs
  <2> QED BY <2>5, <2>7 DEF SameTest
<1> QED BY SelectionFixed, <1>1, PTL

(* Without tests, nothing that the listing has the source of, outside the  *)
(* Go distribution, is left out of the summaries (selectAnalysisUnits).    *)
THEOREM SourceSummarised == Spec => []ReachableSourceSummarised
<1>1. Selection => ReachableSourceSummarised
  <2> SUFFICES ASSUME Selection, ~includeTests, NEW d \in DOMAIN listing,
                      listing[d].source, ~listing[d].standard
               PROVE  d \in units
    BY DEF ReachableSourceSummarised
  <2>1. \A v \in DOMAIN listing : listing[v].forTest = NoPath
    BY VariantsAssumption DEF Selection
  <2>2. CASE listing[d].depOnly
    BY <2>1, <2>2 DEF Selection, Units, SummaryDependencies, IsHarness
  <2>3. CASE ~listing[d].depOnly
    BY <2>1, <2>3 DEF Selection, Units, Roots, OrdinaryRoots
  <2> QED BY <2>2, <2>3
<1> QED BY SelectionFixed, <1>1, PTL

\* Nothing a selected package imports was left out of the selection.
Complete == \A tests \in BOOLEAN : \A L \in Listings[tests] : \A u \in Units(L, tests) :
              L[u].imports \subseteq Units(L, tests)

(* The waves are dependency-first for all that a package can reach,        *)
(* provided the selection is closed under imports.                         *)
(* StandaloneRunTests.cfg shows that the proviso cannot be dropped: with   *)
(* -tests a package may be replaced by its variant.                        *)
THEOREM ReachedComesAfter == ASSUME Complete PROVE Spec => []NeededFirst
<1>1. IInv /\ Selection => NeededFirst
  <2> SUFFICES ASSUME IInv, Selection, NEW u \in units, stage[u] = "build",
                      NEW d \in (Needed(listing, u) \cap units) \ {u}
               PROVE  Committed(d)
    BY DEF NeededFirst
  <2>1. units \subseteq Paths /\ \A p \in units : listing[p].imports \subseteq units
    BY DEF IInv, TypeOK, Selection, Complete
  <2>2. \A p \in units : listing[p].imports \subseteq deps[p] \cup {p}
    BY <2>1 DEF Selection, Deps
  <2>3. ASSUME NEW S \in SUBSET units,
               deps[u] \subseteq S, \A p \in S : deps[p] \subseteq S
        PROVE  d \in S
    <3>1. /\ listing[u].imports \subseteq S \cup {u}
          /\ \A p \in (S \cup {u}) \cap DOMAIN listing :
               listing[p].imports \subseteq S \cup {u}
      BY <2>2, <2>3
    <3>2. S \cup {u} \in SUBSET Paths
      BY <2>1
    <3>3. d \in S \cup {u}
      BY <3>1, <3>2 DEF Needed
    <3>4. QED
      BY <3>3
  <2>4. d \in DependsOn(u)
    BY <2>3 DEF DependsOn
  <2>5. stage[d] \in Settled
    BY <2>4, DependenciesSettled DEF Held
  <2>6. QED
    BY <2>5 DEF IInv, ResultInv, Committed, Settled
<1>2. QED
  BY Inductive, SelectionFixed, <1>1, PTL
=============================================================================
