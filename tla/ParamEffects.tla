---------------------------- MODULE ParamEffects ----------------------------
(***************************************************************************)
(* What a function does with a cancel function that it is passed:          *)
(* computeParameterEffectFixedPoint of internal/frontend/frontend.go.      *)
(*                                                                         *)
(* Every function has one parameter of that kind.  Its body is the set of  *)
(* its paths from entry to return, and a path is the set of what happens   *)
(* to the parameter on it: it is called, stored, returned, passed to a     *)
(* function of the package, or passed to one inside a literal that is      *)
(* invoked on the spot.  The worklist is a set: the summaries must not     *)
(* depend on the order in which functions are declared or revisited.       *)
(***************************************************************************)
EXTENDS FiniteSets

CONSTANTS Funcs,     \* the functions of a package
          Programs   \* records of their bodies and of those max_functions admits

Calls == [op: {"pass", "invoke"}, to: Funcs]
Event == Calls \cup [op: {"cancel", "store", "return"}]
Bits == {"may", "must", "returns", "opaque"}

ASSUME FuncsAssumption == IsFiniteSet(Funcs)
ASSUME ProgramsAssumption ==
  Programs \subseteq [body: [Funcs -> SUBSET (SUBSET Event)], selected: SUBSET Funcs]

VARIABLES program,
          effects,  \* paramEffects: the effects recorded of each function
          known,    \* the functions that have an entry there
          queued

vars == <<program, effects, known, queued>>

TypeOK == /\ DOMAIN program = {"body", "selected"}
          /\ effects \in [Funcs -> SUBSET Bits]
          /\ known \subseteq program.selected
          /\ queued \subseteq program.selected
          /\ \A f \in Funcs \ known : effects[f] = {}

Events(f) == UNION program.body[f]
CallEvents(f) == {e \in Events(f) : e.op \in {"pass", "invoke"}}
Callees(f) == {e.to : e \in CallEvents(f)}

-----------------------------------------------------------------------------
\* One evaluation of a function, with what is known of the others.

Hands(E) == E \cap {"returns", "opaque"} # {}

\* What passing the value to a function with effects E is to the caller.
Outcome(E) == IF Hands(E) THEN "hands"
              ELSE IF "must" \in E THEN "must"
              ELSE IF "may" \in E THEN "may"
              ELSE "none"

\* A function in the same recursion cycle as f.
Reaches(g, f) == \A S \in SUBSET Funcs : (g \in S /\ \A x \in S : Callees(x) \subseteq S) => f \in S
RecursivePasses(f) == {e \in Events(f) : e.op = "pass" /\ Reaches(e.to, f)}

\* Mutant of Discharges: a callee that cancels on some paths discharges.
DischargesIfMay(f) ==
  {e \in Events(f) : \/ e.op = "cancel"
                     \/ e.op = "pass" /\ e.to \in known /\ Outcome(effects[e.to]) \in {"must", "may"}
                     \/ e.op = "invoke" /\ e.to \in known /\ "must" \in effects[e.to]}

\* The calls that cancel: the value's own, and those to a function that does on every path.
Discharges(f) ==
  {e \in Events(f) : \/ e.op = "cancel"
                     \/ e.op = "pass" /\ e.to \in known /\ Outcome(effects[e.to]) = "must"
                     \/ e.op = "invoke" /\ e.to \in known /\ "must" \in effects[e.to]}

MayCalls(f) ==
  {e \in Events(f) : \/ e.op = "pass" /\ e.to \in known /\ Outcome(effects[e.to]) = "may"
                     \/ /\ e.op = "invoke" /\ e.to \in known
                        /\ "may" \in effects[e.to] /\ "must" \notin effects[e.to]}

\* A callee without an entry says nothing yet, except inside a literal, where it widens.
Escapes(f) ==
  \E e \in Events(f) : \/ e.op = "store"
                       \/ e.op = "pass" /\ e.to \in known /\ Hands(effects[e.to])
                       \/ e.op = "invoke" /\ (e.to \in known => Hands(effects[e.to]))

Returned(f) == \E e \in Events(f) : e.op = "return"

ParamEffectOf(f) ==
  LET live == Discharges(f)
      covered == live \cup RecursivePasses(f)
  IN  (IF live \cup MayCalls(f) # {} THEN {"may"} ELSE {})
        \cup (IF live # {} /\ \A p \in program.body[f] : p \cap covered # {} THEN {"must"} ELSE {})
        \cup (IF Returned(f) THEN {"returns"} ELSE IF Escapes(f) THEN {"opaque"} ELSE {})

-----------------------------------------------------------------------------

\* Mutant of Reverse: a call inside a literal makes no dependency.
ReverseOfPasses(g) ==
  {f \in program.selected : \E e \in CallEvents(f) : e.op = "pass" /\ e.to = g}

\* Who has to be looked at again when the summary of g grows.
Reverse(g) == {f \in program.selected : g \in Callees(f)}

Init == /\ program \in Programs
        /\ effects = [f \in Funcs |-> {}]
        /\ known = {}
        /\ queued = program.selected

\* recordParamEffects: the set grew, or it is the first time.
Changed(f) == f \notin known \/ ~(ParamEffectOf(f) \subseteq effects[f])

\* Mutant of Evaluate: whoever depends on an evaluated function is queued, changed or not.
EvaluateAlways(f) ==
  /\ f \in queued
  /\ effects' = [effects EXCEPT ![f] = @ \cup ParamEffectOf(f)]
  /\ known' = known \cup {f}
  /\ queued' = (queued \ {f}) \cup Reverse(f)
  /\ UNCHANGED program

\* One turn of the worklist.
Evaluate(f) ==
  /\ f \in queued
  /\ effects' = [effects EXCEPT ![f] = @ \cup ParamEffectOf(f)]
  /\ known' = known \cup {f}
  /\ queued' = (queued \ {f}) \cup (IF Changed(f) THEN Reverse(f) ELSE {})
  /\ UNCHANGED program

Next == \E f \in Funcs : Evaluate(f)

Spec == Init /\ [][Next]_vars /\ WF_vars(Next)

\* How the owner of a cancel function that passes it to f is judged afterwards.
Judged(f) == IF f \in known THEN Outcome(effects[f]) ELSE "hands"

-----------------------------------------------------------------------------
\* What the functions do when they run.  Each is a least set of functions.

Least(f, closed(_)) == \A S \in SUBSET Funcs : closed(S) => f \in S

Untouched(p) == \A e \in p : e.op \in {"pass", "invoke"}
KeepClosed(S) ==
  \A f \in Funcs : (\E p \in program.body[f] : Untouched(p) /\ \A e \in p : e.to \in S) => f \in S
CancelClosed(S) ==
  \A f \in Funcs : ((\E e \in Events(f) : e.op = "cancel") \/ Callees(f) \cap S # {}) => f \in S
ReturnClosed(S) ==
  \A f \in Funcs : (\E p \in program.body[f] : \A e \in p : "to" \in DOMAIN e => e.to \in S) => f \in S
HandClosed(S) ==
  \A f \in Funcs :
    ((\E e \in Events(f) : e.op \in {"store", "return"}) \/ Callees(f) \cap S # {}) => f \in S

MayKeep(f) == Least(f, KeepClosed)     \* it can return with nothing done to the value
MayCancel(f) == Least(f, CancelClosed)
MayHand(f) == Least(f, HandClosed)

Actual(f) == IF MayHand(f) THEN "hands"
             ELSE IF ~MayCancel(f) THEN "none"
             ELSE IF MayKeep(f) THEN "may"
             ELSE "must"

\* What f depends on was all admitted.
Below(f) == {g \in Funcs : Reaches(f, g)}
Admitted(f) == Below(f) \subseteq program.selected

\* A recursion through several functions, one of which can return with nothing done.
LeavesRecursion(f) ==
  \E g, x \in Below(f) : g # x /\ Reaches(g, x) /\ Reaches(x, g) /\ MayKeep(x)

\* Every function below f can return at all: the analysis takes every call to return.
Bottoms(f) == \A g \in Below(f) : Least(g, ReturnClosed)

\* A literal is involved somewhere below f.
Literals(f) == \E g \in Below(f) : \E e \in Events(g) : e.op = "invoke"

(* No summary is stale: what an evaluation of a function would say now is  *)
(* recorded of it, unless the function is about to be evaluated again      *)
(* (computeParameterEffectFixedPoint, its reverse dependencies).           *)
NoStaleSummary ==
  \A f \in program.selected \ queued : f \in known /\ ParamEffectOf(f) \subseteq effects[f]

(* When the worklist is empty the summaries are what the functions do, in  *)
(* whichever order they were computed.  Where literals are involved a      *)
(* summary may say that the value is handed on, or only sometimes          *)
(* cancelled; recursion that has no bottom is not judged, and one through  *)
(* several functions is left to MustMeansEveryPath.                        *)
SummariesExact ==
  queued = {} =>
    \A f \in program.selected :
      Admitted(f) /\ Bottoms(f) /\ ~LeavesRecursion(f) =>
        \/ Judged(f) = Actual(f)
        \/ Literals(f) /\ (Judged(f) = "hands" \/ (Judged(f) = "may" /\ Actual(f) = "must"))

(* The comment on EffectMust, every normal path from entry to exit cancels: *)
(* a function recorded so never returns with nothing done to the value.    *)
MustMeansEveryPath ==
  queued = {} => \A f \in program.selected : Judged(f) = "must" => ~MayKeep(f)

(* The worklist runs dry, recursion or not.                                *)
Terminates == <>(queued = {})
=============================================================================
