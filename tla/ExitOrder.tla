----------------------------- MODULE ExitOrder -----------------------------
(***************************************************************************)
(* What computeOrdering of internal/frontend/frontend.go asks of a         *)
(* function's graph: is a cancel function called on every path from where  *)
(* it is made (LL1001), is a group joined on every path from where a       *)
(* worker is started (LL1003, LL1004), and are the group's workers told to *)
(* stop only after they are waited for (LL1005).                           *)
(*                                                                         *)
(* The answers are compared with the executions of the body, in which an   *)
(* acquisition may fail, a condition on the error follows the error, and   *)
(* deferred calls run at the end, the latest first.  Where an execution    *)
(* overwrites a cancel function, it is the last one that is judged.        *)
(***************************************************************************)
EXTENDS CallRoles

CONSTANTS WorkerUses,  \* the contexts the group's workers use
          Parents      \* <<c, p>>: context c is made from context p

-----------------------------------------------------------------------------
\* Where calls are

\* callSitesOf, splitDeferred: a call without a site is passed over.
Placed(g, calls) == {s \in calls : s.id \in DOMAIN g.sites}
SitesOf(g, calls) == {g.sites[s.id] : s \in Placed(g, calls)}
Deferred(calls) == {s \in calls : s.deferred}
BlockSetOf(sites) == {x[1] : x \in sites}

-----------------------------------------------------------------------------
\* Branches on which the acquisition is known to have failed

\* Whether the then branch, and whether the else branch, implies an error.
RECURSIVE Implies(_)
Implies(test) ==
  CASE test.op = "nonnil" -> [yes |-> TRUE, no |-> FALSE]
    [] test.op = "isnil" -> [yes |-> FALSE, no |-> TRUE]
    [] test.op = "and" -> LET x == Implies(test.x)
                              y == Implies(test.y)
                          IN  [yes |-> x.yes \/ y.yes, no |-> x.no /\ y.no]
    [] test.op = "or" -> LET x == Implies(test.x)
                             y == Implies(test.y)
                         IN  [yes |-> x.yes /\ y.yes, no |-> x.no \/ y.no]
    [] test.op = "not" -> LET x == Implies(test.x) IN [yes |-> x.no, no |-> x.yes]
    [] test.op = "other" -> [yes |-> FALSE, no |-> FALSE]

Reassigns(p) == {s.id : s \in CallsOf(p, {"reassign"})}

\* Mutant of StillTheResult: loops are not looked at.
StillBeforeCheck(p, origin, check) ==
  check.id > origin.id /\ \A r \in Reassigns(p) : ~(origin.id < r /\ r < check.id)

\* The error variable still has the acquisition's result at the check.
StillTheResult(p, origin, check) ==
  /\ check.id > origin.id
  /\ \A r \in Reassigns(p) : ~(origin.id < r /\ r < check.id)
  /\ \A loop \in {s \in StmtsOf(p) : s.t = "for" /\ check.id \in IdsIn(s)} :
       origin.id \in IdsIn(loop) \/ Reassigns(p) \cap IdsIn(loop) = {}

\* The edges that lead into the error branch of a check.
ErrorBranchSkipper(p, g, origin) ==
  IF ~origin.fallible \/ CallsOf(p, {"capture"}) # {} THEN {}
  ELSE LET checks == {s \in StmtsOf(p) : /\ s.t = "if" /\ "test" \in DOMAIN s
                                         /\ StillTheResult(p, origin, s)}
       IN  {g.tests[s.id].yes : s \in {c \in checks : Implies(c.test).yes}}
             \cup {g.tests[s.id].no : s \in {c \in checks : Implies(c.test).no}}

-----------------------------------------------------------------------------
\* Is an obligation left open at the end of some path?

\* Mutant of DischargedAfter: the order inside the block is not looked at.
DischargedInBlock(o, after) == \E d \in after : d[1] = o[1]

DischargedAfter(o, after) == \E d \in after : d[1] = o[1] /\ d[2] > o[2]

\* Mutant of MaybeNotBefore: only what comes after the origin counts.
MaybeNotBeforeAlways(g, o, anywhere) == TRUE

\* Some path gets to the origin past no discharge that counts anywhere.
MaybeNotBefore(g, o, anywhere) ==
  anywhere = {} \/ o[1] \in ReachableAvoiding(g, EntryBlock, BlockSetOf(anywhere))

LiveExitReachable(g, origins, after, anywhere, skip) ==
  LET kept == [g EXCEPT !.edges = @ \ skip]
      avoid == BlockSetOf(after \cup anywhere)
  IN  \E o \in origins :
        /\ o[1] \notin BlockSetOf(anywhere)
        /\ ~DischargedAfter(o, after)
        /\ MaybeNotBefore(g, o, anywhere)
        /\ \E e \in kept.edges : e[1] = o[1] /\ ExitBlock \in ReachableAvoiding(kept, e[2], avoid)

\* CalledOnAllPaths and JoinedOnAllPaths: nil is "unknown".
OnAllPaths(bypassed) == IF bypassed THEN "no" ELSE "yes"

CalledOnAllPaths(p, g, origin) ==
  LET calls == Placed(g, CallsOf(p, {"cancel"}))
      maybe == Placed(g, CallsOf(p, {"mayCancel"}))
      skip == ErrorBranchSkipper(p, g, origin)
  IN  IF calls = {} THEN IF maybe # {} THEN "no" ELSE "unknown"
      ELSE IF Placed(g, {origin}) = {} THEN "unknown"
      ELSE OnAllPaths(LiveExitReachable(g, SitesOf(g, {origin}), SitesOf(g, calls \ Deferred(calls)),
                                        SitesOf(g, Deferred(calls)), skip))

JoinedOnAllPaths(p, g) ==
  LET joins == Placed(g, CallsOf(p, {"wait"}))
      starts == Placed(g, CallsOf(p, {"start"}))
  IN  IF joins = {} THEN IF Placed(g, CallsOf(p, {"mayWait"})) # {} THEN "no" ELSE "unknown"
      ELSE IF starts = {} THEN "unknown"
      ELSE OnAllPaths(LiveExitReachable(g, SitesOf(g, starts), {}, SitesOf(g, joins), {}))

-----------------------------------------------------------------------------
\* Is every stop signal of the group sent after a wait?

\* A context is stopped when one it is made from is.
DerivesFromAny(used, target) == \E c \in used : target \in Grow(Parents, {c})

\* A wrapper is assumed to stop the workers; a channel is one they receive from.
IsSignal(s) == s.ctx \in {"wrapper", "channel"} \/ DerivesFromAny(WorkerUses, s.ctx)
StopSignalsFor(p) == {s \in CallsOf(p, {"stop"}) : IsSignal(s)}

StopProvenAfterWait(g, waits, stop) ==
  IF stop[1] \in BlockSetOf(waits) THEN \E w \in waits : w[1] = stop[1] /\ w[2] < stop[2]
  ELSE stop[1] \notin ReachableAvoiding(g, EntryBlock, BlockSetOf(waits))

\* Mutant of WaitDeferredLater: the calls of defer run in the order of registration.
WaitDeferredSooner(g, stop, waits) == \E w \in waits : RegisteredBefore(g, w, stop)

\* Of two deferred calls the one registered later runs first.
WaitDeferredLater(g, stop, waits) == \E w \in waits : RegisteredBefore(g, stop, w)

ComputeStopOrdering(p, g) ==
  LET stops == StopSignalsFor(p)
      waits == Placed(g, CallsOf(p, {"wait"}))
      plain == SitesOf(g, waits \ Deferred(waits))
      after(s) ==
        \/ plain # {} /\ (s.deferred \/ StopProvenAfterWait(g, plain, g.sites[s.id]))
        \/ s.deferred /\ WaitDeferredLater(g, g.sites[s.id], SitesOf(g, Deferred(waits)))
  IN  /\ stops # {} /\ waits # {}
      /\ Placed(g, stops) = stops
      /\ \A s \in stops : after(s)

-----------------------------------------------------------------------------
\* Executions, with what they owe

\* first: which of wait and stop the body has done first; top: which it has deferred last.
Nothing == [owed |-> FALSE, err |-> FALSE, started |-> FALSE, joined |-> FALSE,
            first |-> "none", top |-> "none", waited |-> FALSE, stopped |-> FALSE]

\* A deferred wait beside plain ones is not what LL1005 is about.
Counts(p, s) == IF s.act = "stop" THEN IsSignal(s)
                ELSE s.deferred => \A w \in CallsOf(p, {"wait"}) : w.deferred

Ordered(p, s, m) ==
  IF ~Counts(p, s) THEN m
  ELSE LET n == IF s.act = "wait" THEN [m EXCEPT !.waited = TRUE] ELSE [m EXCEPT !.stopped = TRUE]
       IN  IF s.deferred THEN [n EXCEPT !.top = s.act]
           ELSE IF m.first = "none" THEN [n EXCEPT !.first = s.act] ELSE n

Effects(p, s, m) ==
  CASE Act(s) = "acquire" -> {[m EXCEPT !.owed = TRUE, !.err = FALSE]}
                               \cup (IF s.fallible THEN {[m EXCEPT !.owed = FALSE, !.err = TRUE]} ELSE {})
    [] Act(s) = "cancel" -> {[m EXCEPT !.owed = FALSE]}
    [] Act(s) = "mayCancel" -> {m, [m EXCEPT !.owed = FALSE]}
    [] Act(s) \in {"reassign", "capture"} -> {[m EXCEPT !.err = e] : e \in BOOLEAN}
    [] Act(s) = "start" -> {[m EXCEPT !.started = @ \/ s.t = "call"]}  \* a nested one is not judged
    [] Act(s) = "wait" -> {Ordered(p, s, [m EXCEPT !.joined = TRUE])}
    [] Act(s) = "mayWait" -> {m, [m EXCEPT !.joined = TRUE]}
    [] Act(s) = "stop" -> {Ordered(p, s, m)}
    [] Act(s) = "none" -> {m}

RECURSIVE Values(_, _)
Values(test, err) ==
  CASE test.op = "nonnil" -> {err}
    [] test.op = "isnil" -> {~err}
    [] test.op = "and" -> {x /\ y : x \in Values(test.x, err), y \in Values(test.y, err)}
    [] test.op = "or" -> {x \/ y : x \in Values(test.x, err), y \in Values(test.y, err)}
    [] test.op = "not" -> {~x : x \in Values(test.x, err)}
    [] test.op = "other" -> BOOLEAN

\* The statements that come next, the condition of a branch being what the error makes it.
Continuations(p, k, m) ==
  LET s == HeadStmt(k)
      arms == {IF v THEN s.then ELSE s.else : v \in Values(s.test, m.err)}
  IN  IF s.t = "if" /\ "test" \in DOMAIN s /\ s.init = <<>>
        THEN {Seq1(arm) \o Seq1(Tail(Head(k).list)) \o Tail(k) : arm \in arms}
        ELSE Steps(p, k)

RECURSIVE ExploreMemory(_, _, _)
ExploreMemory(p, seen, new) ==
  IF new = {} THEN seen
  ELSE LET next == UNION {Continuations(p, x[1], x[2]) \X Effects(p, HeadStmt(x[1]), x[2]) : x \in new}
       IN  ExploreMemory(p, seen \cup next, next \ seen)

\* How an execution of the program may end.
Ends(p) == LET start == {<<Seq1(p), Nothing>>}
           IN  {x[2] : x \in {y \in ExploreMemory(p, start, start) : y[1] = <<>>}}

Runs1(m) == IF m.first # "none" THEN m.first ELSE m.top
WaitsFirst(m) == m.waited /\ Runs1(m) = "wait"

-----------------------------------------------------------------------------

Origins(p) == CallsOf(p, {"acquire"})

(* A cancel function is reported as not called on all paths exactly if an  *)
(* execution can end without a call of the last one it made: no early      *)
(* return is missed, and none on which the factory failed, or has not yet  *)
(* been called, is reported.  Where only a callee may call it nobody asks  *)
(* for a path.                                                             *)
CleanupIsExact ==
  Started /\ Origins(program) # {} =>
    LET ends == Ends(program)
    IN  \A o \in Origins(program) :
          /\ CalledOnAllPaths(program, graph, o) = "yes" => \A m \in ends : ~m.owed
          /\ /\ CallsOf(program, {"cancel"}) # {}
             /\ CalledOnAllPaths(program, graph, o) = "no"
             => \E m \in ends : m.owed

(* A group is reported as not joined on all paths exactly if an execution  *)
(* can end that has started a worker and has not waited, before or after.  *)
JoinIsExact ==
  Started /\ CallsOf(program, {"start"}) # {} =>
    LET ends == Ends(program)
    IN  /\ JoinedOnAllPaths(program, graph) = "yes" => \A m \in ends : m.started => m.joined
        /\ /\ CallsOf(program, {"wait"}) # {}
           /\ JoinedOnAllPaths(program, graph) = "no"
           => \E m \in ends : m.started /\ ~m.joined

(* LL1005 says that the workers' stop signal comes after the wait: it is   *)
(* reported only if every execution that does both waits first, and if     *)
(* every execution that sends a signal has waited first it is reported,    *)
(* unless a signal shares its block with a wait that comes later, or all   *)
(* waits are deferred and not every wait has the one signal before it.     *)
SharesWithLaterWait(p, g) ==
  \E s \in Placed(g, CallsOf(p, {"stop"})) : \E w \in Placed(g, CallsOf(p, {"wait"})) :
    g.sites[s.id][1] = g.sites[w.id][1] /\ g.sites[s.id][2] < g.sites[w.id][2]

StopOrderHolds ==
  Started /\ CallsOf(program, {"stop"}) # {} =>
    LET ends == Ends(program)
    IN  /\ ComputeStopOrdering(program, graph) => \A m \in ends : m.waited /\ m.stopped => WaitsFirst(m)
        /\ /\ \A s \in StopSignalsFor(program) : s.id \in DOMAIN graph.sites
           /\ \E m \in ends : m.waited /\ m.stopped
           /\ \A m \in ends : m.stopped => WaitsFirst(m)
           /\ \/ \E w \in CallsOf(program, {"wait"}) : ~w.deferred
              \/ /\ \A m \in ends : m.waited => m.stopped
                 /\ Cardinality(StopSignalsFor(program)) = 1
           => ComputeStopOrdering(program, graph) \/ SharesWithLaterWait(program, graph)
=============================================================================
