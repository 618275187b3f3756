---------------------------- MODULE GroupBalance ----------------------------
(***************************************************************************)
(* The Add and Done of one wait group in the body of its owner, counted    *)
(* without running it: computeGroupBalances and computeGroupRoundBalances  *)
(* of internal/frontend/frontend.go.  A claim is made only from amounts    *)
(* that are literal; a loop counts as nothing when each round adds one and *)
(* starts one worker, a branch when each of its arms adds up to nothing.   *)
(*                                                                         *)
(* The claims are compared with the executions of the body, in which a     *)
(* worker that may call Done does.                                         *)
(***************************************************************************)
EXTENDS CallRoles

CONSTANT CountBound  \* executions are followed while the counter is within it

-----------------------------------------------------------------------------

\* What has been counted; inLoop says that the rest belongs to the round of a loop.
NothingCounted == [add |-> 0, done |-> 0, spawned |-> 0, known |-> TRUE,
                          inLoop |-> FALSE, addOnes |-> 0, spawnedDones |-> 0, other |-> FALSE]

Unknown(w) == IF w.inLoop THEN [w EXCEPT !.other = TRUE] ELSE [w EXCEPT !.known = FALSE]

\* An amount that is not a literal, or not one that adds.
NotLiteral == -1

NoteAdd(w, n) ==
  CASE w.inLoop /\ n = 1 -> [w EXCEPT !.addOnes = @ + 1]
    [] ~w.inLoop /\ n # NotLiteral -> [w EXCEPT !.add = @ + n]
    [] OTHER -> Unknown(w)

NoteDone(w) == IF w.inLoop THEN Unknown(w) ELSE [w EXCEPT !.done = @ + 1]

NoteSpawnedDone(w) ==
  IF w.inLoop THEN [w EXCEPT !.spawnedDones = @ + 1]
  ELSE [w EXCEPT !.done = @ + 1, !.spawned = @ + 1]

\* Mutant of FoldConditionalArms: it is enough that the arms agree.
FoldArmsThatAgree(w, arms) ==
  IF \A a, b \in arms : a.known /\ a.add - a.done = b.add - b.done THEN w ELSE Unknown(w)

\* Which arm runs is not known, so each has to come to nothing.
FoldConditionalArms(w, arms) ==
  IF \A a \in arms : a.known /\ a.add = a.done THEN w ELSE Unknown(w)

\* A loop always goes to the totals, also from inside another loop.
CloseLoopScope(w, inner) ==
  [w EXCEPT !.known = inner.known /\ ~inner.other /\ inner.addOnes = inner.spawnedDones]

RECURSIVE Walk(_, _)
WalkList(w, list) == FoldLeft(Walk, w, list)
Arm1(list) == WalkList(NothingCounted, list)

FoldLoopBody(w, body) ==
  CloseLoopScope(w, WalkList([NothingCounted EXCEPT !.known = w.known, !.inLoop = TRUE], body))

CaseArms(s) == {Arm1(c.body) : c \in ToSet(s.cases)}
                 \cup (IF s.t = "switch" /\ MayMatchNothing(s) THEN {NothingCounted} ELSE {})

\* The initialisation of a statement and the post statement of a loop are not looked at.
Walk(w, s) ==
  CASE Act(s) = "add" -> NoteAdd(w, s.n)
    [] Act(s) = "done" -> NoteDone(w)
    [] Act(s) = "go" /\ s.mayDone -> NoteSpawnedDone(w)
    [] s.t = "block" -> WalkList(w, s.list)
    [] s.t = "if" /\ s.cond = "true" -> WalkList(w, s.then)
    [] s.t = "if" /\ s.cond = "false" -> WalkList(w, s.else)
    [] s.t = "if" /\ s.cond = "?" -> FoldConditionalArms(w, {Arm1(s.then), Arm1(s.else)})
    [] s.t = "for" /\ s.cond # "false" -> FoldLoopBody(w, s.body)
    [] s.t \in {"switch", "select"} -> FoldConditionalArms(w, CaseArms(s))
    [] s.t = "label" -> Walk(w, s.stmt)
    [] OTHER -> w

-----------------------------------------------------------------------------
\* Rounds: what lies between one wait at the top of the body and the next.

RECURSIVE Flatten(_)
Flatten(list) ==
  FoldLeft(LAMBDA out, s : out \o (CASE s.t = "block" -> Flatten(s.list)
                                     [] s.t = "label" -> Flatten(<<s.stmt>>)
                                     [] OTHER -> <<s>>), <<>>, list)
\* A deferred wait is not reached where it is written.
IsBoundary(s) == Act(s) = "wait" /\ ~s.deferred

WaitPositions(list) == {i \in DOMAIN list : IsBoundary(list[i])}

Outstanding(w) == w.known /\ w.add > w.done

\* Counts run on from one wait to the next.
Segment(list, i) == SubSeq(list, 1, i - 1)

CountMismatch(p) ==
  LET list == Flatten(p)
  IN  \/ Outstanding(Arm1(p))
      \/ \E i \in WaitPositions(list) : Outstanding(Arm1(Segment(list, i)))

\* Mutant of TrailingFrom: the trailing round is taken to begin at the first wait.
TrailingFromFirst(waits) == Min(waits) + 1

TrailingFrom(waits) == Max(waits) + 1

UnjoinedRound(p) ==
  LET list == Flatten(p)
      waits == WaitPositions(list)
  IN  waits # {} /\ Arm1(SubSeq(list, TrailingFrom(waits), Len(list))).spawned > 0

-----------------------------------------------------------------------------
\* Executions: the counter, and whether a wait was reached with workers outstanding,
\* a worker was started since, a wait is deferred, and the end was reached by a return.

Start == [count |-> 0, stuck |-> FALSE, open |-> FALSE, waited |-> FALSE, deferred |-> FALSE, left |-> FALSE]

Amounts(n) == IF n = NotLiteral THEN 1..2 ELSE {n}

CountEffects(s, m) ==
  CASE s.t \in {"return", "panic"} -> {[m EXCEPT !.left = TRUE]}
    [] Act(s) = "add" -> {[m EXCEPT !.count = @ + n] : n \in Amounts(s.n)}
    [] Act(s) = "done" -> {[m EXCEPT !.count = @ - 1]}
    [] Act(s) = "go" -> {[m EXCEPT !.count = IF s.mayDone THEN @ - 1 ELSE @, !.open = @ \/ s.mayDone]}
    [] Act(s) = "wait" /\ s.deferred -> {[m EXCEPT !.deferred = TRUE]}
    [] Act(s) = "wait" -> {[m EXCEPT !.stuck = @ \/ m.count > 0, !.open = FALSE, !.waited = TRUE]}
    [] OTHER -> {m}

RECURSIVE ExploreCounts(_, _, _)
ExploreCounts(p, seen, new) ==
  IF new = {} THEN seen
  ELSE LET next == UNION {Steps(p, x[1]) \X CountEffects(HeadStmt(x[1]), x[2]) : x \in new}
           kept == {x \in next : x[2].count \in -CountBound..CountBound} \ seen
       IN  ExploreCounts(p, seen \cup kept, kept)

\* How the executions end that run to the end of the body.
CountEnds(p) == LET start == {<<Seq1(p), Start>>}
           IN  {x[2] : x \in {y \in ExploreCounts(p, start, start) : y[1] = <<>> /\ ~y[2].left}}

Straight(p) == \A s \in StmtsOf(p) : s.t = "call" /\ Act(s) # "none" /\ (Act(s) = "add" => s.n # NotLiteral)

-----------------------------------------------------------------------------

HasGroup(p) == CallsOf(p, {"add", "done", "go"}) # {}

(* Add and Done are reported as not matching only if every execution that  *)
(* runs through the body gets to a wait, or to the end, with a worker      *)
(* outstanding, whatever the workers do; in a body that is one list of     *)
(* calls with literal amounts, exactly then.                               *)
MismatchIsProved ==
  Started /\ HasGroup(program) =>
    LET ends == CountEnds(program)
        proved == \A m \in ends : m.stuck \/ m.count > 0
    IN  /\ CountMismatch(program) => proved
        /\ Straight(program) /\ ends # {} /\ proved => CountMismatch(program)

(* A further round of work is reported as not joined only if every         *)
(* execution that runs through the body ends with a worker that it started *)
(* after its last wait, a deferred wait being the last of all; in a body   *)
(* that is one list of calls, exactly then.                                *)
UnjoinedIsReal ==
  Started /\ HasGroup(program) =>
    LET ends == CountEnds(program)
        open == \A m \in ends : m.waited /\ m.open /\ ~m.deferred
    IN  /\ UnjoinedRound(program) => open
        /\ Straight(program) /\ ends # {} /\ open => UnjoinedRound(program)
=============================================================================
