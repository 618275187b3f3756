------------------------------ MODULE CfgBuild ------------------------------
(***************************************************************************)
(* The control flow graph of a function body: BuildContext of              *)
(* internal/cfg/cfg.go as operators on the builder b.                      *)
(*                                                                         *)
(* A statement is a record with a type t; a body is a sequence of them.    *)
(* A block is a number, and b.blocks says how many instructions each has,  *)
(* so that a call site is a pair <<block, index>>.  What the graph queries *)
(* cannot see is left out: edge kinds and labels, spans, the text of an    *)
(* instruction.  For the same reason a range loop is a loop with a         *)
(* condition that is not constant, a loop without a condition is one whose *)
(* condition is constantly true, and a type switch is a switch.            *)
(***************************************************************************)
EXTENDS Integers, SequencesExt

Invalid == 0
EntryBlock == 1
ExitBlock == 2

\* blocks, edges, the block being filled, break and continue targets, labels, call sites,
\* and for every branch with an identity the edges its condition leads along
NewBuilder == [blocks |-> <<0, 0>>, edges |-> {}, current |-> EntryBlock,
               frames |-> <<>>, labels |-> <<>>, sites |-> <<>>, tests |-> <<>>]

Next1(b) == Len(b.blocks) + 1
New(b) == [b EXCEPT !.blocks = Append(@, 0)]
At(b, id) == [b EXCEPT !.current = id]
Edge(b, from, to) ==
  IF from = Invalid \/ to = Invalid THEN b ELSE [b EXCEPT !.edges = @ \cup {<<from, to>>}]

\* Mutant of EdgeIf: the value of a constant condition is not looked at.
EdgeAlways(possible, b, from, to) == Edge(b, from, to)

\* A branch the condition leaves open.
EdgeIf(possible, b, from, to) == IF possible THEN Edge(b, from, to) ELSE b

\* A statement after a terminating one gets a block that nothing leads to.
EnsureCurrent(b) == IF b.current = Invalid THEN At(New(b), Next1(b)) ELSE b

Emit(b) == LET c == EnsureCurrent(b) IN [c EXCEPT !.blocks[c.current] = @ + 1]

\* The call is at the index the next instruction will get.
RecordCall(b, id) ==
  LET c == EnsureCurrent(b)
  IN  [c EXCEPT !.sites = (id :> <<c.current, c.blocks[c.current]>>) @@ @]

\* An edge from the current block, after which nothing is current.
Leave(b, to) == LET c == EnsureCurrent(b) IN At(Edge(c, c.current, to), Invalid)

RECURSIVE Stmt(_, _, _)
StmtList(b, list) == FoldLeft(LAMBDA a, s : Stmt(a, s, ""), b, list)

\* A block with statements, and an edge from where they end, if they do.
Arm(b, from, list, to) == LET a == StmtList(At(b, from), list) IN Edge(a, a.current, to)

-----------------------------------------------------------------------------
\* Simple statements

\* Mutant of TrustedStop: the callee is taken to end the goroutine always.
TrustedStopTerminates(b, s) == Leave(Emit(RecordCall(b, s.id)), ExitBlock)

\* A trusted stop call may end the goroutine, or return.
TrustedStop(b, s) ==
  LET c == Emit(RecordCall(b, s.id))
      next == Next1(c)
  IN  At(Edge(Edge(New(c), c.current, next), c.current, ExitBlock), next)

Call(b, s) == Emit(RecordCall(b, s.id))
Return(b, s) == Leave(Emit(RecordCall(b, s.id)), ExitBlock)
Panic(b) == Leave(Emit(b), ExitBlock)

\* The innermost frame that ok allows, if there is one.
Innermost(frames, label, ok) ==
  LET fit == {i \in ok : label = "" \/ frames[i].label = label} IN IF fit = {} THEN 0 ELSE Max(fit)

\* Mutant of ResolveBreak: a labelled break leaves the innermost statement.
BreakInnermost(b, label) == IF b.frames = <<>> THEN Invalid ELSE Last(b.frames).breakTo

ResolveBreak(b, label) ==
  LET i == Innermost(b.frames, label, DOMAIN b.frames)
  IN  IF i = 0 THEN Invalid ELSE b.frames[i].breakTo

ResolveContinue(b, label) ==
  LET i == Innermost(b.frames, label, {j \in DOMAIN b.frames : b.frames[j].isLoop})
  IN  IF i = 0 THEN Invalid ELSE b.frames[i].continueTo

\* A fallthrough gets here only if the case's list did not end with it: an opaque instruction.
Branch(b, s) ==
  CASE s.tok = "break" -> Leave(b, ResolveBreak(b, s.label))
    [] s.tok = "continue" -> Leave(b, ResolveContinue(b, s.label))
    [] s.tok = "goto" -> Leave(b, b.labels[s.label])
    [] s.tok = "fallthrough" -> Emit(b)

-----------------------------------------------------------------------------
\* Compound statements.  A condition is "true" or "false" when it is constant, else "?".

\* The edges of a branch are told apart by its condition.
Tested(b, s, from, then, else) ==
  IF "id" \in DOMAIN s
    THEN [b EXCEPT !.tests = (s.id :> [yes |-> <<from, then>>, no |-> <<from, else>>]) @@ @]
    ELSE b

IfStmt(b, s) ==
  LET i == EnsureCurrent(StmtList(b, s.init))
      then == Next1(i)
      after == then + 1
      t == Arm(EdgeIf(s.cond # "false", New(New(i)), i.current, then), then, s.then, after)
      else == IF s.else = <<>> THEN after ELSE Next1(t)
      branched == EdgeIf(s.cond # "true", IF s.else = <<>> THEN t ELSE New(t), i.current, else)
      ended == IF s.else = <<>> THEN branched ELSE Arm(branched, else, s.else, after)
  IN  At(Tested(ended, s, i.current, then, else), after)

Frame(b, label, isLoop, breakTo, continueTo) ==
  [b EXCEPT !.frames = Append(@, [label |-> label, isLoop |-> isLoop,
                                  breakTo |-> breakTo, continueTo |-> continueTo])]

\* Mutant of Unframe: the statement stays a target of break and continue.
UnframeNothing(b, after) == At(b, after)

Unframe(b, after) == At([b EXCEPT !.frames = Front(@)], after)

\* Mutant of ContinueTo: past the post statement.
ContinueToHeader(s, header, post) == header

\* Where continue goes.
ContinueTo(s, header, post) == IF s.post = <<>> THEN header ELSE post

Loop(b, s, label) ==
  LET i == StmtList(b, s.init)
      header == Next1(i)
      h == EnsureCurrent(New(i))
      body == Next1(h)
      after == body + 1
      post == body + 2
      again == ContinueTo(s, header, post)
      blocks == IF s.post = <<>> THEN New(New(h)) ELSE New(New(New(h)))
      entered == Edge(blocks, h.current, header)
      tested == EdgeIf(s.cond # "true", EdgeIf(s.cond # "false", entered, header, body),
                       header, after)
      run == Arm(Frame(tested, label, TRUE, after, again), body, s.body,
                 IF s.post = <<>> THEN header ELSE post)
      posted == IF s.post = <<>> THEN run
                ELSE LET p == EnsureCurrent(StmtList(At(run, post), s.post))
                     IN  Edge(p, p.current, header)
  IN  Unframe(posted, after)

IsFallthrough(s) == s.t = "branch" /\ s.tok = "fallthrough"

\* Case i, whose block is first + i: up to a fallthrough, which must be its last statement.
CaseBody(b, s, i, head, first, after) ==
  LET body == s.cases[i].body
      at == {j \in DOMAIN body : IsFallthrough(body[j])}
      falls == at # {} /\ Min(at) = Len(body) /\ i < Len(s.cases)
      list == IF at = {} THEN body ELSE SubSeq(body, 1, Min(at) - 1)
  IN  Arm(Edge(b, head, first + i), first + i, list, IF falls THEN first + i + 1 ELSE after)

\* Mutant of MayMatchNothing: the edge past all cases is there with a default too.
AlwaysNoMatch(s) == TRUE

MayMatchNothing(s) == \A i \in DOMAIN s.cases : ~s.cases[i].default

Switch(b, s, label) ==
  LET h == EnsureCurrent(StmtList(b, s.init))
      after == Next1(h)
      cases == [i \in DOMAIN s.cases |-> i]
      blocks == FoldLeft(LAMBDA a, i : New(a), Frame(New(h), label, FALSE, after, Invalid), cases)
      matched == EdgeIf(MayMatchNothing(s), blocks, h.current, after)
  IN  Unframe(FoldLeft(LAMBDA a, i : CaseBody(a, s, i, h.current, after, after), matched, cases),
              after)

\* No edge past the cases: a select without a default blocks.
Select(b, s, label) ==
  LET h == EnsureCurrent(b)
      after == Next1(h)
      comm(a, c) == Arm(Edge(New(a), h.current, Next1(a)), Next1(a), c.body, after)
  IN  Unframe(FoldLeft(comm, Frame(New(h), label, FALSE, after, Invalid), s.cases), after)

Labelled(b, s) ==
  LET to == b.labels[s.label]
  IN  Stmt(At(EdgeIf(b.current # to, b, b.current, to), to), s.stmt, s.label)

Stmt(b, s, label) ==
  CASE s.t = "call" -> Call(b, s)
    [] s.t = "stop" -> TrustedStop(b, s)
    [] s.t = "nested" -> Emit(b)  \* a call inside a larger expression has no site
    [] s.t = "panic" -> Panic(b)
    [] s.t = "return" -> Return(b, s)
    [] s.t = "empty" -> b
    [] s.t = "block" -> StmtList(b, s.list)
    [] s.t = "label" -> Labelled(b, s)
    [] s.t = "branch" -> Branch(b, s)
    [] s.t = "if" -> IfStmt(b, s)
    [] s.t = "for" -> Loop(b, s, label)
    [] s.t = "switch" -> Switch(b, s, label)
    [] s.t = "select" -> Select(b, s, label)

-----------------------------------------------------------------------------

\* The labels of a body, wherever they are.
RECURSIVE LabelsOf(_)
Parts(s) == CASE s.t = "block" -> <<s.list>>
              [] s.t = "label" -> << <<s.stmt>> >>
              [] s.t = "if" -> <<s.init, s.then, s.else>>
              [] s.t = "for" -> <<s.init, s.post, s.body>>
              [] s.t = "switch" -> <<s.init>> \o [i \in DOMAIN s.cases |-> s.cases[i].body]
              [] s.t = "select" -> [i \in DOMAIN s.cases |-> s.cases[i].body]
              [] OTHER -> <<>>
LabelsOf(list) ==
  UNION {(IF s.t = "label" THEN {s.label} ELSE {}) \cup UNION {LabelsOf(p) : p \in ToSet(Parts(s))}
         : s \in ToSet(list)}

\* Every label has its block before the first statement, so that goto can lead forwards.
PreAllocateLabels(b, list) ==
  FoldLeft(LAMBDA a, l : [New(a) EXCEPT !.labels = (l :> Next1(a)) @@ @], b, SetToSeq(LabelsOf(list)))

Build(list) == LET b == StmtList(PreAllocateLabels(NewBuilder, list), list)
               IN  Edge(b, b.current, ExitBlock)

-----------------------------------------------------------------------------
\* What is asked of a graph; module GraphSearch has the search itself.

RECURSIVE Grow(_, _)
Grow(edges, S) == LET more == S \cup {e[2] : e \in {x \in edges : x[1] \in S}}
                  IN  IF more = S THEN S ELSE Grow(edges, more)
Reachable(g, start) == Grow(g.edges, {start})
ReachableAvoiding(g, start, avoid) ==
  IF start \in avoid THEN {} ELSE Grow({e \in g.edges : e[2] \notin avoid}, {start})

\* The statement at site x has run before the one at site y whenever that runs.
RegisteredBefore(g, x, y) ==
  IF x[1] = y[1] THEN x[2] < y[2]
  ELSE y[1] \notin ReachableAvoiding(g, EntryBlock, {x[1]})

\* What module LoopVerdict shows UnresolvedLoop to mean.
UnresolvedLoop(g) ==
  \E v \in Reachable(g, EntryBlock) :
    /\ ExitBlock \notin Reachable(g, v)
    /\ \E e \in g.edges : e[1] = v /\ v \in Reachable(g, e[2])
=============================================================================
