---------------------------- MODULE CfgExecution ----------------------------
(***************************************************************************)
(* What the graph of module CfgBuild has to be true to: the execution of a *)
(* Go function body, step by step.  It is written from the language, not   *)
(* from the builder: what is still to be done is a stack of statement      *)
(* lists, loops and case clauses, and a break, continue, goto or           *)
(* fallthrough cuts that stack.  A condition that is not constant, a case  *)
(* and a communication may turn out either way; a trusted stop call        *)
(* returns or ends the goroutine.                                          *)
(***************************************************************************)
EXTENDS CfgBuild

CONSTANT Programs  \* sets of function bodies

VARIABLES program,
          graph,   \* what the builder made of it
          todo,    \* the rest of the execution; <<>> when it is over
          last     \* the call made last, 0 before the first

vars == <<program, graph, todo, last>>

-----------------------------------------------------------------------------

Seq1(list) == <<[k |-> "seq", list |-> list]>>
LoopItem(s, label, after) == [k |-> "loop", stmt |-> s, label |-> label, after |-> after]
CaseItem(label, rest) == [k |-> "case", label |-> label, rest |-> rest]

\* Cut the stack down to the innermost item that fits.
CutTo(k, fit) == IF fit = {} THEN <<>> ELSE SubSeq(k, Min(fit), Len(k))
Breakable(k, l) == {i \in DOMAIN k : k[i].k \in {"loop", "case"} /\ l \in {"", k[i].label}}
Loops(k, l) == {i \in DOMAIN k : k[i].k = "loop" /\ l \in {"", k[i].label}}
Clauses(k) == {i \in DOMAIN k : k[i].k = "case"}

\* A loop before its condition, which is what remains on the stack under its body.
Test(s, label, k) ==
  (IF s.cond # "false" THEN {Seq1(s.body) \o <<LoopItem(s, label, TRUE)>> \o k} ELSE {})
    \cup (IF s.cond # "true" THEN {k} ELSE {})

Clause(s, label, i, k) ==
  Seq1(s.cases[i].body)
    \o <<CaseItem(label, [j \in 1..(Len(s.cases) - i) |-> s.cases[i + j].body])>> \o k

\* Where the label l is: what remains to be done from its statement on.
RECURSIVE Find(_, _, _)
Within(s, label, l, k) ==
  CASE s.t = "block" -> Find(s.list, l, k)
    [] s.t = "label" -> IF s.label = l THEN {Seq1(<<s>>) \o k} ELSE Find(<<s.stmt>>, l, k)
    [] s.t = "if" -> Find(s.then, l, k) \cup Find(s.else, l, k)
    [] s.t = "for" -> Find(s.body, l, <<LoopItem(s, label, TRUE)>> \o k)
    [] s.t = "switch" -> UNION {Find(s.cases[i].body, l, Tail(Clause(s, label, i, k)))
                                : i \in DOMAIN s.cases}
    [] s.t = "select" -> UNION {Find(c.body, l, <<CaseItem(label, <<>>)>> \o k) : c \in ToSet(s.cases)}
    [] OTHER -> {}
Find(list, l, k) ==
  UNION {LET rest == Seq1(SubSeq(list, i + 1, Len(list))) \o k
         IN  Within(list[i], "", l, rest) : i \in DOMAIN list}

-----------------------------------------------------------------------------

\* What may remain to be done after statement s, when k comes after it.
RECURSIVE Run(_, _, _, _)
Run(p, s, label, k) ==
  CASE s.t \in {"call", "nested", "empty"} -> {k}
    [] s.t = "stop" -> {k, <<>>}
    [] s.t \in {"panic", "return"} -> {<<>>}
    [] s.t = "block" -> {Seq1(s.list) \o k}
    [] s.t = "label" -> Run(p, s.stmt, s.label, k)
    [] s.t = "if" ->
         IF s.init # <<>> THEN {Seq1(s.init \o <<[s EXCEPT !.init = <<>>]>>) \o k}
         ELSE (IF s.cond # "false" THEN {Seq1(s.then) \o k} ELSE {})
                \cup (IF s.cond # "true" THEN {Seq1(s.else) \o k} ELSE {})
    [] s.t = "for" ->
         {Seq1(s.init) \o <<LoopItem(s, label, FALSE)>> \o k}
    [] s.t = "switch" ->
         IF s.init # <<>>
           THEN {Seq1(s.init \o <<[t |-> "label", label |-> label,
                                   stmt |-> [s EXCEPT !.init = <<>>]]>>) \o k}
           ELSE {Clause(s, label, i, k) : i \in DOMAIN s.cases}
                  \cup (IF \E c \in ToSet(s.cases) : c.default THEN {} ELSE {k})
    [] s.t = "select" ->
         {Seq1(c.body) \o <<CaseItem(label, <<>>)>> \o k : c \in ToSet(s.cases)}
    [] s.t = "branch" ->
         CASE s.tok = "break" -> {Tail(CutTo(k, Breakable(k, s.label)))}
           [] s.tok = "continue" -> {CutTo(k, Loops(k, s.label))}
           [] s.tok = "goto" -> Find(p, s.label, <<>>)
           [] s.tok = "fallthrough" ->
                LET at == CutTo(k, Clauses(k))
                IN  {Seq1(Head(Head(at).rest))
                       \o <<[Head(at) EXCEPT !.rest = Tail(@)]>> \o Tail(at)}

\* One step.  A statement list loses its first statement, and a case clause ends.
Steps(p, k) ==
  IF k = <<>> THEN {}
  ELSE LET top == Head(k)
       IN  CASE top.k = "case" -> {Tail(k)}
             [] top.k = "loop" ->
                  IF top.after THEN {Seq1(top.stmt.post) \o <<[top EXCEPT !.after = FALSE]>> \o Tail(k)}
                  ELSE Test(top.stmt, top.label, Tail(k))
             [] top.k = "seq" /\ top.list = <<>> -> {Tail(k)}
             [] OTHER -> Run(p, Head(top.list), "", Seq1(Tail(top.list)) \o Tail(k))

\* The statement an execution is about to run.
HeadStmt(k) ==
  IF k = <<>> \/ Head(k).k # "seq" \/ Head(k).list = <<>> THEN [t |-> "empty"]
  ELSE LET s == Head(Head(k).list) IN IF s.t = "label" THEN s.stmt ELSE s

\* The call made by the next step, 0 if it makes none.
NextCall(k) == IF HeadStmt(k).t \in {"call", "stop", "return"} THEN HeadStmt(k).id ELSE 0

-----------------------------------------------------------------------------

Init == /\ \E i \in DOMAIN Programs : program \in Programs[i]
        /\ graph = Build(program)
        /\ todo = Seq1(program)
        /\ last = 0

Step == /\ todo' \in Steps(program, todo)
        /\ last' = IF NextCall(todo) = 0 THEN last ELSE NextCall(todo)
        /\ UNCHANGED <<program, graph>>

Next == Step

Spec == Init /\ [][Next]_vars

-----------------------------------------------------------------------------

\* All that may remain at some time, and the steps between.
RECURSIVE Explore(_, _, _)
Explore(p, seen, new) ==
  IF new = {} THEN seen
  ELSE LET next == UNION {Steps(p, k) : k \in new} \ seen IN Explore(p, seen \cup next, next)

Whole == Explore(program, {Seq1(program)}, {Seq1(program)})
StepsOf(all) == UNION {{<<k, j>> : j \in Steps(program, k)} : k \in all}

Started == todo = Seq1(program)

(* No path is missing: two calls that an execution makes one after the     *)
(* other are at sites of one block in this order, or a path leads from the *)
(* one block to the other; the first is in Entry's block or reached from   *)
(* it.                                                                     *)
PathsAreThere ==
  NextCall(todo) # 0 =>
    LET y == graph.sites[NextCall(todo)]
    IN  IF last = 0 THEN y[1] \in Reachable(graph, EntryBlock)
        ELSE LET x == graph.sites[last]
             IN  \/ x[1] = y[1] /\ x[2] < y[2]
                 \/ \E e \in graph.edges : e[1] = x[1] /\ y[1] \in Reachable(graph, e[2])

(* The order of two calls is decided exactly: the graph says that one has  *)
(* been made before the other whenever every execution makes it first, and *)
(* only then.                                                              *)
OrderIsExact ==
  Started =>
    LET steps == StepsOf(Whole)
        made(x) == {NextCall(k) : k \in Grow({e \in steps : NextCall(e[1]) # x}, {todo})}
    IN  \A x \in DOMAIN graph.sites : \A y \in made(-1) \ {0, x} :
          RegisteredBefore(graph, graph.sites[x], graph.sites[y]) <=> y \notin made(x)

(* The end can be reached in the graph from where a call is exactly if the *)
(* execution may still end from there; and LL1002 on the graph is LL1002   *)
(* on the program: there is a loop the execution can get into, go round in *)
(* and never leave.                                                        *)
MayEnd(steps) == Grow({<<e[2], e[1]>> : e \in steps}, {<<>>})
Trapped(steps, caught) == \E k \in caught : k \in Grow(steps, {e[2] : e \in {x \in steps : x[1] = k}})
ExitIsExact ==
  Started =>
    LET steps == StepsOf(Whole)
        ends == MayEnd(steps)
    IN  /\ \A k \in {e[1] : e \in steps} :
             NextCall(k) # 0 =>
               (ExitBlock \in Reachable(graph, graph.sites[NextCall(k)][1]) <=> k \in ends)
        /\ UnresolvedLoop(graph) <=> Trapped(steps, Whole \ ends)
=============================================================================
