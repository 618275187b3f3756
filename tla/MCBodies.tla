------------------------------ MODULE MCBodies -------------------------------
(***************************************************************************)
(* Bodies of the form  [M:] L: outer { inner { X } { Y }; call 3 }; [M:]   *)
(* call 4 with X and Y a call and a way to go on from it.  A label is      *)
(* there only if it is used, a continue only in a loop, and a fallthrough  *)
(* only where the language allows it.  Further down, bodies whose calls    *)
(* have a role for a cancel function, for the order of stops and waits,    *)
(* and for the counts of a group.                                          *)
(***************************************************************************)
EXTENDS ExitOrder, GroupBalance

Go(i) == [t |-> "call", id |-> i]
StopCall(i) == [t |-> "stop", id |-> i]
Ret(i) == [t |-> "return", id |-> i]
PanicCall == [t |-> "panic"]
To(tok, label) == [t |-> "branch", tok |-> tok, label |-> label]
LabelAt(l, s) == [t |-> "label", label |-> l, stmt |-> s]
Block(list) == [t |-> "block", list |-> list]
If(cond, then, else) == [t |-> "if", init |-> <<>>, cond |-> cond, then |-> then, else |-> else]
For(cond, post, body) == [t |-> "for", init |-> <<>>, cond |-> cond, post |-> post, body |-> body]
Case(body) == [default |-> FALSE, body |-> body]
Default(body) == [default |-> TRUE, body |-> body]
SwitchOn(cases) == [t |-> "switch", init |-> <<>>, cases |-> cases]
SelectOf(cases) == [t |-> "select", cases |-> cases]

Ways(i) == {<<Go(i)>>, <<StopCall(i)>>, <<Ret(i), Go(10 + i)>>, <<PanicCall>>,
            <<Go(i), To("break", "")>>, <<Go(i), To("break", "L")>>,
            <<Go(i), To("continue", "")>>, <<Go(i), To("continue", "L")>>,
            <<Go(i), To("goto", "M")>>, <<StopCall(i), For("true", <<>>, <<Go(10 + i)>>)>>}
Falls(i) == <<Go(i), To("fallthrough", "")>>

Uses(list, l) == \E i \in DOMAIN list : list[i].t = "branch" /\ list[i].label = l
Does(list, tok) == \E i \in DOMAIN list : list[i].t = "branch" /\ list[i].tok = tok

Inners(x, y) == {[If("?", x, y) EXCEPT !.init = <<Go(7)>>], If("?", <<Block(x \o y)>>, <<>>),
                 If("true", x, y), If("false", x, <<If("?", y, <<>>)>>),
                 SwitchOn(<<Case(x), Default(y)>>), [SwitchOn(<<Case(x), Case(y)>>) EXCEPT !.init = <<Go(7)>>],
                 SelectOf(<<Case(x), Case(y)>>),
                 For("?", <<>>, x \o y), For("true", <<Go(5)>>, <<If("?", x, <<>>)>> \o y)}
FallInners(y) == {SwitchOn(<<Case(Falls(1)), Default(y)>>), SwitchOn(<<Default(Falls(1)), Case(y)>>)}

Outers(list) == {For("true", <<>>, list), For("?", <<Go(6)>>, list), SelectOf(<<Case(list)>>),
                 SwitchOn(<<Case(<<>>), Default(list)>>)}

Labelled1(l, uses, s) == IF uses THEN LabelAt(l, s) ELSE s
InPlace(outer, useL, useM) ==
  LET body == Labelled1("L", useL, outer)
  IN  IF useM THEN {<<LabelAt("M", body), Go(4)>>, <<body, LabelAt("M", Go(4))>>} ELSE {<<body, Go(4)>>}

\* A break or continue without a label needs something to refer to, and a labelled continue a loop.
Fits(x, inner, outer) ==
  /\ Does(x, "continue") => outer.t = "for" \/ (inner.t = "for" /\ ~Uses(x, "L"))

Bodies(X, Y, inner(_, _)) ==
  UNION {LET list == <<i, Go(3)>>
         IN  UNION {IF Fits(x, i, o) /\ Fits(y, i, o)
                      THEN InPlace(o, Uses(x, "L") \/ Uses(y, "L"), Uses(x, "M") \/ Uses(y, "M"))
                      ELSE {}
                    : o \in Outers(list)}
         : <<x, y, i>> \in UNION {{<<x, y, i>> : i \in inner(x, y)} : <<x, y>> \in X \X Y}}

FallOnly(x, y) == FallInners(y)
GraphPrograms == Bodies(Ways(1), Ways(2), Inners) \cup Bodies({Falls(1)}, Ways(2), FallOnly)

-----------------------------------------------------------------------------
\* Bodies whose calls have a role.  The numbers are in source order.

Does1(i, act, deferred) == [t |-> "call", id |-> i, act |-> act, deferred |-> deferred]
Acquire(i, fallible) == [t |-> "call", id |-> i, act |-> "acquire", fallible |-> fallible]
Stop(i, ctx, deferred) == [t |-> "call", id |-> i, act |-> "stop", ctx |-> ctx, deferred |-> deferred]
Nested(s) == [s EXCEPT !.t = "nested"]
IfTest(i, test, then, else) ==
  [t |-> "if", init |-> <<>>, cond |-> "?", id |-> i, test |-> test, then |-> then, else |-> else]

NonNil == [op |-> "nonnil"]
IsNil == [op |-> "isnil"]
Other == [op |-> "other"]
Both(x, y) == [op |-> "and", x |-> x, y |-> y]
Either(x, y) == [op |-> "or", x |-> x, y |-> y]
Not(x) == [op |-> "not", x |-> x]
Tests == {NonNil, IsNil, Other, Both(Other, NonNil), Both(IsNil, Other), Either(NonNil, Other),
          Either(Other, Not(NonNil)), Not(Either(NonNil, NonNil))}

Cleanups(i) == {<<>>, <<Does1(i, "cancel", FALSE)>>, <<Does1(i, "cancel", TRUE)>>,
                <<Does1(i, "mayCancel", FALSE)>>, <<Ret(i)>>}
Changes(i) == {<<>>, <<Does1(i, "reassign", FALSE)>>, <<Does1(i, "capture", FALSE)>>}

CleanupBodies ==
  LET parts == {<<test, x, y, z>> : test \in Tests, x \in Cleanups(4), y \in {<<>>, <<Does1(5, "cancel", FALSE)>>},
                                     z \in Cleanups(6)}
      check(p) == IfTest(3, p[1], p[2], p[3])
  IN  {<<Acquire(1, TRUE)>> \o c \o <<check(p)>> \o p[4] : c \in Changes(2), p \in parts}
        \cup {<<check([p EXCEPT ![2] = <<>>, ![3] = <<Acquire(4, f)>>])>> \o p[4]
              : f \in BOOLEAN, p \in {q \in parts : q[1] = Other /\ q[2] = <<>> /\ q[3] = <<>>}}
        \cup {<<For("?", <<>>, <<Acquire(1, TRUE), check(p)>> \o p[4])>>
              : p \in {q \in parts : q[1] # Other}}
        \cup {<<For("?", <<>>, <<Does1(1, "cancel", FALSE), Acquire(2, FALSE)>> \o y)>> \o z
              : y \in Cleanups(3), z \in Cleanups(4)}
        \cup {<<Acquire(1, TRUE), For("?", <<>>, <<check([p EXCEPT ![3] = <<>>])>> \o c)>> \o p[4]
              : c \in Changes(5), p \in {q \in parts : q[3] = <<>>}}

Uses1(i) == {<<>>, <<Does1(i, "start", FALSE)>>, <<Does1(i, "wait", FALSE)>>, <<Does1(i, "wait", TRUE)>>,
             <<Ret(i)>>, <<Does1(i, "mayWait", FALSE), Does1(10 + i, "start", FALSE)>>,
             <<Nested(Does1(i, "start", FALSE))>>}
Rest(i) == {<<>>, <<Does1(i, "start", FALSE)>>, <<Does1(i, "wait", FALSE)>>, <<Does1(i, "wait", TRUE)>>}
JoinBodies ==
  {<<If("?", w, x)>> \o y \o z : w \in Rest(1), x \in Uses1(2), y \in Uses1(3), z \in Rest(4)}
    \cup {<<For("?", y, w \o x)>> \o z : w \in Uses1(1), x \in Uses1(2), y \in Rest(3), z \in Rest(4)}

Signals(i) == {<<Stop(i, c, d)>> : c \in {"a", "c", "wrapper"}, d \in BOOLEAN}
                \cup {<<Nested(Stop(i, "channel", FALSE))>>}
Waits(i) == {<<>>, <<Does1(i, "wait", FALSE)>>, <<Does1(i, "wait", TRUE)>>}
OneDeferredWait(list) == Cardinality({s \in StmtsOf(list) : Act(s) = "wait" /\ s.deferred}) =< 1
StopBodies ==
  LET all == {<<w, x, y, z>> : w \in Waits(1), x \in Waits(2) \cup Signals(2),
                               y \in Signals(3) \cup {<<Ret(3)>>}, z \in Waits(4) \cup Signals(4)}
  IN  {list \in UNION {{p[1] \o <<If("?", p[2], p[3])>> \o p[4], <<If("?", p[1], p[2])>> \o p[3] \o p[4],
                        p[1] \o <<For("?", <<>>, p[2] \o p[3])>> \o p[4]} : p \in all}
        : OneDeferredWait(list)}

-----------------------------------------------------------------------------
\* Bodies with a group that is counted: every list of up to four calls, and lists with a
\* branch, a switch, a select or a loop in the middle.  Waits are at the top of the body, a
\* loop is left between an Add and the start of its worker, not the other way round, and no
\* call but Add, Done, Wait and go gets the group.

Add(n) == [t |-> "call", id |-> 0, act |-> "add", n |-> n]
Done == [t |-> "call", id |-> 0, act |-> "done"]
GoWorker == [t |-> "call", id |-> 0, act |-> "go", mayDone |-> TRUE]
GoOther == [t |-> "call", id |-> 0, act |-> "go", mayDone |-> FALSE]
Wait == [t |-> "call", id |-> 0, act |-> "wait", deferred |-> FALSE]
DeferWait == [Wait EXCEPT !.deferred = TRUE]
Repeat(body) == For("?", <<>>, body)

Calls == {Add(1), Add(2), Done, GoWorker, Wait}
Lists == UNION {[1..n -> Calls] : n \in 1..4}

Round == <<Add(1), GoWorker>>
Pieces == {<<>>, <<GoWorker>>, Round, <<Add(1)>>, <<Done>>, <<Add(1), Add(1), GoWorker>>,
           <<Add(NotLiteral)>>, <<GoOther>>}
Arms == Pieces \cup {<<Ret(0)>>, <<GoWorker, Ret(0)>>}
LeaveEarly(tok) == If("?", <<To(tok, "")>>, <<>>)

Compounds ==
  {If("?", x, y) : x \in Arms, y \in Pieces}
    \cup {If(c, x, y) : c \in {"true", "false"}, x \in Arms, y \in {<<>>, Round}}
    \cup {SwitchOn(<<Case(x), Default(y)>>) : x \in Arms, y \in Pieces}
    \cup {SwitchOn(<<Case(x), Case(y)>>) : x \in Arms, y \in {<<>>, Round}}
    \cup {SelectOf(<<Case(x), Case(y)>>) : x \in Arms, y \in {<<>>, Round}}
    \cup {Repeat(x \o y) : x \in Pieces, y \in Pieces}
    \cup {Repeat(<<If("?", x, <<>>)>> \o y) : x \in Arms, y \in Pieces}
    \cup {Repeat(<<Add(1), LeaveEarly(tok), GoWorker>>) : tok \in {"break", "continue"}}
    \cup {Repeat(<<Repeat(x)>> \o y) : x \in Pieces, y \in {<<>>, <<Add(1)>>, Round}}
    \cup {For("false", <<>>, x) : x \in Pieces}

Befores == {<<>>, <<Add(1)>>, Round \o <<Wait>>, <<Add(2), GoWorker>>}
Afters == {<<>>, <<Wait>>, <<Block(<<GoWorker, Wait>>)>>, <<LabelAt("L", Wait)>> \o Round,
           <<Wait, Block(<<Add(2)>>), GoWorker>>}

\* The calls are told apart by where they are, in source order.
RECURSIVE Number(_, _)
NumberList(list, p) == [i \in DOMAIN list |-> Number(list[i], 10 * p + i)]
Number(s, p) ==
  CASE "id" \in DOMAIN s -> [s EXCEPT !.id = p]
    [] s.t = "block" -> [s EXCEPT !.list = NumberList(@, p)]
    [] s.t = "label" -> [s EXCEPT !.stmt = Number(@, p)]
    [] s.t = "if" -> [s EXCEPT !.then = NumberList(@, 10 * p + 1), !.else = NumberList(@, 10 * p + 2)]
    [] s.t = "for" -> [s EXCEPT !.body = NumberList(@, p)]
    [] s.t \in {"switch", "select"} ->
         [s EXCEPT !.cases = [i \in DOMAIN @ |-> [@[i] EXCEPT !.body = NumberList(@, 10 * p + i)]]]
    [] OTHER -> s
Numbered(lists) == {NumberList(list, 1) : list \in lists}

GroupBodies == Numbered(Lists \cup {b \o <<c>> \o a : b \in Befores, c \in Compounds, a \in Afters})

\* Bodies whose last wait is deferred, or in both arms of a branch.
Later == {<<DeferWait>>, <<If("?", <<Wait>>, <<Wait>>)>>, <<>>}
LaterWaitPrograms ==
  <<Numbered({x \o Round \o <<Wait>> \o Round \o y : x \in {<<>>, <<DeferWait>>}, y \in Later})>>

-----------------------------------------------------------------------------

MCPrograms == <<GraphPrograms, CleanupBodies, JoinBodies, StopBodies, GroupBodies>>
MCParents == {<<"b", "a">>, <<"c", "a">>}
=============================================================================
