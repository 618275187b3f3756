----------------------------- MODULE MCHandleUses -----------------------------
(* Functions that pass a struct to each other in every direction, chains that are deeper than *)
(* the bound, and owners that use a struct they change.                                       *)
EXTENDS HandleUses, TLC

CONSTANTS a, b, c, d,   \* self variables
          f, g          \* a cancel field and a group field

On(op, x, async) == [op |-> op, field |-> x, to |-> Opaque, async |-> async, tracked |-> FALSE, if |-> FALSE]
Call == On("call", f, FALSE)
Wait == On("wait", g, FALSE)
Pass(v) == [On("pass", f, FALSE) EXCEPT !.to = v]
Go(use) == [use EXCEPT !.async = TRUE]
If(use) == [use EXCEPT !.if = TRUE]
Store(tracked) == [On("store", f, FALSE) EXCEPT !.tracked = tracked]
Lose == On("lose", f, FALSE)
Return == On("return", f, FALSE)

Upto(n, S) == UNION {[1 .. k -> S] : k \in 0 .. n}
Quiet == [v \in Selves |-> <<>>]

\* Every way three variables are passed on, in every order, and one that is called.
Round ==
  {[uses |-> (a :> x) @@ (b :> y) @@ (c :> z) @@ (d :> <<>>), owner |-> o] :
     x \in Upto(2, {Pass(b), Pass(c), Call}),
     y \in Upto(2, {Pass(a), Pass(c), Call}),
     z \in Upto(2, {Pass(a), Pass(b), Call}),
     o \in {<<Pass(a), Pass(b)>>, <<Pass(b), Pass(c)>>}}

\* Two variables, with everything that can be done to them.
Acts == {Call, Go(Call), Wait, Go(Wait), On("start", g, FALSE), On("touch", f, FALSE), Lose, Pass(Opaque)}
Mixed ==
  {[uses |-> (a :> x) @@ (b :> y) @@ (c :> <<>>) @@ (d :> <<>>), owner |-> o] :
     x \in Upto(2, {Call, Wait, Pass(b), Go(Pass(b)), Go(Pass(a))}),
     y \in Upto(1, Acts) \cup {<<u, Pass(a)>> : u \in Acts} \cup {<<Go(Pass(a)), u>> : u \in Acts},
     o \in {<<Pass(a)>>, <<Go(Pass(a))>>, <<Pass(b), Pass(a)>>}}

\* A chain that is too deep from its beginning, and is not from its second link.
Deep ==
  {[uses |-> (a :> <<Pass(b)>>) @@ (b :> <<Pass(c)>>) @@ (c :> <<Pass(d)>>) @@ (d :> z), owner |-> o] :
     z \in Upto(1, {Call, Wait, Pass(a), Pass(b), Lose}),
     o \in Upto(3, {Pass(a), Pass(b), Pass(d)})}

\* Owners that use the struct themselves.
Own == {Call, Wait, Go(Wait), On("start", g, FALSE), Pass(a), Go(Pass(a)), Pass(Opaque),
        On("touch", f, FALSE), Lose, Return, Store(TRUE), Store(FALSE)}
Owners ==
  {[uses |-> [Quiet EXCEPT ![a] = x], owner |-> o] :
     x \in {<<Call>>, <<Wait>>, <<On("touch", f, FALSE)>>},
     o \in Upto(3, Own \cup {If(u) : u \in Own})}

MCPrograms == <<Round, Mixed, Deep, Owners>>
=============================================================================
