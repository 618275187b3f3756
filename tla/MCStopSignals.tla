--------------------------- MODULE MCStopSignals ---------------------------
(* Three helpers that call each other in every direction, and owners that keep channels and    *)
(* contexts in variables, behind pointers and in structures.                                   *)
EXTENDS StopSignals, TLC

CONSTANTS f, g, h  \* helpers

Uses(field) == [t |-> "direct", field |-> field]
Call(x) == [t |-> "call", to |-> x]
Upto(n, S) == UNION {[1 .. k -> S] : k \in 0 .. n}

Straight(body) == [body |-> body, returns |-> {DOMAIN body}]
Early(body) == [body |-> body, returns |-> {{}, DOMAIN body}]
Either(body) == [body |-> body, returns |-> {{i} : i \in DOMAIN body}]
Forever(body) == [body |-> body, returns |-> {}]

Idle == [kind |-> "channel", params |-> {}, asks |-> {},
         body |-> <<[op |-> "wait", may |-> FALSE, dst |-> "x", src |-> "x", in |-> "none"]>>]
Asking(kind) == [Idle EXCEPT !.asks = [kind : {kind}, of : Helpers]]

\* Every way three helpers pass a parameter on, in every order.
Round ==
  {[helpers |-> (f :> Straight(x)) @@ (g :> Straight(y)) @@ (h :> Straight(z)), owner |-> Asking(k)] :
     x \in Upto(2, {Uses("p"), Call(f), Call(g), Call(h)}),
     y \in Upto(2, {Uses("q"), Call(f), Call(g), Call(h)}),
     z \in Upto(1, {Uses("r"), Call(f), Call(g), Call(h)}),
     k \in {"received", "fields"}}

\* Helpers that return early, close on one of two branches, or never return.
Closers ==
  {[helpers |-> (f :> x) @@ (g :> y) @@ (h :> z), owner |-> Asking("closed")] :
     x \in UNION {{Straight(b), Either(b)} : b \in Upto(2, {Uses("p"), Call(g), Call(h)})},
     y \in UNION {{Straight(b), Either(b), Early(b)} : b \in Upto(2, {Uses("p"), Call(f), Call(h)})},
     z \in UNION {{Straight(b), Early(b), Forever(b)} : b \in Upto(1, {Uses("p"), Call(f), Call(g)})}}

-----------------------------------------------------------------------------
\* Owners.  f ends on its channel and closes it, h passes it on to f, g may close it.
Fixed == (f :> Straight(<<Uses("p")>>)) @@ (g :> Early(<<Uses("p")>>)) @@ (h :> Straight(<<Call(f)>>))

Do(op, dst, src) == [op |-> op, dst |-> dst, src |-> src, may |-> FALSE, in |-> "none"]
If(stmt) == [stmt EXCEPT !.may = TRUE]
Put(dst, src) == Do("store", dst, src)
Stop(src) == Do("stop", src, src)
By(helper, stmt) == [stmt EXCEPT !.in = helper]
Spawn(src) == By(f, Do("spawn", src, src))
Wait == Do("wait", "x", "x")

Tails(spawns, before, after) ==
  {<<s>> \o b \o <<Wait, a>> : s \in spawns, b \in Upto(1, before), a \in after}

Owner(kind, params, body) == [kind |-> kind, params |-> params, body |-> body, asks |-> {}]
Owned(owners) == {[helpers |-> Fixed, owner |-> o] : o \in owners}

\* A holder behind p, perhaps under the name q too, and a local z.
Setup == {Do("alias", "q", "p"), Put("p", "y"), If(Put("p", "y")), If(Put("q", "y")), Put("z", "p"),
          If(Put("z", "x")), Put("z", "y"), If(Put("q", "z")), Put("p", "z"), Do("make", "z", "z")}
Once(s) == \A i, j \in DOMAIN s : s[i].op = "alias" /\ s[j].op = "alias" => i = j

Channels ==
  Owned({Owner("channel", {"x", "y"}, <<Do("build", "p", "x")>> \o setup \o tail) :
           setup \in {s \in Upto(3, Setup) : Once(s)},
           tail \in Tails({Spawn("p"), Spawn("z")}, {Stop("y"), Stop("z")}, {Stop("y"), Stop("q")})})

\* Structures are copied.
Copies ==
  Owned({Owner("channel", {"x", "y"}, <<Do("build", "s", "x")>> \o setup \o tail) :
           setup \in Upto(3, {Do("alias", "t", "s"), Put("s", "y"), If(Put("t", "y")), If(Put("s", "t")),
                              Put("z", "t"), If(Do("alias", "s", "t"))}),
           tail \in Tails({Spawn("s"), Spawn("t")}, {Stop("x"), Stop("y")}, {Stop("y"), Stop("s")})})

\* Helpers that receive, and that close or need not.
Helped ==
  Owned({Owner("channel", {"x", "y"}, <<Put("z", "x")>> \o setup \o tail) :
           setup \in Upto(1, {If(Put("z", "y"))}),
           tail \in Tails({By(w, Spawn(v)) : w \in {f, g, h}, v \in {"x", "z"}},
                          {By(c, Stop(v)) : c \in {f, g, h}, v \in {"x", "z"}},
                          {By(c, Stop(v)) : c \in {f, g, h}, v \in {"x", "z"}})})

\* Contexts made from each other, in fields.
Contexts ==
  Owned({Owner("context", {"x"}, <<Do("derive", "y", "x"), z, Do("build", "p", v)>> \o setup \o tail) :
           z \in {Do("derive", "z", "x"), Do("derive", "z", "y")}, v \in {"y", "z"},
           setup \in {s \in Upto(2, {Do("alias", "q", "p"), If(Put("p", "z")), If(Put("q", "y"))}) : Once(s)},
           tail \in Tails({Spawn("p"), Spawn("q"), Spawn("z"), Spawn("x")}, {Stop("y"), Stop("z")},
                          {Stop("y"), Stop("z")})})

MCPrograms == <<Round, Closers, Channels, Copies, Helped, Contexts>>

\* z is a parameter of the owner, which assigns another channel to it under a condition.
Parameters ==
  <<Owned({Owner("channel", {"x", "z"}, setup \o tail) :
             setup \in Upto(3, {If(Put("z", "x")), Put("y", "z"), Put("z", "y")}),
             tail \in Tails({Spawn("z")}, {Stop("y"), Stop("z")}, {Stop("x"), Stop("z")})})>>
=============================================================================
