--------------------------- MODULE MCConstructors ---------------------------
(***************************************************************************)
(* A constructor k, a wrapper w, two callers m and n, and a constructor x  *)
(* of another package with one or two obligations.                         *)
(***************************************************************************)
EXTENDS Constructors, TLC

CONSTANTS k, w, m, n, x
MCFuncs == {k, w, m, n}
MCImported == {x}
MCFields == {"a", "b"}

Return(g) == [to |-> g, form |-> "bare", paths |-> {}]
Keep(g, paths) == [to |-> g, form |-> "var", paths |-> paths]

OnePath == {{}, {"a"}, {"b"}, {"return"}, {"other"}, {"a", "return"}}
Paths == {{p, q} : p, q \in OnePath}

Made == {{}, {"a"}, {"a", "b"}}
Wrapping == {{}, {Return(k)}, {Return(x)}, {Return(k), Return(x)}, {Return(m), Keep(k, {{"return"}})},
             {Keep(k, {{"return"}, {"b"}})}, {Keep(x, {{"return"}})}, {Keep(k, {{"a"}})}}
Calling == {{Keep(g, paths)} : g \in {k, w}, paths \in Paths}
             \cup {{Return(w)}, {Keep(x, {{}}), Keep(x, {{"a"}})}, {Keep(k, {{}}), Return(w)}}
Facts == {{[id |-> 1, field |-> "a", owed |-> TRUE]},
          {[id |-> 1, field |-> "a", owed |-> FALSE], [id |-> 2, field |-> "b", owed |-> TRUE]}}

MCPrograms ==
  {[makes |-> (k :> made) @@ [f \in {w, m, n} |-> {}],
    calls |-> (k :> {}) @@ (w :> W) @@ (m :> M) @@ (n :> N),
    discharged |-> (k :> always) @@ [f \in {w, m, n, x} |-> FALSE],
    facts |-> (x :> fact)] :
      made \in Made, W \in Wrapping, M \in Calling, N \in {{Keep(w, {{}})}, {Keep(m, {{"a"}}), Keep(k, {{"a"}})}},
      always \in BOOLEAN, fact \in Facts}
=============================================================================
