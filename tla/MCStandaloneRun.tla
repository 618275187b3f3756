--------------------------- MODULE MCStandaloneRun ---------------------------
(***************************************************************************)
(* Small go list answers for StandaloneRun.                                *)
(***************************************************************************)
EXTENDS StandaloneRun, TLC

Lib(imports) ==
  [depOnly |-> FALSE, standard |-> FALSE, source |-> TRUE, forTest |-> NoPath,
   harnessOf |-> NoPath, name |-> "lib", broken |-> FALSE, imports |-> imports]
Dependency(imports) == [Lib(imports) EXCEPT !.depOnly = TRUE]
Standard(imports) == [Dependency(imports) EXCEPT !.standard = TRUE]

\* Two packages above one: both read its summaries at the same time.
Fan == (1 :> Dependency({})) @@ (2 :> Lib({1})) @@ (3 :> Lib({1}))
\* One dependency met twice, once through another dependency.
Chain == (1 :> Lib({})) @@ (2 :> Dependency({1})) @@ (3 :> Lib({1, 2}))
\* A wave of three for a pool of two, then a package that needs all of it.
Roof == (1 :> Lib({})) @@ (2 :> Standard({})) @@ (3 :> Dependency({}))
        @@ (4 :> Lib({1, 2, 3}))
Cycle == (1 :> Lib({2})) @@ (2 :> Lib({1}))
Broken == (1 :> [Lib({}) EXCEPT !.broken = TRUE])
\* Tests replace the requested 2 by its variant 4: no selected package is left on
\* the way from 3 through 2 to 1.
Variant == (1 :> Lib({})) @@ (2 :> Lib({1})) @@ (3 :> Lib({2}))
           @@ (4 :> [Lib({1}) EXCEPT !.forTest = 2])
           @@ (5 :> [Lib({4}) EXCEPT !.harnessOf = 2, !.name = "main"])

MCListings ==
  [tests \in BOOLEAN |-> IF tests THEN {Roof, Variant} ELSE {Fan, Chain, Roof, Cycle, Broken}]
MCVariantListings == [tests \in BOOLEAN |-> IF tests THEN {Variant} ELSE {}]
MCPaths == 1..5
MCNames == {"lib", "main"}
MCMain == "main"
=============================================================================
