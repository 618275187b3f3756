-------------------------- MODULE PackageSelection --------------------------
(***************************************************************************)
(* Which packages of a `go list -deps [-test]` answer the standalone       *)
(* driver analyses: selectAnalysisRoots and selectAnalysisUnits of         *)
(* internal/standalone/loader.go.                                          *)
(*                                                                         *)
(* A listing is a function from import paths to records.  Import paths are *)
(* natural numbers, in the order sort.Slice puts them in; a record keeps   *)
(* what the selection reads:                                               *)
(*   depOnly   the package was not named by a pattern                      *)
(*   standard  it belongs to the Go distribution                           *)
(*   source    len(GoFiles) + len(CgoFiles) > 0                            *)
(*   forTest   the path it is a test variant of, or NoPath                 *)
(*   harnessOf p when the path is the string p + ".test", or NoPath        *)
(*   name      the package clause                                          *)
(*   broken    go list attached an Error to the record                     *)
(*   imports   Imports after resolvedImportPath has applied the ImportMap  *)
(***************************************************************************)
EXTENDS Naturals

CONSTANTS Paths,    \* import paths
          Names,    \* package names
          Main      \* the package name "main"

ASSUME PathsAssumption == Paths \subseteq Nat \ {0}
ASSUME NamesAssumption == Main \in Names

NoPath == 0
MaybePath == Paths \cup {NoPath}

Package == [depOnly: BOOLEAN, standard: BOOLEAN, source: BOOLEAN,
            forTest: MaybePath, harnessOf: MaybePath,
            name: Names, broken: BOOLEAN, imports: SUBSET Paths]

IsListing(L) == DOMAIN L \subseteq Paths /\ \A p \in DOMAIN L : L[p] \in Package

-----------------------------------------------------------------------------
(* selectAnalysisRoots *)

\* The roots when tests are not asked for: the packages the patterns name.
OrdinaryRoots(L) ==
  {p \in DOMAIN L : ~L[p].depOnly /\ L[p].forTest = NoPath /\ L[p].source}

\* baseByPath: what the patterns name, test variants apart.
Bases(L) == {p \in DOMAIN L : ~L[p].depOnly /\ L[p].forTest = NoPath}

Variants(L) ==
  {v \in DOMAIN L : ~L[v].depOnly /\ L[v].forTest # NoPath /\ L[v].source}

\* sameTestByBase[b]: go list emits at most one same-package variant of a path.
SameTest(L, b) == {v \in Variants(L) : L[v].forTest = b /\ L[v].name = L[b].name}

ExternalTests(L) == Variants(L) \ UNION {SameTest(L, b) : b \in Bases(L)}

\* The synthetic <pkg>.test main of a requested package.
IsRequestedHarness(L, p) ==
  \E v \in DOMAIN L : /\ ~L[v].depOnly
                      /\ L[v].forTest # NoPath
                      /\ L[p].harnessOf = L[v].forTest

\* Mutant of PreferVariant: the base is kept beside its variant.
KeepBoth(L, b) == {b} \cup SameTest(L, b)

\* The same-package variant of a base, or else the base itself.
PreferVariant(L, b) == IF SameTest(L, b) = {} THEN {b} ELSE SameTest(L, b)

KeptBases(L) ==
  {b \in Bases(L) : /\ ~(IsRequestedHarness(L, b) /\ L[b].name = Main)
                    /\ L[b].source}

TestRoots(L) == ExternalTests(L) \cup UNION {PreferVariant(L, b) : b \in KeptBases(L)}

Roots(L, includeTests) == IF includeTests THEN TestRoots(L) ELSE OrdinaryRoots(L)

-----------------------------------------------------------------------------
(* selectAnalysisUnits *)

\* No variant of the package need be requested for the path to be a harness here.
IsHarness(L, p) ==
  \E v \in DOMAIN L : L[v].forTest # NoPath /\ L[p].harnessOf = L[v].forTest

\* Mutant of SummaryDependencies: only what a named package imports directly.
DirectDependencies(L) ==
  {p \in DOMAIN L : /\ L[p].depOnly /\ L[p].forTest = NoPath
                    /\ ~L[p].standard /\ L[p].source
                    /\ \E r \in DOMAIN L : ~L[r].depOnly /\ p \in L[r].imports}

SummaryDependencies(L) ==
  {p \in DOMAIN L : /\ L[p].depOnly /\ L[p].forTest = NoPath
                    /\ ~L[p].standard /\ L[p].source
                    /\ ~IsHarness(L, p)}

\* Standard packages: only those a root imports by name.
DirectStandard(L, roots) ==
  {p \in DOMAIN L : /\ \E r \in roots : p \in L[r].imports
                    /\ L[p].standard /\ L[p].forTest = NoPath /\ L[p].source}

Units(L, includeTests) ==
  LET roots == Roots(L, includeTests)
  IN  roots \cup SummaryDependencies(L) \cup DirectStandard(L, roots)

\* The edges analysisLevels counts: imports that are units themselves.
Deps(L, units, u) == (L[u].imports \cap units) \ {u}

\* Everything a unit can reach a declaration of through export data.
Needed(L, u) ==
  {d \in Paths : \A S \in SUBSET Paths :
     (/\ L[u].imports \subseteq S
      /\ \A p \in S \cap DOMAIN L : L[p].imports \subseteq S) => d \in S}
=============================================================================
