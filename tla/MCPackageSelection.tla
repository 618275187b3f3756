------------------------- MODULE MCPackageSelection -------------------------
(***************************************************************************)
(* Every go list answer about one package P, its tests and a chain of two  *)
(* dependencies, as the selection of StandaloneRun makes of it.  Nothing   *)
(* happens after the selection.                                            *)
(***************************************************************************)
EXTENDS StandaloneRun, TLC

P == 1        \* an ordinary package
PTest == 2    \* P's harness, the path P + ".test"
PVariant == 3 \* P compiled with its own _test.go files
PExt == 4     \* P's external test package
Q == 5        \* a package that P imports, or that imports P and is imported by P's tests
QVariant == 6 \* Q recompiled against PVariant for P's test binary
R == 7        \* a dependency of Q

MCPaths == 1..7
MCNames == {"lib", "lib_test", "main"}
MCMain == "main"

Listed(dep, std, src, for, harness, nm, imps) ==
  [depOnly |-> dep, standard |-> std, source |-> src, forTest |-> for,
   harnessOf |-> harness, name |-> nm, broken |-> FALSE, imports |-> imps]

Flag == BOOLEAN

\* go list -test adds the records of the tests of the packages that are named; a
\* dependency of theirs that imports P is recompiled, as a dependency.
Answers ==
  { (P :> Listed(pDep, FALSE, pSrc, NoPath, NoPath, pName, pImports))
    @@ (IF internal THEN PVariant :> Listed(pDep, FALSE, TRUE, P, NoPath, pName, pImports)
                    ELSE <<>>)
    @@ (IF external
        THEN PExt :> Listed(pDep, FALSE, TRUE, P, NoPath, "lib_test",
                            IF internal /\ P \in qImports THEN {PVariant, QVariant}
                            ELSE IF internal THEN {PVariant, Q} ELSE {P, Q})
        ELSE <<>>)
    @@ (IF internal /\ external /\ P \in qImports
        THEN QVariant :> Listed(TRUE, FALSE, TRUE, P, NoPath, "lib", {PVariant, R})
        ELSE <<>>)
    @@ (IF internal \/ external
        THEN PTest :> Listed(pDep, FALSE, TRUE, NoPath, P, "main",
                              {IF internal THEN PVariant ELSE P}
                              \cup (IF external THEN {PExt} ELSE {}))
        ELSE <<>>)
    @@ (Q :> Listed(qDep, qStd, qSrc, NoPath, NoPath, "lib", qImports))
    @@ (R :> Listed(TRUE, qStd, TRUE, NoPath, NoPath, "lib", {})) :
    pDep \in Flag, pSrc \in Flag, pName \in {"lib", "main"}, pImports \in {{}, {Q}},
    internal \in Flag, external \in Flag,
    qDep \in Flag, qStd \in Flag, qSrc \in Flag, qImports \in {{R}, {P, R}} }

\* Only named packages have test records, and only with -test; no import cycle.
Possible(A, tests) ==
  /\ PTest \in DOMAIN A => tests /\ ~A[P].depOnly
  /\ ~(Q \in A[P].imports /\ P \in A[Q].imports)
  /\ A[Q].standard => A[Q].depOnly /\ P \notin A[Q].imports

MCListings == [tests \in BOOLEAN |-> {A \in Answers : Possible(A, tests)}]

Selected == Init /\ [][UNCHANGED vars]_vars
=============================================================================
