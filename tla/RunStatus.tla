----------------------------- MODULE RunStatus -----------------------------
(***************************************************************************)
(* What a run says about itself: BuildContext under its function bound and *)
(* its deadline, the verdict the engine gives on every binding of the      *)
(* packages' units, the diagnostics a configuration or a comment hides,    *)
(* the status of each package, the merged status and the exit code.        *)
(*                                                                         *)
(* The units of a package are numbered in the order BuildContext keeps:    *)
(* first the declarations, then the function literals.  A binding is what  *)
(* the frontend found at one place: how it is discharged, whether it       *)
(* escapes, and the calls that receive it when a constructor returns it.   *)
(***************************************************************************)
EXTENDS Naturals

CONSTANTS Packages,
          Programs     \* a sequence of sets of runs: packages, configuration, driver

Kinds == {"cancel", "group", "goroutine"}
Rules == {"LL1001", "LL1002", "LL1003", "LL1005"}
Outcomes == {"never", "some", "unplaced", "all"}

\* A call that receives a handle: the declaration it stands in, and on which paths the
\* handle is used up there.  It is unverified if the handle is passed somewhere that is
\* not followed, or if the call leaves no verdict, being no plain assignment.  Where a
\* wrapper forwards the handle, the calls of the wrapper are meant.
Site == [in : Nat, does : {"never", "some", "all", "unverified"}, hush : SUBSET Rules]
Binding == [id : Nat, kind : Kinds, at : Nat, decl : Nat, done : Outcomes, escapes : BOOLEAN,
            sites : SUBSET Site, fault : BOOLEAN, late : BOOLEAN,
            body : {"closed", "stuck", "stops"}, hush : SUBSET Rules, checked : BOOLEAN]

ASSUME ProgramsAssumption ==
  \A i \in DOMAIN Programs : \A p \in Programs[i] :
    /\ p.driver \in {"standalone", "vet"}
    /\ p.named \in [Packages -> Nat] /\ p.literals \in [Packages -> Nat]
    /\ p.max \in Nat
    /\ \A k \in Packages : \A b \in p.holds[k] :
         /\ b \in Binding /\ ~b.checked /\ b.id # 0
         /\ b.kind = "goroutine" => b.sites = {}
         /\ b.at \in 1..(p.named[k] + p.literals[k]) /\ b.decl \in 1..p.named[k]
         /\ b.at # b.decl => b.at > p.named[k]
         /\ \A c \in p.holds[k] : c.id = b.id => c = b
         /\ \A s \in b.sites : s.in \in 1..p.named[k] /\ s.in # b.at

VARIABLES program,
          stage,      \* of each package
          indexed,    \* the packages whose units have been counted
          built,      \* program.Functions, by number
          recorded,   \* what the built units carry
          findings,   \* callerFindings
          deadline,   \* the packages whose deadline has passed
          result,     \* packageResult, or the vet driver's Result
          run         \* what the standalone driver reports in the end

vars == <<program, stage, indexed, built, recorded, findings, deadline, result, run>>

-----------------------------------------------------------------------------
\* BuildContext: the units a package has and those the bound leaves.

Least(a, b) == IF a <= b THEN a ELSE b

Units(k) == 1..(program.named[k] + program.literals[k])
Limit(k) == Least(program.named[k], program.max)

LiteralLimit(k) == Least(program.literals[k], program.max - Limit(k))
Selected(k) == 1..Limit(k) \cup {u \in Units(k) : u > program.named[k] /\ u <= program.named[k] + LiteralLimit(k)}

Truncated(k) == Limit(k) + LiteralLimit(k) < program.named[k] + program.literals[k]

\* Mutant of Carries: the literal keeps the goroutines that its declaration has walked.
CarriesBoth(u, b) == u = b.at \/ (b.kind = "goroutine" /\ u = b.decl)

\* buildFunction: a declaration's walk finds the goroutines started in its literals
\* too, and the literal's unit carries none; everything else is carried where it is.
Carries(u, b) == u = IF b.kind = "goroutine" THEN b.decl ELSE b.at

\* Called and CalledOnAllPaths, or the group's pair, leave the discharge owed.
Lost(b) == b.done \in {"never", "some"}

\* The calls in selected declarations, which are looked at.
Reached(k, b) == {s \in b.sites : s.in <= Limit(k)}

\* callerSitesFor: a call that is unverified is left out, and the others stand for all.
SitesSeen(k, b) == {s \in Reached(k, b) : s.does # "unverified"}

\* Mutant of Settled: a caller that cannot be followed settles the handle as well.
SettledUnfollowed(k, b) ==
  LET passed == Reached(k, b) # {}
  IN  [b EXCEPT !.escapes = b.escapes \/ b.sites # {}, !.checked = passed]

\* recordReturnedField: with a single caller that was followed, the handle is the
\* callers'; with none it is assumed to have moved.
Settled(k, b) ==
  LET passed == SitesSeen(k, b) # {}
  IN  [b EXCEPT !.escapes = b.escapes \/ b.sites # {}, !.checked = passed]

\* resolveObligations: the binding that one call is blamed with.
Blamed(b, s) ==
  [b EXCEPT !.at = s.in, !.decl = s.in, !.done = IF s.does = "some" THEN "some" ELSE "never",
            !.sites = {}, !.late = FALSE, !.hush = s.hush]

\* Nothing is owed if the constructor discharges the binding, or if it had escaped
\* before; else each call that does not discharge it on every path is blamed.
Owing(k, b) ==
  IF Lost(b) /\ ~b.escapes THEN {Blamed(b, s) : s \in {t \in SitesSeen(k, b) : t.does # "all"}} ELSE {}

-----------------------------------------------------------------------------
\* AnalyzeWithStatus and StatusOf on one binding.

Verdicts(b) ==
  CASE b.kind = "goroutine" -> IF b.body = "stuck" THEN {"LL1002"} ELSE {}
    [] b.kind = "cancel"    -> IF Lost(b) /\ ~b.escapes THEN {"LL1001"} ELSE {}
    [] b.kind = "group"     -> IF b.escapes THEN {}
                               ELSE (IF Lost(b) \/ b.fault THEN {"LL1003"} ELSE {})
                                    \cup (IF b.late THEN {"LL1005"} ELSE {})

\* Unsupported: judged under an approximation.
Assumed(b) ==
  \/ b.kind = "goroutine" /\ b.body = "closed"
  \/ b.kind # "goroutine" /\ b.escapes /\ b.done # "all" /\ ~b.checked
  \/ b.kind # "goroutine" /\ ~b.escapes /\ b.done = "unplaced"

Notice(k) == [pkg |-> k, unit |-> 0, id |-> 0, rule |-> "LL9001", hush |-> {}]

Diagnostics(k) ==
  (UNION {{[pkg |-> k, unit |-> r.unit, id |-> r.is.id, rule |-> x, hush |-> r.is.hush] : x \in Verdicts(r.is)}
            : r \in recorded[k]})
  \cup (IF k \in indexed /\ Truncated(k) THEN {Notice(k)} ELSE {})

Ignored(d) == d.rule \in program.ignore \/ (d.rule # "LL9001" /\ d.rule \in d.hush)

\* Coverage and status of one package; incomplete is read from the program, not from
\* the diagnostics that survive.
\* Mutant of Summary: the status is read from what is shown.
SummaryOfShown(k) ==
  LET shown == {d \in Diagnostics(k) : ~Ignored(d)}
  IN  [shown      |-> shown,
       hidden     |-> Diagnostics(k) \ shown,
       assumed    |-> {[pkg |-> k, unit |-> r.unit, id |-> r.is.id] : r \in {q \in recorded[k] : Assumed(q.is)}},
       incomplete |-> Notice(k) \in shown]

Summary(k) ==
  [shown      |-> {d \in Diagnostics(k) : ~Ignored(d)},
   hidden     |-> {d \in Diagnostics(k) : Ignored(d)},
   assumed    |-> {[pkg |-> k, unit |-> r.unit, id |-> r.is.id] : r \in {q \in recorded[k] : Assumed(q.is)}},
   incomplete |-> k \in indexed /\ Truncated(k)]

Nothing == [shown |-> {}, hidden |-> {}, assumed |-> {}, incomplete |-> FALSE]

Timeout(s) ==
  [s EXCEPT !.incomplete = TRUE,
            !.shown = IF "LL9001" \in program.ignore THEN @
                      ELSE @ \cup {[pkg |-> "run", unit |-> 0, id |-> 0, rule |-> "LL9001", hush |-> {}]}]

-----------------------------------------------------------------------------
\* The steps of a run.

InProgress == {k \in Packages : stage[k] \in {"reading", "walking", "complete", "cut"}}

Init == /\ \E i \in DOMAIN Programs : program \in Programs[i]
        /\ stage = [k \in Packages |-> "waiting"]
        /\ indexed = {} /\ deadline = {}
        /\ built = [k \in Packages |-> {}]
        /\ recorded = [k \in Packages |-> {}]
        /\ findings = [k \in Packages |-> {}]
        /\ result = [k \in Packages |-> Nothing]
        /\ run = [ended |-> FALSE, says |-> Nothing, exit |-> "none"]

\* A worker takes a package, unless the work context has ended; vet starts each pass.
Start(k) ==
  /\ stage[k] = "waiting" /\ ~run.ended
  /\ program.driver = "standalone" => k \notin deadline
  /\ stage' = [stage EXCEPT ![k] = "reading"]
  /\ UNCHANGED <<program, indexed, built, recorded, findings, deadline, result, run>>

\* All declarations and literals are enumerated.
Index(k) ==
  /\ stage[k] = "reading"
  /\ stage' = [stage EXCEPT ![k] = "walking"]
  /\ indexed' = indexed \cup {k}
  /\ UNCHANGED <<program, built, recorded, findings, deadline, result, run>>

IsNext(k, u) == /\ u \in Selected(k) \ built[k]
               /\ \A w \in Selected(k) \ built[k] : u <= w

\* buildFunction on the next selected unit.
Build(k, u) ==
  /\ stage[k] = "walking" /\ IsNext(k, u)
  /\ built' = [built EXCEPT ![k] = @ \cup {u}]
  /\ LET found == {b \in program.holds[k] : Carries(u, b)}
     IN  /\ recorded' = [recorded EXCEPT ![k] = @ \cup {[unit |-> u, is |-> Settled(k, b)] : b \in found}]
         /\ findings' = [findings EXCEPT ![k] = @ \cup UNION {Owing(k, b) : b \in found}]
  /\ UNCHANGED <<program, stage, indexed, deadline, result, run>>

\* Mutant of Attach: the findings are left out.
AttachNone(k) ==
  /\ stage[k] = "walking" /\ Selected(k) \subseteq built[k]
  /\ stage' = [stage EXCEPT ![k] = "complete"]
  /\ UNCHANGED <<program, indexed, built, recorded, findings, deadline, result, run>>

\* attachCallerFindings, after the last unit: each finding goes to the caller it blames.
Attach(k) ==
  /\ stage[k] = "walking" /\ Selected(k) \subseteq built[k]
  /\ stage' = [stage EXCEPT ![k] = "complete"]
  /\ recorded' = [recorded EXCEPT ![k] =
                     @ \cup {[unit |-> f.at, is |-> f] : f \in {g \in findings[k] : g.at \in built[k]}}]
  /\ UNCHANGED <<program, indexed, built, findings, deadline, result, run>>

\* The deadline passes: of the whole run, or of one package under vet.
DeadlinePasses(k) ==
  /\ k \notin deadline /\ ~run.ended
  /\ stage[k] # "reported" \/ program.driver = "standalone"
  /\ deadline' = IF program.driver = "standalone" THEN Packages ELSE deadline \cup {k}
  /\ UNCHANGED <<program, stage, indexed, built, recorded, findings, result, run>>

\* BuildContext notices it at one of its checks, the last of which comes before the
\* last unit is kept, and returns what it has.
Cut(k) ==
  /\ k \in deadline /\ stage[k] \in {"reading", "walking"}
  /\ stage[k] = "walking" => ~(Selected(k) \subseteq built[k])
  /\ stage' = [stage EXCEPT ![k] = "cut"]
  /\ UNCHANGED <<program, indexed, built, recorded, findings, deadline, result, run>>

\* The package's diagnostics and status.  vet appends them with its own timeout.
Report(k) ==
  /\ stage[k] \in {"complete", "cut"}
  /\ stage' = [stage EXCEPT ![k] = "reported"]
  /\ result' = [result EXCEPT ![k] =
                   IF program.driver = "vet" /\ k \in deadline THEN Timeout(Summary(k)) ELSE Summary(k)]
  /\ UNCHANGED <<program, indexed, built, recorded, findings, deadline, run>>

\* Status.Add over the results of all roots.
Total == [shown      |-> UNION {result[k].shown : k \in Packages},
          hidden     |-> UNION {result[k].hidden : k \in Packages},
          assumed    |-> UNION {result[k].assumed : k \in Packages},
          incomplete |-> \E k \in Packages : result[k].incomplete]

\* "all" stands for the rules that warn, which LL9001 does not.
FailsPolicy(s) == \E d \in s.shown : d.rule \in program.failOn \/ ("all" \in program.failOn /\ d.rule # "LL9001")

\* Mutant of FailsStatusPolicy: a run with nothing to show is let through.
FailsStatusPolicyIfShown(s) ==
  s.shown # {} /\ ((program.failOnIncomplete /\ s.incomplete) \/ (program.failOnUnsupported /\ s.assumed # {}))

FailsStatusPolicy(s) ==
  (program.failOnIncomplete /\ s.incomplete) \/ (program.failOnUnsupported /\ s.assumed # {})

\* The workers are done; Main reports and chooses the exit code.
Finish ==
  /\ program.driver = "standalone" /\ ~run.ended /\ InProgress = {}
  /\ deadline = {} => \A k \in Packages : stage[k] = "reported"
  /\ LET says == IF deadline # {} THEN Timeout(Total) ELSE Total
     IN  run' = [ended |-> TRUE, says |-> says,
                 exit |-> IF FailsPolicy(says) \/ FailsStatusPolicy(says) THEN "ci_exit_code" ELSE "ok"]
  /\ UNCHANGED <<program, stage, indexed, built, recorded, findings, deadline, result>>

Next == \/ \E k \in Packages : \/ Start(k) \/ Index(k) \/ Attach(k) \/ Cut(k) \/ Report(k)
                               \/ DeadlinePasses(k)
                               \/ \E u \in Units(k) : Build(k, u)
        \/ Finish

Spec == Init /\ [][Next]_vars

-----------------------------------------------------------------------------
\* What is said of a package, once it is said: by the run, or by vet's status line.

Said(k) == IF program.driver = "vet" THEN stage[k] = "reported" ELSE run.ended
Says(k) == IF program.driver = "vet" THEN result[k] ELSE run.says

Named(s, k, u, id) ==
  \/ \E d \in s.shown \cup s.hidden : d.pkg = k /\ d.unit = u /\ d.id = id
  \/ [pkg |-> k, unit |-> u, id |-> id] \in s.assumed

\* The unit in which a binding is judged.
Home(b) == IF b.kind = "goroutine" THEN b.decl ELSE b.at

\* Not known to be clean where it is: not discharged on every path, with nobody
\* else to answer for it, or counted or ordered wrongly.
Doubtful(b) ==
  IF b.kind = "goroutine" THEN b.body # "stops"
  ELSE \/ b.done # "all" /\ (b.sites = {} \/ b.escapes)
       \/ b.kind = "group" /\ (b.fault \/ b.late) /\ b.sites = {} /\ ~b.escapes

\* A package all of whose selected units were built, with the callers' findings.
Whole(k) == stage[k] = "reported" /\ k \in indexed /\ built[k] = Selected(k)

\* A doubt about a binding is shown, or hidden with a note, or counted as judged under
\* an approximation, where the binding is; or its unit was not analysed, and the
\* status is incomplete.
DoubtIsKnown(k, b) ==
  Doubtful(b) => \/ Named(Says(k), k, Home(b), b.id)
                 \/ (~Whole(k) \/ Home(b) \notin built[k]) /\ Says(k).incomplete

\* The same of a call that is not known to use the handle up on every path.
DropIsKnown(k, b, s) ==
  b.kind # "goroutine" /\ Lost(b) /\ s.does # "all" =>
    \/ Named(Says(k), k, s.in, b.id) \/ Named(Says(k), k, Home(b), b.id)
    \/ (~Whole(k) \/ Home(b) \notin built[k] \/ s.in \notin built[k]) /\ Says(k).incomplete

\* The calls that nobody checks and nobody counts.  One caller that was followed gives
\* the binding the evidence "checked at its own call site", and verifiedHandOff counts
\* nothing; but a caller that could not be followed was not checked, and of a handle
\* that had already escaped none is.
Overlooked(k, b) ==
  IF SitesSeen(k, b) = {} THEN {}
  ELSE {s \in Reached(k, b) : b.escapes \/ s.does = "unverified"}

(***************************************************************************)
(* OnlyOverlookedIsLost: every binding that is not known to be clean is    *)
(* shown, or hidden with a note, or counted as judged under an             *)
(* approximation, in the function where it is or at the caller that drops  *)
(* it; the only others are in units that were not analysed, and then the   *)
(* status is incomplete.  Overlooked calls are the exception, and they     *)
(* alone: beside one the other callers are still reported, and where no    *)
(* caller was followed the binding itself is counted.  (engine.go:98 and   *)
(* status.go:113 leave the same loop by different exits.)                  *)
(***************************************************************************)
OnlyOverlookedIsLost ==
  \A k \in Packages : Said(k) => \A b \in program.holds[k] :
    /\ Overlooked(k, b) = {} => DoubtIsKnown(k, b)
    /\ \A s \in b.sites \ Overlooked(k, b) : DropIsKnown(k, b, s)

(***************************************************************************)
(* NothingIsLost: the same without the exception, as status.go:61 has it:  *)
(* what is not counted as handed off is verified, not assumed.  The code   *)
(* does not keep to it: see Overlooked.                                    *)
(***************************************************************************)
NothingIsLost ==
  \A k \in Packages : Said(k) => \A b \in program.holds[k] :
    DoubtIsKnown(k, b) /\ \A s \in b.sites : DropIsKnown(k, b, s)

(***************************************************************************)
(* StrictExitIsClean: a run that exits 0 although every rule and both      *)
(* status policies fail it, and that hid nothing, has analysed every unit  *)
(* of every package and has found every binding discharged on all paths,   *)
(* by its owner or by each caller it is handed to that is not overlooked   *)
(* (README.md:149).  For an overlooked caller exit 0 does not vouch.       *)
(***************************************************************************)
StrictExitIsClean ==
  run.exit = "ok" /\ "all" \in program.failOn /\ program.failOnIncomplete
    /\ program.failOnUnsupported /\ run.says.hidden = {} =>
      /\ deadline = {}
      /\ \A k \in Packages :
           /\ built[k] = Units(k)
           /\ \A b \in program.holds[k] :
                /\ Overlooked(k, b) = {} => ~Doubtful(b)
                /\ b.kind # "goroutine" /\ Lost(b) =>
                     \A s \in b.sites \ Overlooked(k, b) : s.does = "all"

(***************************************************************************)
(* IncompleteIsExact: the status is incomplete exactly when the deadline   *)
(* passed or a unit was left out, whether or not LL9001 is shown           *)
(* (docs/specification.md:182).                                            *)
(***************************************************************************)
IncompleteIsExact ==
  /\ run.ended =>
       (run.says.incomplete <=> deadline # {} \/ \E k \in Packages : Units(k) # built[k])
  /\ program.driver = "vet" => \A k \in Packages : stage[k] = "reported" =>
       (result[k].incomplete <=> k \in deadline \/ Units(k) # built[k])

(***************************************************************************)
(* ReportedOnce: one obligation is not reported in two places: a goroutine *)
(* in a literal only in the declaration around it, a handle either where   *)
(* it is made or at the callers that drop it, never both.                  *)
(***************************************************************************)
ReportedOnce ==
  \A k \in Packages : Said(k) => \A b \in program.holds[k] :
    LET at == {d.unit : d \in {e \in Says(k).shown \cup Says(k).hidden : e.pkg = k /\ e.id = b.id}}
    IN  at \subseteq {Home(b)} \/ at \subseteq {s.in : s \in b.sites}
=============================================================================
