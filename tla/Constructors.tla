---------------------------- MODULE Constructors ----------------------------
(***************************************************************************)
(* Who has to cancel a cancel function that a constructor returns inside a *)
(* struct: the constructor pre-passes of internal/frontend/frontend.go and *)
(* what buildFunction makes of them.                                       *)
(*                                                                         *)
(* A function may create a handle, which is one obligation kept in one or  *)
(* more fields, and may call other functions.  A call either returns the   *)
(* result at once ("bare") or keeps it in a variable; then its paths say   *)
(* what happens to the variable on each path from the call to the return:  *)
(* the fields called through it, "return", or "other" for a use that the   *)
(* analysis does not follow.  A function of another package is known by    *)
(* the obligations in its fact.                                            *)
(***************************************************************************)
CONSTANTS Funcs,      \* the functions of the package
          Imported,   \* functions of other packages
          Fields,
          Programs    \* records of what the functions make and call, and of the facts

ASSUME ProgramsAssumption ==
  /\ Funcs \cap Imported = {}
  /\ Fields \cap {"return", "other"} = {}
  /\ \A p \in Programs :
       /\ p.makes \in [Funcs -> SUBSET Fields]
       /\ \A f \in Funcs : \A c \in p.calls[f] :
            c.to \in Funcs \cup Imported /\ (c.form = "bare" \/ c.paths # {})
       /\ \A x \in Imported : \A s \in p.facts[x] : s.field \in Fields

VARIABLES program,
          sites,      \* returnFieldInfo: the function that returns an obligation, in a field
          verdicts,   \* callerVerdicts
          queued,
          phase,
          built,
          findings    \* callerFindings, which attachCallerFindings gives to the callers

vars == <<program, sites, verdicts, queued, phase, built, findings>>

-----------------------------------------------------------------------------
\* Calls and obligations.  A call is known by the function that makes it.

Calls == UNION {{[in |-> f, at |-> c] : c \in program.calls[f]} : f \in Funcs}
Bare(call) == call.at.form = "bare"
Callee(call) == call.at.to
Uses(call) == UNION call.at.paths

Creates(f) == program.makes[f] # {}
FactSites(x) == {[obj |-> <<x, s.id>>, fn |-> x, field |-> s.field] : s \in program.facts[x]}

\* What is known of the results of f, from this package or from a fact.
SitesOf(f) == IF f \in Imported THEN FactSites(f) ELSE {s \in sites : s.fn = f}

\* returnObligation: the constructor does not itself cancel on every path.
Owed(obj) == IF obj[1] \in Funcs
             THEN ~program.discharged[obj[1]]
             ELSE \E s \in program.facts[obj[1]] : s.id = obj[2] /\ s.owed

-----------------------------------------------------------------------------
\* computeConstructorCallerConsumption and its worklist.

\* verifyConstructorCallerField for one field of the handle.
Verdict(call, field) ==
  IF field \in Uses(call) THEN (IF \A p \in call.at.paths : field \in p THEN "all" ELSE "some")
  ELSE IF {"other", "return"} \cap Uses(call) # {} THEN "unverified"
  ELSE "none"

\* Mutant of PassesOn: only the form return New() is recognised.
PassesOnBare(call, field) == Bare(call)

\* The caller is itself a constructor of what it was given.
PassesOn(call, field) ==
  Bare(call) \/ /\ "return" \in Uses(call)
                /\ field \notin Uses(call) /\ "other" \notin Uses(call)

CallsIn(f) == {call \in Calls : call.in = f}

\* What f turns out to return, and what becomes of what it is given.
NewSites(f) ==
  UNION {{[obj |-> s.obj, fn |-> f, field |-> s.field] :
            s \in {t \in SitesOf(Callee(call)) : PassesOn(call, t.field)}} : call \in CallsIn(f)}

NewVerdicts(f) ==
  UNION {{[obj |-> s.obj, call |-> call, field |-> s.field, is |-> Verdict(call, s.field)] :
            s \in SitesOf(Callee(call))} : call \in {c \in CallsIn(f) : ~Bare(c)}}

\* Mutant of Reverse: the callees are looked at again instead of the callers.
ReverseCallees(f) == {g \in Funcs : \E call \in CallsIn(f) : Callee(call) = g}

Reverse(f) == {g \in Funcs : \E call \in CallsIn(g) : Callee(call) = f}

Init == /\ program \in Programs
        /\ sites = UNION {{[obj |-> <<f, 1>>, fn |-> f, field |-> x] : x \in program.makes[f]} : f \in Funcs}
        /\ verdicts = {}
        /\ queued = Funcs
        /\ phase = "callers"
        /\ built = {}
        /\ findings = {}

\* Mutant of Evaluate: a site found again counts as news.
EvaluateAgain(f) ==
  /\ phase = "callers" /\ f \in queued
  /\ sites' = sites \cup NewSites(f)
  /\ verdicts' = verdicts \cup NewVerdicts(f)
  /\ queued' = (queued \ {f}) \cup (IF NewSites(f) # {} THEN Reverse(f) ELSE {})
  /\ UNCHANGED <<program, phase, built, findings>>

\* One turn of computeConstructorConsumptionFixedPoint.
Evaluate(f) ==
  /\ phase = "callers" /\ f \in queued
  /\ sites' = sites \cup NewSites(f)
  /\ verdicts' = verdicts \cup NewVerdicts(f)
  /\ queued' = (queued \ {f}) \cup (IF NewSites(f) \subseteq sites THEN {} ELSE Reverse(f))
  /\ UNCHANGED <<program, phase, built, findings>>

-----------------------------------------------------------------------------
\* Findings, when the sites are complete.

VerdictsAt(obj, call) == {v.is : v \in {w \in verdicts : w.obj = obj /\ w.call = call}}

\* Mutant of Verified: a call that could not be followed counts as one that does not clean up.
VerifiedByGuess(obj) == {v.call : v \in {w \in verdicts : w.obj = obj}}

\* callerSitesFor: the calls about which something is known.
Verified(obj) ==
  {call \in {v.call : v \in {w \in verdicts : w.obj = obj}} : "unverified" \notin VerdictsAt(obj, call)}

\* Mutant of Dropped: one caller that cleans up speaks for all (audit finding F2).
DroppedUnlessAnyCleans(obj) ==
  LET of == {v \in verdicts : v.obj = obj}
  IN  IF \E v \in of : v.is = "all" THEN {} ELSE {v.call : v \in {w \in of : w.is # "unverified"}}

\* Those of them that do not always clean up, through any field.
Dropped(obj) == {call \in Verified(obj) : "all" \notin VerdictsAt(obj, call)}

Findings(obj) == IF Owed(obj) THEN {[obj |-> obj, call |-> call] : call \in Dropped(obj)} ELSE {}

\* resolveImportedObligations.
ResolveImported ==
  /\ phase = "callers" /\ queued = {}
  /\ phase' = "build"
  /\ findings' = UNION {Findings(v.obj) : v \in {w \in verdicts : w.obj[1] \in Imported}}
  /\ UNCHANGED <<program, sites, verdicts, queued, built>>

\* buildFunction: recordReturnedField and resolveObligations of what f creates.
Build(f) ==
  /\ phase = "build" /\ f \notin built
  /\ built' = built \cup {f}
  /\ findings' = findings \cup (IF Creates(f) THEN Findings(<<f, 1>>) ELSE {})
  /\ UNCHANGED <<program, sites, verdicts, queued, phase>>

Next == (\E f \in Funcs : Evaluate(f) \/ Build(f)) \/ ResolveImported

Spec == Init /\ [][Next]_vars /\ WF_vars(Next)

\* exportedReturnFieldSites.
Exported(f) == {[obj |-> s.obj, field |-> s.field, owed |-> Owed(s.obj)] : s \in {t \in sites : t.fn = f}}

-----------------------------------------------------------------------------
\* What happens when the functions run.

Complete == phase = "build" /\ built = Funcs

Obligations == {<<f, 1>> : f \in {g \in Funcs : Creates(g)}}
                 \cup UNION {{<<x, s.id>> : s \in program.facts[x]} : x \in Imported}
FieldsOf(obj) == IF obj[1] \in Funcs THEN program.makes[obj[1]]
                 ELSE {s.field : s \in {t \in program.facts[obj[1]] : t.id = obj[2]}}

\* The obligation is left to nobody on some path after the call.
Leaks(call, obj) == \E p \in call.at.paths : p \cap (FieldsOf(obj) \cup {"return", "other"}) = {}

\* The handle does nothing but go on to the caller's own caller.
Forwards(call, obj) ==
  Bare(call) \/ ("return" \in Uses(call) /\ Uses(call) \cap (FieldsOf(obj) \cup {"other"}) = {})

\* The functions that hand out the obligation through calls that forward it.
HandsOut(f, obj) ==
  \A S \in SUBSET (Funcs \cup Imported) :
    (obj[1] \in S /\ \A call \in Calls : (Callee(call) \in S /\ Forwards(call, obj)) => call.in \in S)
      => f \in S

Followed(call) == Uses(call) \cap {"return", "other"} = {}
OneUse(call) == \A u, v \in Uses(call) : u = v

\* Nobody cancels a handle and hands it on as well.
Separate == \A call \in Calls : Followed(call) \/ OneUse(call)

TypeOK == /\ sites \subseteq [obj : Obligations, fn : Funcs, field : Fields]
          /\ verdicts \subseteq [obj : Obligations, call : Calls, field : Fields,
                                 is : {"all", "some", "none", "unverified"}]
          /\ queued \subseteq Funcs /\ built \subseteq Funcs
          /\ phase \in {"callers", "build"}
          /\ findings \subseteq [obj : Obligations, call : Calls]

(* No caller is left with what it knew before a wrapper was recognised:    *)
(* the reverse calls of computeConstructorConsumptionFixedPoint suffice.   *)
NoStaleCaller ==
  \A f \in Funcs \ queued : NewSites(f) \subseteq sites /\ NewVerdicts(f) \subseteq verdicts

(* A call that lets an owed handle drop is reported, however many wrappers *)
(* it came through, whatever other callers do with theirs, and in whatever *)
(* order the functions are looked at (audit finding F2).                   *)
NoLeakIsMissed ==
  Complete => \A call \in Calls, obj \in Obligations :
    (~Bare(call) /\ Followed(call) /\ Owed(obj) /\ HandsOut(Callee(call), obj) /\ Leaks(call, obj))
      => [obj |-> obj, call |-> call] \in findings

(* What is reported came out of the call and is dropped on some path. (A   *)
(* handle cancelled through one field here and another there is excepted.) *)
AlarmsAreReal ==
  Separate => \A r \in findings :
    /\ HandsOut(Callee(r.call), r.obj)
    /\ OneUse(r.call) => Leaks(r.call, r.obj)

(* The summary another package will read names every obligation that the   *)
(* function hands out, and none that it does not.                          *)
ExportIsExact ==
  Complete /\ Separate => \A f \in Funcs :
    {s.obj : s \in Exported(f)} = {obj \in Obligations : HandsOut(f, obj)}

(* docs/limitations.md: a call whose handle is passed somewhere else or    *)
(* forwarded yields no finding either way.                                 *)
UnfollowedIsSilent == \A r \in findings : Followed(r.call)

(* The worklist ends, wrappers that call each other included.              *)
Terminates == <>Complete
=============================================================================
