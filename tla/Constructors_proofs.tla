------------------------- MODULE Constructors_proofs -------------------------
(***************************************************************************)
(* Proofs about constructor ownership, for every package: the worklist     *)
(* leaves no caller behind, and what is reported and exported is exactly   *)
(* what the calls do with the handles they are given.                      *)
(***************************************************************************)
EXTENDS Constructors, TLAPS

Typed == program \in Programs /\ TypeOK

(* A call is made by a function of the package, and leads somewhere.       *)
LEMMA CallShape ==
  ASSUME Typed, NEW call \in Calls
  PROVE  /\ call.in \in Funcs
         /\ call \in CallsIn(call.in)
         /\ Callee(call) \in Funcs \cup Imported
         /\ ~Bare(call) => call.at.paths # {}
<1>1. PICK f \in Funcs : call \in {[in |-> f, at |-> c] : c \in program.calls[f]}
  BY DEF Calls
<1>2. PICK c \in program.calls[f] : call = [in |-> f, at |-> c]
  BY <1>1
<1>3. c.to \in Funcs \cup Imported /\ (c.form = "bare" \/ c.paths # {})
  BY <1>2, ProgramsAssumption DEF Typed
<1> QED BY <1>2, <1>3 DEF CallsIn, Callee, Bare

(* What is known of the results of a function.                             *)
LEMMA SiteShape ==
  ASSUME Typed, NEW f \in Funcs \cup Imported, NEW s \in SitesOf(f)
  PROVE  /\ s.obj \in Obligations /\ s.field \in Fields /\ s.fn = f
         /\ s = [obj |-> s.obj, fn |-> f, field |-> s.field]
         /\ f \in Imported => s.field \in FieldsOf(s.obj) /\ s.obj[1] = f
<1>1. CASE f \in Imported
  <2>1. PICK t \in program.facts[f] : s = [obj |-> <<f, t.id>>, fn |-> f, field |-> t.field]
    BY <1>1 DEF SitesOf, FactSites
  <2>2. t.field \in Fields
    BY <1>1, <2>1, ProgramsAssumption DEF Typed
  <2>3. <<f, t.id>> \in Obligations
    BY <1>1, <2>1 DEF Obligations
  <2>4. f \notin Funcs
    BY <1>1, ProgramsAssumption
  <2>5. t.field \in FieldsOf(<<f, t.id>>)
    BY <2>1, <2>4 DEF FieldsOf
  <2> QED BY <2>1, <2>2, <2>3, <2>5
<1>2. CASE f \notin Imported
  <2>1. s \in sites /\ s.fn = f
    BY <1>2 DEF SitesOf
  <2>2. s \in [obj : Obligations, fn : Funcs, field : Fields]
    BY <2>1 DEF Typed, TypeOK
  <2> QED BY <1>2, <2>1, <2>2
<1> QED BY <1>1, <1>2

(* Which obligations f learns that it returns.                             *)
LEMMA NewSitesElement ==
  ASSUME NEW f, NEW s
  PROVE  s \in NewSites(f) <=>
           \E call \in CallsIn(f) : \E t \in SitesOf(Callee(call)) :
             PassesOn(call, t.field) /\ s = [obj |-> t.obj, fn |-> f, field |-> t.field]
BY DEF NewSites

(* Which verdicts f passes on what it is given.                            *)
LEMMA NewVerdictsElement ==
  ASSUME NEW f, NEW v
  PROVE  v \in NewVerdicts(f) <=>
           \E call \in CallsIn(f) : ~Bare(call) /\ \E s \in SitesOf(Callee(call)) :
             v = [obj |-> s.obj, call |-> call, field |-> s.field, is |-> Verdict(call, s.field)]
BY DEF NewVerdicts

(* An evaluation adds what is well formed.                                 *)
LEMMA NewIsTyped ==
  ASSUME Typed, NEW f \in Funcs
  PROVE  /\ NewSites(f) \subseteq [obj : Obligations, fn : Funcs, field : Fields]
         /\ NewVerdicts(f) \subseteq [obj : Obligations, call : Calls, field : Fields,
                                      is : {"all", "some", "none", "unverified"}]
<1>1. \A call \in CallsIn(f) : call \in Calls /\ Callee(call) \in Funcs \cup Imported
  BY CallShape DEF CallsIn
<1>2. NewSites(f) \subseteq [obj : Obligations, fn : Funcs, field : Fields]
  BY <1>1, NewSitesElement, SiteShape
<1>3. \A call, y : Verdict(call, y) \in {"all", "some", "none", "unverified"}
  BY DEF Verdict
<1>4. NewVerdicts(f) \subseteq [obj : Obligations, call : Calls, field : Fields,
                                is : {"all", "some", "none", "unverified"}]
  BY <1>1, <1>3, NewVerdictsElement, SiteShape
<1> QED BY <1>2, <1>4

(* Findings are about calls and obligations.                               *)
LEMMA FindingsAreTyped ==
  ASSUME Typed, NEW obj
  PROVE  Findings(obj) \subseteq [obj : {obj}, call : Calls]
<1>1. Verified(obj) \subseteq Calls
  BY DEF Verified, Typed, TypeOK
<1> QED BY <1>1 DEF Findings, Dropped

LEMMA TypedInvariant == Spec => []Typed
<1>1. Init => Typed
  <2> SUFFICES ASSUME Init PROVE Typed
    OBVIOUS
  <2>1. program \in Programs  BY DEF Init
  <2>2. sites \subseteq [obj : Obligations, fn : Funcs, field : Fields]
    <3> SUFFICES ASSUME NEW s \in sites PROVE s \in [obj : Obligations, fn : Funcs, field : Fields]
      OBVIOUS
    <3>1. PICK f \in Funcs : s \in {[obj |-> <<f, 1>>, fn |-> f, field |-> y] : y \in program.makes[f]}
      BY DEF Init
    <3>2. PICK y \in program.makes[f] : s = [obj |-> <<f, 1>>, fn |-> f, field |-> y]
      BY <3>1
    <3>3. program.makes[f] \subseteq Fields
      BY <2>1, ProgramsAssumption
    <3>4. <<f, 1>> \in Obligations
      BY <3>2 DEF Obligations, Creates
    <3> QED BY <3>2, <3>3, <3>4
  <2> QED BY <2>1, <2>2 DEF Init, Typed, TypeOK
<1>2. Typed /\ [Next]_vars => Typed'
  <2> SUFFICES ASSUME Typed, [Next]_vars PROVE Typed'
    OBVIOUS
  <2>1. program' = program
    BY DEF Next, vars, Evaluate, ResolveImported, Build
  <2>2. Obligations' = Obligations /\ Calls' = Calls
    BY <2>1 DEF Obligations, Creates, Calls
  <2>3. CASE UNCHANGED vars
    BY <2>2, <2>3 DEF vars, Typed, TypeOK
  <2>4. ASSUME NEW f \in Funcs, Evaluate(f) PROVE Typed'
    <3>1. sites' \subseteq [obj : Obligations, fn : Funcs, field : Fields]
      BY <2>4, NewIsTyped DEF Evaluate, Typed, TypeOK
    <3>2. verdicts' \subseteq [obj : Obligations, call : Calls, field : Fields,
                               is : {"all", "some", "none", "unverified"}]
      BY <2>4, NewIsTyped DEF Evaluate, Typed, TypeOK
    <3>3. queued' \subseteq Funcs
      BY <2>4 DEF Evaluate, Reverse, Typed, TypeOK
    <3> QED BY <2>1, <2>2, <2>4, <3>1, <3>2, <3>3 DEF Evaluate, Typed, TypeOK
  <2>5. ASSUME ResolveImported PROVE Typed'
    <3>1. findings' \subseteq [obj : Obligations, call : Calls]
      <4> SUFFICES ASSUME NEW r \in findings' PROVE r \in [obj : Obligations, call : Calls]
        OBVIOUS
      <4>1. PICK v \in verdicts : r \in Findings(v.obj)
        BY <2>5 DEF ResolveImported
      <4>2. v.obj \in Obligations
        BY DEF Typed, TypeOK
      <4> QED BY <4>1, <4>2, FindingsAreTyped
    <3> QED BY <2>1, <2>2, <2>5, <3>1 DEF ResolveImported, Typed, TypeOK
  <2>6. ASSUME NEW f \in Funcs, Build(f) PROVE Typed'
    <3>1. findings' \subseteq [obj : Obligations, call : Calls]
      <4>1. Creates(f) => <<f, 1>> \in Obligations
        BY DEF Obligations
      <4>2. Creates(f) => Findings(<<f, 1>>) \subseteq [obj : Obligations, call : Calls]
        BY <4>1, FindingsAreTyped
      <4> QED BY <2>6, <4>2 DEF Build, Typed, TypeOK
    <3> QED BY <2>1, <2>2, <2>6, <3>1 DEF Build, Typed, TypeOK
  <2> QED BY <2>3, <2>4, <2>5, <2>6 DEF Next
<1> QED BY <1>1, <1>2, PTL DEF Spec

(* The invariant TypeOK that the run checks.                               *)
THEOREM TypeCorrect == Spec => []TypeOK
<1>1. Typed => TypeOK  BY DEF Typed
<1> QED BY <1>1, TypedInvariant, PTL

-----------------------------------------------------------------------------
(* What f concludes rests on the sites of the functions it calls only.     *)
LEMMA ReadsItsCalleesOnly ==
  ASSUME program' = program, NEW f \in Funcs,
         \A call \in CallsIn(f) : SitesOf(Callee(call))' = SitesOf(Callee(call))
  PROVE  NewSites(f)' = NewSites(f) /\ NewVerdicts(f)' = NewVerdicts(f)
<1>1. CallsIn(f)' = CallsIn(f)
  BY DEF CallsIn, Calls
<1>2. \A call, y : /\ Bare(call)' <=> Bare(call)
                   /\ Callee(call)' = Callee(call)
                   /\ PassesOn(call, y)' <=> PassesOn(call, y)
                   /\ Verdict(call, y)' = Verdict(call, y)
  BY DEF Bare, Callee, PassesOn, Verdict, Uses
<1>3. NewSites(f)' = NewSites(f)
  BY <1>1, <1>2 DEF NewSites
<1>4. NewVerdicts(f)' = NewVerdicts(f)
  BY <1>1, <1>2 DEF NewVerdicts
<1> QED BY <1>3, <1>4

(* An evaluation adds sites of the function evaluated only.                *)
LEMMA OthersKeepTheirSites ==
  ASSUME Typed, NEW f \in Funcs, Evaluate(f), NEW g \in Funcs \cup Imported,
         g # f \/ NewSites(f) \subseteq sites
  PROVE  SitesOf(g)' = SitesOf(g)
<1>1. program' = program /\ sites' = sites \cup NewSites(f)
  BY DEF Evaluate
<1>2. CASE g \in Imported
  BY <1>1, <1>2 DEF SitesOf, FactSites
<1>3. CASE g \notin Imported
  <2>1. \A s \in NewSites(f) : s.fn = f
    BY NewSitesElement
  <2> QED BY <1>1, <1>3, <2>1 DEF SitesOf
<1> QED BY <1>2, <1>3

(* Whoever may have to think again is queued.                              *)
LEMMA NoStaleStep ==
  ASSUME Typed, NoStaleCaller, NEW f \in Funcs, Evaluate(f)
  PROVE  NoStaleCaller'
<1> SUFFICES ASSUME NEW g \in Funcs, g \notin queued'
             PROVE  NewSites(g)' \subseteq sites' /\ NewVerdicts(g)' \subseteq verdicts'
  BY DEF NoStaleCaller
<1>1. program' = program  BY DEF Evaluate
<1>2. \A call \in CallsIn(g) : SitesOf(Callee(call))' = SitesOf(Callee(call))
  <2> SUFFICES ASSUME NEW call \in CallsIn(g)
               PROVE  SitesOf(Callee(call))' = SitesOf(Callee(call))
    OBVIOUS
  <2>1. Callee(call) \in Funcs \cup Imported
    BY CallShape DEF CallsIn
  <2>2. Callee(call) # f \/ NewSites(f) \subseteq sites
    BY DEF Evaluate, Reverse
  <2> QED BY <2>1, <2>2, OthersKeepTheirSites
<1>3. NewSites(g)' = NewSites(g) /\ NewVerdicts(g)' = NewVerdicts(g)
  BY <1>1, <1>2, ReadsItsCalleesOnly
<1>4. CASE g = f
  BY <1>3, <1>4 DEF Evaluate
<1>5. CASE g # f
  BY <1>3, <1>5 DEF Evaluate, NoStaleCaller
<1> QED BY <1>4, <1>5

(* The invariant NoStaleCaller that the run checks.                        *)
THEOREM NeverStale == Spec => []NoStaleCaller
<1>1. Init => NoStaleCaller  BY DEF Init, NoStaleCaller
<1>2. Typed /\ NoStaleCaller /\ [Next]_vars => NoStaleCaller'
  <2> SUFFICES ASSUME Typed, NoStaleCaller, [Next]_vars PROVE NoStaleCaller'
    OBVIOUS
  <2>1. CASE UNCHANGED <<program, sites, verdicts, queued>>
    <3>1. \A g : SitesOf(g)' = SitesOf(g)
      BY <2>1 DEF SitesOf, FactSites
    <3>2. \A g \in Funcs : NewSites(g)' = NewSites(g) /\ NewVerdicts(g)' = NewVerdicts(g)
      BY <2>1, <3>1, ReadsItsCalleesOnly
    <3> QED BY <2>1, <3>2 DEF NoStaleCaller
  <2>2. CASE \E f \in Funcs : Evaluate(f)
    BY <2>2, NoStaleStep
  <2> QED BY <2>1, <2>2 DEF Next, vars, ResolveImported, Build
<1> QED BY <1>1, <1>2, TypedInvariant, PTL DEF Spec

-----------------------------------------------------------------------------
(* What the sites and the verdicts stand for.                              *)
Located == \A s \in sites : s.field \in FieldsOf(s.obj)
HandedOut == Separate => \A s \in sites : HandsOut(s.fn, s.obj)
Siblings == Separate =>
  \A s \in sites : \A y \in FieldsOf(s.obj) : [obj |-> s.obj, fn |-> s.fn, field |-> y] \in sites
Rooted == \A f \in Funcs : \A y \in program.makes[f] : [obj |-> <<f, 1>>, fn |-> f, field |-> y] \in sites
Founded == \A v \in verdicts : v \in NewVerdicts(v.call.in)

\* The callers have been asked before anything is reported, and what is reported is all of it.
Settled == IF phase = "build" THEN queued = {} ELSE built = {}
Reported == \A r \in findings : phase = "build" /\ r \in Findings(r.obj)
Resolved == phase = "build" =>
  \A obj \in Obligations : obj[1] \in Imported \cup built => Findings(obj) \subseteq findings

Facts == Located /\ HandedOut /\ Siblings /\ Rooted /\ Founded
Outcome == Settled /\ Reported /\ Resolved

(* Whoever creates an obligation hands it out.                             *)
LEMMA OwnerHandsOut ==
  ASSUME Typed, NEW obj \in Obligations, obj[1] \in Funcs \cup Imported
  PROVE  HandsOut(obj[1], obj)
BY DEF HandsOut

(* So does whoever forwards what a function that hands it out has given.   *)
LEMMA ForwarderHandsOut ==
  ASSUME Typed, NEW obj, NEW call \in Calls, HandsOut(Callee(call), obj), Forwards(call, obj)
  PROVE  HandsOut(call.in, obj)
BY DEF HandsOut

(* A site names a field of the obligation.                                 *)
LEMMA SitesAreLocated ==
  ASSUME Typed, Located, NEW f \in Funcs \cup Imported, NEW s \in SitesOf(f)
  PROVE  s.field \in FieldsOf(s.obj)
BY SiteShape DEF Located, SitesOf

(* What passes on through one field is forwarded.                          *)
LEMMA PassingIsForwarding ==
  ASSUME Typed, Separate, NEW call \in Calls, NEW y, PassesOn(call, y), NEW obj,
         FieldsOf(obj) \subseteq Fields
  PROVE  Forwards(call, obj)
<1>1. CASE Bare(call)
  BY <1>1 DEF Forwards
<1>2. CASE ~Bare(call)
  <2>1. "return" \in Uses(call) /\ "other" \notin Uses(call)
    BY <1>2 DEF PassesOn
  <2>2. \A u \in Uses(call) : u = "return"
    BY <2>1 DEF Separate, Followed, OneUse
  <2>3. "return" \notin FieldsOf(obj)
    BY ProgramsAssumption
  <2> QED BY <2>1, <2>2, <2>3 DEF Forwards
<1> QED BY <1>1, <1>2

(* Conversely, what is forwarded passes on through each field.             *)
LEMMA ForwardingIsPassing ==
  ASSUME NEW call, NEW obj, Forwards(call, obj), NEW y \in FieldsOf(obj)
  PROVE  PassesOn(call, y)
BY DEF Forwards, PassesOn

(* The fields of an obligation are fields.                                 *)
LEMMA FieldsAreFields ==
  ASSUME Typed, NEW obj \in Obligations
  PROVE  FieldsOf(obj) \subseteq Fields /\ obj[1] \in Funcs \cup Imported
<1>1. CASE \E f \in Funcs : obj = <<f, 1>>
  BY <1>1, ProgramsAssumption DEF Typed, FieldsOf
<1>2. CASE \E x \in Imported : \E t \in program.facts[x] : obj = <<x, t.id>>
  <2>1. PICK x \in Imported : \E t \in program.facts[x] : obj = <<x, t.id>>
    BY <1>2
  <2>2. obj[1] = x /\ x \notin Funcs
    BY <2>1, ProgramsAssumption
  <2>3. \A t \in program.facts[x] : t.field \in Fields
    BY ProgramsAssumption DEF Typed
  <2> QED BY <2>2, <2>3 DEF FieldsOf
<1>3. (\E f \in Funcs : obj = <<f, 1>>) \/ (\E x \in Imported : \E t \in program.facts[x] : obj = <<x, t.id>>)
  BY DEF Obligations
<1> QED BY <1>1, <1>2, <1>3

(* All that a called function hands out is handed out, through each field. *)
LEMMA SitesOfCallees ==
  ASSUME Typed, HandedOut, Siblings, Separate, NEW f \in Funcs \cup Imported, NEW s \in SitesOf(f)
  PROVE  /\ HandsOut(f, s.obj)
         /\ \A y \in FieldsOf(s.obj) : [obj |-> s.obj, fn |-> f, field |-> y] \in SitesOf(f)
<1>1. CASE f \in Imported
  <2>1. s.obj[1] = f /\ s.obj \in Obligations
    BY <1>1, SiteShape
  <2>2. f \notin Funcs
    BY <1>1, ProgramsAssumption
  <2>3. PICK t \in program.facts[f] : s = [obj |-> <<f, t.id>>, fn |-> f, field |-> t.field]
    BY <1>1 DEF SitesOf, FactSites
  <2>4. \A y \in FieldsOf(s.obj) : [obj |-> s.obj, fn |-> f, field |-> y] \in FactSites(f)
    <3> SUFFICES ASSUME NEW y \in FieldsOf(s.obj)
                 PROVE  [obj |-> s.obj, fn |-> f, field |-> y] \in FactSites(f)
      OBVIOUS
    <3>1. s.obj = <<f, t.id>> /\ s.obj[1] \notin Funcs
      BY <2>2, <2>3
    <3>2. PICK u \in program.facts[f] : u.id = t.id /\ y = u.field
      BY <3>1 DEF FieldsOf
    <3> QED BY <3>1, <3>2 DEF FactSites
  <2> QED BY <1>1, <2>1, <2>4, OwnerHandsOut DEF SitesOf
<1>2. CASE f \notin Imported
  <2>1. s \in sites /\ s.fn = f
    BY <1>2 DEF SitesOf
  <2> QED BY <1>2, <2>1 DEF SitesOf, HandedOut, Siblings
<1> QED BY <1>1, <1>2

(* Evaluating a function adds sites that stand for something.              *)
LEMMA FactsStep ==
  ASSUME Typed, Facts, NEW f \in Funcs, Evaluate(f)
  PROVE  Facts'
<1>1. /\ program' = program
      /\ sites' = sites \cup NewSites(f)
      /\ verdicts' = verdicts \cup NewVerdicts(f)
  BY DEF Evaluate
<1>2. /\ \A obj : FieldsOf(obj)' = FieldsOf(obj)
      /\ Separate' <=> Separate
      /\ \A g, obj : HandsOut(g, obj)' <=> HandsOut(g, obj)
      /\ Calls' = Calls
  BY <1>1 DEF FieldsOf, Separate, HandsOut, Calls, Followed, OneUse, Uses, Forwards, Bare, Callee
<1>3. ASSUME NEW s \in NewSites(f)
      PROVE  \E call \in Calls : \E t \in SitesOf(Callee(call)) :
               /\ call.in = f /\ Callee(call) \in Funcs \cup Imported
               /\ PassesOn(call, t.field)
               /\ s = [obj |-> t.obj, fn |-> f, field |-> t.field]
  BY NewSitesElement, CallShape DEF CallsIn
<1>4. Located'
  <2>1. \A s \in NewSites(f) : s.field \in FieldsOf(s.obj)
    BY <1>3, SitesAreLocated DEF Facts
  <2> QED BY <1>1, <1>2, <2>1 DEF Facts, Located
<1>5. HandedOut'
  <2> SUFFICES ASSUME Separate, NEW s \in NewSites(f) PROVE HandsOut(s.fn, s.obj)
    BY <1>1, <1>2 DEF Facts, HandedOut
  <2>0. PICK call \in Calls : \E t \in SitesOf(Callee(call)) :
          /\ call.in = f /\ Callee(call) \in Funcs \cup Imported
          /\ PassesOn(call, t.field)
          /\ s = [obj |-> t.obj, fn |-> f, field |-> t.field]
    BY <1>3
  <2>1. PICK t \in SitesOf(Callee(call)) :
          /\ call.in = f /\ Callee(call) \in Funcs \cup Imported
          /\ PassesOn(call, t.field)
          /\ s = [obj |-> t.obj, fn |-> f, field |-> t.field]
    BY <2>0
  <2>2. HandsOut(Callee(call), t.obj)
    BY <2>1, SitesOfCallees DEF Facts
  <2>3. t.obj \in Obligations
    BY <2>1, SiteShape
  <2>4. Forwards(call, t.obj)
    BY <2>1, <2>3, FieldsAreFields, PassingIsForwarding
  <2> QED BY <2>1, <2>2, <2>4, ForwarderHandsOut
<1>6. Siblings'
  <2> SUFFICES ASSUME Separate, NEW s \in NewSites(f), NEW y \in FieldsOf(s.obj)
               PROVE  [obj |-> s.obj, fn |-> s.fn, field |-> y] \in NewSites(f)
    BY <1>1, <1>2 DEF Facts, Siblings
  <2>0. PICK call \in CallsIn(f) : \E t \in SitesOf(Callee(call)) :
          PassesOn(call, t.field) /\ s = [obj |-> t.obj, fn |-> f, field |-> t.field]
    BY NewSitesElement
  <2>1. PICK t \in SitesOf(Callee(call)) :
          PassesOn(call, t.field) /\ s = [obj |-> t.obj, fn |-> f, field |-> t.field]
    BY <2>0
  <2>2. call \in Calls /\ Callee(call) \in Funcs \cup Imported
    BY CallShape DEF CallsIn
  <2>3. [obj |-> t.obj, fn |-> Callee(call), field |-> y] \in SitesOf(Callee(call))
    BY <2>1, <2>2, SitesOfCallees DEF Facts
  <2>4. t.obj \in Obligations
    BY <2>1, <2>2, SiteShape
  <2>5. PassesOn(call, y)
    BY <2>1, <2>2, <2>4, FieldsAreFields, PassingIsForwarding, ForwardingIsPassing
  <2> DEFINE u == [obj |-> t.obj, fn |-> Callee(call), field |-> y]
  <2>6. u \in SitesOf(Callee(call)) /\ u.obj = t.obj /\ u.field = y
    BY <2>3
  <2> HIDE DEF u
  <2>7. [obj |-> s.obj, fn |-> s.fn, field |-> y] = [obj |-> u.obj, fn |-> f, field |-> u.field]
    BY <2>1, <2>6
  <2> QED BY <2>1, <2>5, <2>6, <2>7, NewSitesElement
<1>7. Rooted'
  BY <1>1 DEF Facts, Rooted
<1>8. Founded'
  <2> SUFFICES ASSUME NEW v \in verdicts' PROVE v \in NewVerdicts(v.call.in)'
    BY DEF Founded
  <2>1. v \in NewVerdicts(v.call.in)
    <3>1. CASE v \in verdicts
      BY <3>1 DEF Facts, Founded
    <3>2. CASE v \in NewVerdicts(f)
      <4>1. v.call \in CallsIn(f)
        BY <3>2, NewVerdictsElement
      <4> QED BY <3>2, <4>1 DEF CallsIn
    <3> QED BY <1>1, <3>1, <3>2
  <2>0. PICK call \in CallsIn(v.call.in) : ~Bare(call) /\ \E s \in SitesOf(Callee(call)) :
          v = [obj |-> s.obj, call |-> call, field |-> s.field, is |-> Verdict(call, s.field)]
    BY <2>1, NewVerdictsElement
  <2>2. PICK s \in SitesOf(Callee(call)) :
          v = [obj |-> s.obj, call |-> call, field |-> s.field, is |-> Verdict(call, s.field)]
    BY <2>0
  <2>3. s \in SitesOf(Callee(call))'
    BY <1>1, <2>2 DEF SitesOf, FactSites
  <2>4. call \in CallsIn(v.call.in)' /\ Bare(call)' = Bare(call) /\ Callee(call)' = Callee(call)
         /\ Verdict(call, s.field)' = Verdict(call, s.field)
    BY <1>1, <2>2 DEF CallsIn, Calls, Bare, Callee, Verdict, Uses
  <2> QED BY <2>0, <2>2, <2>3, <2>4 DEF NewVerdicts
<1> QED BY <1>4, <1>5, <1>6, <1>7, <1>8 DEF Facts

LEMMA FactsInvariant == Spec => []Facts
<1>1. Init /\ Typed => Facts
  <2> SUFFICES ASSUME Init, Typed PROVE Facts
    OBVIOUS
  <2>1. \A s : s \in sites <=>
          \E f \in Funcs : \E y \in program.makes[f] : s = [obj |-> <<f, 1>>, fn |-> f, field |-> y]
    BY DEF Init
  <2>2. \A f \in Funcs : FieldsOf(<<f, 1>>) = program.makes[f]
    BY DEF FieldsOf
  <2>3. Located /\ Siblings /\ Rooted
    BY <2>1, <2>2 DEF Located, Siblings, Rooted
  <2>4. HandedOut
    BY <2>1 DEF HandedOut, HandsOut
  <2>5. Founded
    BY DEF Init, Founded
  <2> QED BY <2>3, <2>4, <2>5 DEF Facts
<1>2. Typed /\ Facts /\ [Next]_vars => Facts'
  <2> SUFFICES ASSUME Typed, Facts, [Next]_vars PROVE Facts'
    OBVIOUS
  <2>1. CASE UNCHANGED <<program, sites, verdicts>>
    <3>1. /\ \A obj : FieldsOf(obj)' = FieldsOf(obj)
          /\ Separate' <=> Separate
          /\ \A g, obj : HandsOut(g, obj)' <=> HandsOut(g, obj)
      BY <2>1 DEF FieldsOf, Separate, HandsOut, Calls, Followed, OneUse, Uses, Forwards, Bare, Callee
    <3>2. Located' /\ HandedOut' /\ Siblings' /\ Rooted'
      BY <2>1, <3>1 DEF Facts, Located, HandedOut, Siblings, Rooted
    <3>3. \A g : SitesOf(g)' = SitesOf(g)
      BY <2>1 DEF SitesOf, FactSites
    <3>4. \A v \in verdicts : v.call.in \in Funcs
      BY CallShape DEF Typed, TypeOK
    <3>5. \A f \in Funcs : NewVerdicts(f)' = NewVerdicts(f)
      BY <2>1, <3>3, ReadsItsCalleesOnly
    <3>6. Founded'
      BY <2>1, <3>4, <3>5 DEF Facts, Founded
    <3> QED BY <3>2, <3>6 DEF Facts
  <2>2. CASE \E f \in Funcs : Evaluate(f)
    BY <2>2, FactsStep
  <2> QED BY <2>1, <2>2 DEF Next, vars, ResolveImported, Build
<1> QED BY <1>1, <1>2, TypedInvariant, PTL DEF Spec

-----------------------------------------------------------------------------
(* A finding is about a call that has a verdict, and none that excuses it. *)
LEMMA FindingsElement ==
  ASSUME NEW obj, NEW r
  PROVE  r \in Findings(obj) <=>
           /\ Owed(obj) /\ r = [obj |-> obj, call |-> r.call]
           /\ \E v \in verdicts : v.obj = obj /\ v.call = r.call
           /\ \A v \in verdicts : v.obj = obj /\ v.call = r.call => v.is \notin {"all", "unverified"}
<1>1. \A call : "all" \notin VerdictsAt(obj, call) /\ "unverified" \notin VerdictsAt(obj, call) <=>
        \A v \in verdicts : v.obj = obj /\ v.call = call => v.is \notin {"all", "unverified"}
  BY DEF VerdictsAt
<1>2. \A call : call \in Dropped(obj) <=>
        /\ \E v \in verdicts : v.obj = obj /\ v.call = call
        /\ "all" \notin VerdictsAt(obj, call) /\ "unverified" \notin VerdictsAt(obj, call)
  BY DEF Dropped, Verified
<1>3. r \in Findings(obj) <=> Owed(obj) /\ \E call \in Dropped(obj) : r = [obj |-> obj, call |-> call]
  BY DEF Findings
<1> QED BY <1>1, <1>2, <1>3

LEMMA OutcomeInvariant == Spec => []Outcome
<1>1. Init => Outcome
  BY DEF Init, Outcome, Settled, Reported, Resolved
<1>2. Typed /\ Outcome /\ [Next]_vars => Outcome'
  <2> SUFFICES ASSUME Typed, Outcome, [Next]_vars PROVE Outcome'
    OBVIOUS
  <2>1. ASSUME UNCHANGED <<program, verdicts>>
        PROVE  /\ \A obj : Findings(obj)' = Findings(obj)
               /\ Obligations' = Obligations
               /\ \A f : Creates(f)' = Creates(f)
    BY <2>1 DEF Findings, Owed, Dropped, Verified, VerdictsAt, Obligations, Creates
  <2>2. \A obj : \A r \in Findings(obj) : r.obj = obj
    BY FindingsElement
  <2>3. CASE UNCHANGED vars
    BY <2>1, <2>3 DEF vars, Outcome, Settled, Reported, Resolved
  <2>4. CASE \E f \in Funcs : Evaluate(f)
    BY <2>4 DEF Evaluate, Outcome, Settled, Reported, Resolved
  <2>5. CASE ResolveImported
    <3>1. Settled'
      BY <2>5 DEF ResolveImported, Settled
    <3>2. \A r \in findings' : r \in Findings(r.obj)
      BY <2>2, <2>5 DEF ResolveImported
    <3>3. \A obj : obj[1] \in Imported => Findings(obj) \subseteq findings'
      BY <2>5, FindingsElement DEF ResolveImported
    <3>4. built' = {}
      BY <2>5 DEF ResolveImported, Outcome, Settled
    <3> QED BY <2>1, <2>5, <3>1, <3>2, <3>3, <3>4 DEF ResolveImported, Outcome, Reported, Resolved
  <2>6. ASSUME NEW f \in Funcs, Build(f) PROVE Outcome'
    <3>1. Settled' /\ phase' = "build" /\ phase = "build"
      BY <2>6 DEF Build, Outcome, Settled
    <3>2. \A r \in findings' : r \in Findings(r.obj)
      BY <2>2, <2>6 DEF Build, Outcome, Reported
    <3>3. \A obj \in Obligations : obj[1] \in Imported \cup built' => Findings(obj) \subseteq findings'
      <4> SUFFICES ASSUME NEW obj \in Obligations, obj[1] \in Imported \cup built'
                   PROVE  Findings(obj) \subseteq findings'
        OBVIOUS
      <4>1. CASE obj[1] = f
        <5>1. obj = <<f, 1>> /\ Creates(f)
          BY <4>1, ProgramsAssumption DEF Obligations
        <5> QED BY <2>6, <5>1 DEF Build
      <4>2. CASE obj[1] # f
        BY <2>6, <3>1, <4>2 DEF Build, Outcome, Resolved
      <4> QED BY <4>1, <4>2
    <3> QED BY <2>1, <2>6, <3>1, <3>2, <3>3 DEF Build, Outcome, Reported, Resolved
  <2> QED BY <2>3, <2>4, <2>5, <2>6 DEF Next
<1> QED BY <1>1, <1>2, TypedInvariant, PTL DEF Spec

-----------------------------------------------------------------------------
(* What the inductive invariant says once nobody is queued.                *)
Inv == Typed /\ NoStaleCaller /\ Facts /\ Outcome

LEMMA Invariant == Spec => []Inv
BY TypedInvariant, NeverStale, FactsInvariant, OutcomeInvariant, PTL DEF Inv

(* When nobody is queued, whatever hands an obligation out has a site.     *)
LEMMA HandedOutIsKnown ==
  ASSUME Inv, queued = {}, NEW obj \in Obligations, NEW f \in Funcs \cup Imported, HandsOut(f, obj)
  PROVE  \E s \in SitesOf(f) : s.obj = obj
<1> DEFINE S == {g \in Funcs \cup Imported : \E s \in SitesOf(g) : s.obj = obj}
<1>1. obj[1] \in S
  <2>1. CASE \E g \in Funcs : obj = <<g, 1>> /\ Creates(g)
    <3>1. PICK g \in Funcs : obj = <<g, 1>> /\ Creates(g)
      BY <2>1
    <3>2. PICK y \in program.makes[g] : TRUE
      BY <3>1 DEF Creates
    <3>3. [obj |-> <<g, 1>>, fn |-> g, field |-> y] \in SitesOf(g)
      BY ProgramsAssumption DEF Inv, Facts, Rooted, SitesOf
    <3> QED BY <3>1, <3>3
  <2>2. CASE \E x \in Imported : \E t \in program.facts[x] : obj = <<x, t.id>>
    <3>1. PICK x \in Imported : \E t \in program.facts[x] : obj = <<x, t.id>>
      BY <2>2
    <3>2. PICK t \in program.facts[x] : obj = <<x, t.id>>
      BY <3>1
    <3>3. [obj |-> <<x, t.id>>, fn |-> x, field |-> t.field] \in SitesOf(x)
      BY DEF SitesOf, FactSites
    <3> QED BY <3>2, <3>3
  <2> QED BY <2>1, <2>2 DEF Obligations
<1>2. ASSUME NEW call \in Calls, Callee(call) \in S, Forwards(call, obj)
      PROVE  call.in \in S
  <2>1. PICK s \in SitesOf(Callee(call)) : s.obj = obj
    BY <1>2
  <2>2. s.field \in FieldsOf(obj)
    BY <1>2, <2>1, SitesAreLocated DEF Inv, Facts
  <2>3. PassesOn(call, s.field)
    BY <1>2, <2>2, ForwardingIsPassing
  <2>4. call.in \in Funcs /\ call \in CallsIn(call.in)
    BY CallShape DEF Inv
  <2>5. [obj |-> obj, fn |-> call.in, field |-> s.field] \in NewSites(call.in)
    BY <2>1, <2>3, <2>4, NewSitesElement
  <2>6. [obj |-> obj, fn |-> call.in, field |-> s.field] \in sites
    BY <2>4, <2>5 DEF Inv, NoStaleCaller
  <2> QED BY <2>4, <2>6, ProgramsAssumption DEF SitesOf
<1>3. S \in SUBSET (Funcs \cup Imported)
  OBVIOUS
<1>4. f \in S
  <2> HIDE DEF S
  <2> QED BY <1>1, <1>2, <1>3 DEF HandsOut
<1> QED BY <1>4

(* The invariant NoLeakIsMissed that the run checks.                       *)
THEOREM NoLeakMissed == Spec => []NoLeakIsMissed
<1>1. Inv => NoLeakIsMissed
  <2> SUFFICES ASSUME Inv, Complete, NEW call \in Calls, NEW obj \in Obligations,
                      ~Bare(call), Followed(call), Owed(obj), HandsOut(Callee(call), obj),
                      Leaks(call, obj)
               PROVE  [obj |-> obj, call |-> call] \in findings
    BY DEF NoLeakIsMissed
  <2>1. queued = {}
    BY DEF Inv, Outcome, Settled, Complete
  <2>2. call.in \in Funcs /\ call \in CallsIn(call.in) /\ Callee(call) \in Funcs \cup Imported
    BY CallShape DEF Inv
  <2>3. PICK s \in SitesOf(Callee(call)) : s.obj = obj
    BY <2>1, <2>2, HandedOutIsKnown
  <2>4. \E v \in verdicts : v.obj = obj /\ v.call = call
    <3> DEFINE v == [obj |-> s.obj, call |-> call, field |-> s.field, is |-> Verdict(call, s.field)]
    <3>1. v \in NewVerdicts(call.in)
      BY <2>2, NewVerdictsElement
    <3>2. v \in verdicts
      BY <2>1, <2>2, <3>1 DEF Inv, NoStaleCaller
    <3> QED BY <2>3, <3>2
  <2>5. ASSUME NEW v \in verdicts, v.obj = obj, v.call = call
        PROVE  v.is \notin {"all", "unverified"}
    <3>1. v \in NewVerdicts(call.in)
      BY <2>5 DEF Inv, Facts, Founded
    <3>2. PICK t \in SitesOf(Callee(call)) :
            v = [obj |-> t.obj, call |-> call, field |-> t.field, is |-> Verdict(call, t.field)]
      BY <2>5, <3>1, NewVerdictsElement
    <3>3. t.obj = obj /\ v.is = Verdict(call, t.field)
      BY <2>5, <3>2
    <3>4. t.field \in FieldsOf(obj)
      BY <2>2, <3>3, SitesAreLocated DEF Inv, Facts
    <3>5. \E p \in call.at.paths : t.field \notin p
      BY <3>4 DEF Leaks
    <3> QED BY <3>3, <3>5 DEF Followed, Verdict
  <2>6. [obj |-> obj, call |-> call] \in Findings(obj)
    BY <2>4, <2>5, FindingsElement
  <2>7. obj[1] \in Imported \cup built
    BY FieldsAreFields DEF Inv, Complete
  <2> QED BY <2>6, <2>7 DEF Inv, Outcome, Resolved, Complete
<1> QED BY <1>1, Invariant, PTL

(* The invariant AlarmsAreReal that the run checks.                        *)
THEOREM AlarmsReal == Spec => []AlarmsAreReal
<1>1. Inv => AlarmsAreReal
  <2> SUFFICES ASSUME Inv, Separate, NEW r \in findings
               PROVE  HandsOut(Callee(r.call), r.obj) /\ (OneUse(r.call) => Leaks(r.call, r.obj))
    BY DEF AlarmsAreReal
  <2>1. queued = {} /\ r \in Findings(r.obj)
    BY DEF Inv, Outcome, Settled, Reported
  <2>2. PICK v \in verdicts : v.obj = r.obj /\ v.call = r.call
    BY <2>1, FindingsElement
  <2>3. \A w \in verdicts : w.obj = r.obj /\ w.call = r.call => w.is \notin {"all", "unverified"}
    BY <2>1, FindingsElement
  <2>4. r.call \in Calls /\ r.obj \in Obligations
    BY DEF Inv, Typed, TypeOK
  <2>5. /\ r.call.in \in Funcs /\ r.call \in CallsIn(r.call.in)
        /\ Callee(r.call) \in Funcs \cup Imported
        /\ ~Bare(r.call) => r.call.at.paths # {}
    BY <2>4, CallShape DEF Inv
  <2>6. v \in NewVerdicts(r.call.in)
    BY <2>2 DEF Inv, Facts, Founded
  <2>7. ~Bare(r.call)
    BY <2>2, <2>6, NewVerdictsElement
  <2>8. PICK s \in SitesOf(Callee(r.call)) :
          v = [obj |-> s.obj, call |-> r.call, field |-> s.field, is |-> Verdict(r.call, s.field)]
    BY <2>2, <2>6, NewVerdictsElement
  <2>9. s.obj = r.obj
    BY <2>2, <2>8
  <2>10. /\ HandsOut(Callee(r.call), r.obj)
         /\ \A y \in FieldsOf(r.obj) : [obj |-> r.obj, fn |-> Callee(r.call), field |-> y]
                                         \in SitesOf(Callee(r.call))
    BY <2>5, <2>9, SitesOfCallees DEF Inv, Facts
  <2>11. \A y \in FieldsOf(r.obj) : Verdict(r.call, y) \notin {"all", "unverified"}
    <3> SUFFICES ASSUME NEW y \in FieldsOf(r.obj)
                 PROVE  Verdict(r.call, y) \notin {"all", "unverified"}
      OBVIOUS
    <3> DEFINE w == [obj |-> r.obj, call |-> r.call, field |-> y, is |-> Verdict(r.call, y)]
    <3>1. w \in NewVerdicts(r.call.in)
      BY <2>5, <2>7, <2>10, NewVerdictsElement
    <3>2. w \in verdicts
      BY <2>1, <2>5, <3>1 DEF Inv, NoStaleCaller
    <3> QED BY <2>3, <3>2
  <2>12. s.field \in FieldsOf(r.obj) /\ FieldsOf(r.obj) \subseteq Fields
    BY <2>4, <2>5, <2>9, SitesAreLocated, FieldsAreFields DEF Inv, Facts
  <2>13. ASSUME OneUse(r.call) PROVE Leaks(r.call, r.obj)
    <3>1. \A p \in r.call.at.paths : p \subseteq Uses(r.call)
      BY DEF Uses
    <3>2. CASE Uses(r.call) \cap (FieldsOf(r.obj) \cup {"return", "other"}) = {}
      BY <2>5, <2>7, <3>1, <3>2 DEF Leaks
    <3>3. CASE Uses(r.call) \cap {"return", "other"} # {}
      <4>1. s.field \notin Uses(r.call)
        BY <2>12, <2>13, <3>3, ProgramsAssumption DEF OneUse
      <4>2. Verdict(r.call, s.field) = "unverified"
        BY <3>3, <4>1 DEF Verdict
      <4> QED BY <2>11, <2>12, <4>2
    <3>4. CASE Uses(r.call) \cap FieldsOf(r.obj) # {}
      <4>1. PICK y \in FieldsOf(r.obj) : y \in Uses(r.call)
        BY <3>4
      <4>2. PICK p \in r.call.at.paths : y \notin p
        BY <2>11, <4>1 DEF Verdict
      <4>3. p = {}
        BY <2>13, <3>1, <4>1, <4>2 DEF OneUse
      <4> QED BY <4>3 DEF Leaks
    <3> QED BY <3>2, <3>3, <3>4
  <2> QED BY <2>10, <2>13
<1> QED BY <1>1, Invariant, PTL

(* The invariant ExportIsExact that the run checks.                        *)
THEOREM ExportExact == Spec => []ExportIsExact
<1>1. Inv => ExportIsExact
  <2> SUFFICES ASSUME Inv, Complete, Separate, NEW f \in Funcs
               PROVE  {s.obj : s \in Exported(f)} = {obj \in Obligations : HandsOut(f, obj)}
    BY DEF ExportIsExact
  <2>1. \A obj : obj \in {s.obj : s \in Exported(f)} <=> \E s \in sites : s.fn = f /\ s.obj = obj
    <3>1. \A s \in sites : s.fn = f => [obj |-> s.obj, field |-> s.field, owed |-> Owed(s.obj)] \in Exported(f)
      BY DEF Exported
    <3>2. \A e \in Exported(f) : \E s \in sites : s.fn = f /\ e.obj = s.obj
      BY DEF Exported
    <3>3. \A s \in sites : s.fn = f => \E e \in Exported(f) : e.obj = s.obj
      <4> SUFFICES ASSUME NEW s \in sites, s.fn = f PROVE \E e \in Exported(f) : e.obj = s.obj
        OBVIOUS
      <4>1. [obj |-> s.obj, field |-> s.field, owed |-> Owed(s.obj)] \in Exported(f)
        BY <3>1
      <4> WITNESS [obj |-> s.obj, field |-> s.field, owed |-> Owed(s.obj)] \in Exported(f)
      <4> QED OBVIOUS
    <3> QED BY <3>2, <3>3
  <2>2. \A s \in sites : s.fn = f => s.obj \in Obligations /\ HandsOut(f, s.obj)
    BY DEF Inv, Typed, TypeOK, Facts, HandedOut
  <2>3. queued = {} /\ f \notin Imported
    BY ProgramsAssumption DEF Inv, Outcome, Settled, Complete
  <2>4. \A obj \in Obligations : HandsOut(f, obj) => \E s \in sites : s.fn = f /\ s.obj = obj
    BY <2>3, HandedOutIsKnown DEF SitesOf
  <2> QED BY <2>1, <2>2, <2>4
<1> QED BY <1>1, Invariant, PTL
=============================================================================
