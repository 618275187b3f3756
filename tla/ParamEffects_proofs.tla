------------------------- MODULE ParamEffects_proofs -------------------------
(***************************************************************************)
(* Proofs about the parameter effects, for every set of functions and      *)
(* every program: the worklist never leaves a stale summary behind, and no *)
(* summary invents a cancellation.                                         *)
(***************************************************************************)
EXTENDS ParamEffects, FiniteSetTheorems, WellFoundedInduction, TLAPS

Shape == /\ program \in Programs
         /\ effects \in [Funcs -> SUBSET Bits]
         /\ known \subseteq program.selected
         /\ queued \subseteq program.selected
         /\ \A f \in Funcs \ known : effects[f] = {}

(* What an entry of Programs is.                                           *)
LEMMA ProgramShape ==
  ASSUME Shape
  PROVE  /\ program.body \in [Funcs -> SUBSET (SUBSET Event)]
         /\ program.selected \subseteq Funcs
         /\ DOMAIN program = {"body", "selected"}
  BY ProgramsAssumption DEF Shape

(* An evaluation yields effects.                                           *)
LEMMA EffectsAreBits ==
  ASSUME NEW f PROVE ParamEffectOf(f) \subseteq Bits
  BY DEF ParamEffectOf, Bits

(* The event of a call names a function.                                   *)
LEMMA CalleesAreFuncs ==
  ASSUME Shape, NEW f \in Funcs, NEW e \in Events(f), e.op \in {"pass", "invoke"}
  PROVE  e.to \in Callees(f) /\ e.to \in Funcs
<1>1. e \in CallEvents(f)  BY DEF CallEvents
<1>2. e \in Event
  <2>1. PICK p \in program.body[f] : e \in p  BY DEF Events
  <2>2. p \in SUBSET Event  BY ProgramShape
  <2> QED BY <2>1, <2>2
<1>3. e \in Calls  BY <1>2 DEF Event
<1> QED BY <1>1, <1>3 DEF Callees, Calls

(* The state keeps its shape.                                              *)
LEMMA ShapeInvariant == Spec => []Shape
<1>1. Init => Shape
  BY ProgramsAssumption DEF Init, Shape, Bits
<1>2. Shape /\ [Next]_vars => Shape'
  <2> SUFFICES ASSUME Shape, [Next]_vars PROVE Shape'
    OBVIOUS
  <2>1. CASE UNCHANGED vars
    BY <2>1 DEF Shape, vars
  <2>2. ASSUME NEW f \in Funcs, Evaluate(f) PROVE Shape'
    <3>1. program' = program /\ f \in program.selected
      BY <2>2 DEF Evaluate, Shape
    <3>2. effects' \in [Funcs -> SUBSET Bits]
      BY <2>2, EffectsAreBits DEF Evaluate, Shape
    <3>3. known' \subseteq program.selected /\ queued' \subseteq program.selected
      BY <2>2, <3>1 DEF Evaluate, Shape, Reverse
    <3>4. \A g \in Funcs \ known' : effects'[g] = {}
      BY <2>2 DEF Evaluate, Shape
    <3> QED BY <3>1, <3>2, <3>3, <3>4 DEF Shape
  <2> QED BY <2>1, <2>2 DEF Next
<1> QED BY <1>1, <1>2, PTL DEF Spec

(* The invariant TypeOK that the run checks.                               *)
THEOREM TypeCorrect == Spec => []TypeOK
<1>1. Shape => TypeOK  BY ProgramShape DEF Shape, TypeOK
<1> QED BY <1>1, ShapeInvariant, PTL

-----------------------------------------------------------------------------
(* An evaluation reads nothing but the summaries of the functions called:  *)
(* it says the same in two states that agree on those.                     *)
LEMMA ReadsItsCalleesOnly ==
  ASSUME Shape, program' = program, NEW f \in Funcs,
         \A g \in Callees(f) : effects'[g] = effects[g] /\ (g \in known' <=> g \in known)
  PROVE  ParamEffectOf(f)' = ParamEffectOf(f)
<1>1. Events(f)' = Events(f)  BY DEF Events
<1>2. \A e \in Events(f) : e.op \in {"pass", "invoke"} =>
        effects'[e.to] = effects[e.to] /\ (e.to \in known' <=> e.to \in known)
  BY CalleesAreFuncs
<1>3. Discharges(f)' = Discharges(f)
  BY <1>1, <1>2 DEF Discharges, Outcome, Hands
<1>4. MayCalls(f)' = MayCalls(f)
  BY <1>1, <1>2 DEF MayCalls, Outcome, Hands
<1>5. Escapes(f)' = Escapes(f)
  BY <1>1, <1>2 DEF Escapes, Hands
<1>6. Returned(f)' = Returned(f)
  BY <1>1 DEF Returned
<1>7. RecursivePasses(f)' = RecursivePasses(f)
  BY <1>1 DEF RecursivePasses, Reaches, Callees, CallEvents, Events
<1> QED BY <1>3, <1>4, <1>5, <1>6, <1>7 DEF ParamEffectOf

(* An evaluation that changes nothing leaves what every other would say.   *)
LEMMA QuietEvaluation ==
  ASSUME Shape, NEW f \in Funcs, Evaluate(f), ~Changed(f)
  PROVE  effects' = effects /\ known' = known
<1>1. known' = known  BY DEF Evaluate, Changed
<1>2. effects' = [effects EXCEPT ![f] = effects[f] \cup ParamEffectOf(f)]
  BY DEF Evaluate
<1>3. effects[f] \cup ParamEffectOf(f) = effects[f]  BY DEF Changed
<1> QED BY <1>1, <1>2, <1>3 DEF Shape

(* The reverse dependencies suffice: whatever the evaluation of f may have *)
(* made stale is queued again.                                             *)
LEMMA NoStaleStep ==
  ASSUME Shape, NoStaleSummary, NEW f \in Funcs, Evaluate(f)
  PROVE  NoStaleSummary'
<1> SUFFICES ASSUME NEW g \in program.selected, g \notin queued'
             PROVE  g \in known' /\ ParamEffectOf(g)' \subseteq effects'[g]
  BY DEF NoStaleSummary, Evaluate
<1>1. program' = program /\ g \in Funcs
  BY ProgramShape DEF Evaluate
<1>2. CASE Changed(f)
  <2>1. f \notin Callees(g)  BY <1>2 DEF Evaluate, Reverse
  <2>2. ParamEffectOf(g)' = ParamEffectOf(g)
    <3>1. \A x \in Callees(g) : effects'[x] = effects[x] /\ (x \in known' <=> x \in known)
      <4> SUFFICES ASSUME NEW x \in Callees(g)
                   PROVE  effects'[x] = effects[x] /\ (x \in known' <=> x \in known)
        OBVIOUS
      <4>1. x # f /\ x \in Funcs
        BY <1>1, <2>1, CalleesAreFuncs DEF Callees, CallEvents
      <4> QED BY <4>1 DEF Evaluate, Shape
    <3> QED BY <1>1, <3>1, ReadsItsCalleesOnly
  <2>3. CASE g = f
    BY <2>2, <2>3, <1>1 DEF Evaluate, Shape
  <2>4. CASE g # f
    <3>1. g \notin queued  BY <2>4 DEF Evaluate
    <3>2. g \in known /\ ParamEffectOf(g) \subseteq effects[g]
      BY <3>1 DEF NoStaleSummary
    <3>3. effects'[g] = effects[g] /\ g \in known'
      BY <2>4, <3>2, <1>1 DEF Evaluate, Shape
    <3> QED BY <2>2, <3>2, <3>3
  <2> QED BY <2>3, <2>4
<1>3. CASE ~Changed(f)
  <2>1. effects' = effects /\ known' = known  BY <1>3, QuietEvaluation
  <2>2. ParamEffectOf(g)' = ParamEffectOf(g)
    BY <1>1, <2>1, ReadsItsCalleesOnly
  <2>3. g \in known /\ ParamEffectOf(g) \subseteq effects[g]
    <3>1. CASE g = f  BY <3>1, <1>3 DEF Changed
    <3>2. CASE g # f  BY <3>2 DEF Evaluate, NoStaleSummary
    <3> QED BY <3>1, <3>2
  <2> QED BY <2>1, <2>2, <2>3
<1> QED BY <1>2, <1>3

(* No summary is ever stale, whatever the program and the order.           *)
THEOREM NeverStale == Spec => []NoStaleSummary
<1>1. Init => NoStaleSummary  BY DEF Init, NoStaleSummary
<1>2. Shape /\ NoStaleSummary /\ [Next]_vars => NoStaleSummary'
  <2> SUFFICES ASSUME Shape, NoStaleSummary, [Next]_vars PROVE NoStaleSummary'
    OBVIOUS
  <2>1. CASE UNCHANGED vars
    <3>1. \A f \in Funcs : ParamEffectOf(f)' = ParamEffectOf(f)
      BY <2>1, ReadsItsCalleesOnly DEF vars
    <3> QED BY <2>1, <3>1, ProgramShape DEF vars, NoStaleSummary
  <2>2. CASE Next
    BY <2>2, NoStaleStep DEF Next
  <2> QED BY <2>1, <2>2
<1> QED BY <1>1, <1>2, ShapeInvariant, PTL DEF Spec

-----------------------------------------------------------------------------
(* What is recorded as a cancellation has one behind it: along the calls   *)
(* below the function there is a call of the value.                        *)
Grounded == \A f \in Funcs : effects[f] \cap {"may", "must"} # {} => MayCancel(f)

(* A function that calls one which may cancel may cancel.                  *)
LEMMA CancelFollowsCalls ==
  ASSUME NEW f \in Funcs, NEW g \in Callees(f), MayCancel(g)
  PROVE  MayCancel(f)
<1> SUFFICES ASSUME NEW S \in SUBSET Funcs, CancelClosed(S) PROVE f \in S
  BY DEF MayCancel, Least
<1>1. g \in S  BY DEF MayCancel, Least
<1> QED BY <1>1 DEF CancelClosed

(* So may one that calls the value itself.                                 *)
LEMMA CancelIsACall ==
  ASSUME NEW f \in Funcs, NEW e \in Events(f), e.op = "cancel"
  PROVE  MayCancel(f)
BY DEF MayCancel, Least, CancelClosed

(* An evaluation says no more than that of a grounded state.               *)
LEMMA EvaluationIsGrounded ==
  ASSUME Shape, Grounded, NEW f \in Funcs, ParamEffectOf(f) \cap {"may", "must"} # {}
  PROVE  MayCancel(f)
<1>1. PICK e \in Discharges(f) \cup MayCalls(f) : TRUE
  BY DEF ParamEffectOf
<1>2. e \in Events(f)  BY <1>1 DEF Discharges, MayCalls
<1>3. CASE e.op = "cancel"
  BY <1>2, <1>3, CancelIsACall
<1>4. CASE e.op # "cancel"
  <2>1. e.op \in {"pass", "invoke"} /\ effects[e.to] \cap {"may", "must"} # {}
    BY <1>1, <1>4 DEF Discharges, MayCalls, Outcome
  <2>2. e.to \in Callees(f) /\ e.to \in Funcs
    BY <1>2, <2>1, CalleesAreFuncs
  <2>3. MayCancel(e.to)
    BY <2>1, <2>2 DEF Grounded
  <2> QED BY <2>2, <2>3, CancelFollowsCalls
<1> QED BY <1>3, <1>4

(* No summary claims a cancellation that nothing below the function does.  *)
THEOREM NothingInvented == Spec => []Grounded
<1>1. Init => Grounded  BY DEF Init, Grounded
<1>2. Shape /\ Grounded /\ [Next]_vars => Grounded'
  <2> SUFFICES ASSUME Shape, Grounded, [Next]_vars,
                      NEW g \in Funcs, effects'[g] \cap {"may", "must"} # {}
               PROVE  MayCancel(g)'
    BY DEF Grounded
  <2>1. program' = program
    BY DEF vars, Next, Evaluate
  <2>2. MayCancel(g)' = MayCancel(g)
    BY <2>1 DEF MayCancel, Least, CancelClosed, Callees, CallEvents, Events
  <2>3. MayCancel(g)
    <3>1. CASE effects'[g] = effects[g]
      BY <3>1 DEF Grounded
    <3>2. CASE effects'[g] # effects[g]
      <4>1. PICK f \in Funcs : Evaluate(f)
        BY <3>2 DEF Next, vars
      <4>2. g = f /\ effects'[g] = effects[g] \cup ParamEffectOf(g)
        BY <3>2, <4>1 DEF Evaluate, Shape
      <4>3. CASE effects[g] \cap {"may", "must"} # {}
        BY <4>3 DEF Grounded
      <4>4. CASE ParamEffectOf(g) \cap {"may", "must"} # {}
        BY <4>4, EvaluationIsGrounded
      <4> QED BY <4>2, <4>3, <4>4
    <3> QED BY <3>1, <3>2
  <2> QED BY <2>2, <2>3
<1> QED BY <1>1, <1>2, ShapeInvariant, PTL DEF Spec

-----------------------------------------------------------------------------
(* What is below a function.                                               *)

LEMMA BelowHas ==
  ASSUME Shape, NEW f \in Funcs
  PROVE  f \in Below(f) /\ Callees(f) \subseteq Below(f)
<1>1. Callees(f) \subseteq Funcs
  BY CalleesAreFuncs DEF Callees, CallEvents
<1> QED BY <1>1 DEF Below, Reaches

LEMMA BelowShrinks ==
  ASSUME Shape, NEW f \in Funcs, NEW g \in Below(f)
  PROVE  Below(g) \subseteq Below(f)
BY DEF Below, Reaches

(* Who calls one that may hand the value on may hand it on.                *)
LEMMA HandFollowsCalls ==
  ASSUME NEW f \in Funcs, NEW g \in Callees(f), MayHand(g)
  PROVE  MayHand(f)
<1> SUFFICES ASSUME NEW S \in SUBSET Funcs, HandClosed(S) PROVE f \in S
  BY DEF MayHand, Least
<1>1. g \in S  BY DEF MayHand, Least
<1> QED BY <1>1 DEF HandClosed

LEMMA HandIsAnEvent ==
  ASSUME NEW f \in Funcs, NEW e \in Events(f), e.op \in {"store", "return"}
  PROVE  MayHand(f)
BY DEF MayHand, Least, HandClosed

LEMMA HandComesUp ==
  ASSUME Shape, NEW f \in Funcs, NEW g \in Below(f), MayHand(g)
  PROVE  MayHand(f)
<1> SUFFICES ASSUME ~MayHand(f) PROVE FALSE
  OBVIOUS
<1> DEFINE S == {x \in Funcs : ~MayHand(x)}
<1>1. f \in S /\ S \in SUBSET Funcs
  OBVIOUS
<1>2. \A x \in S : Callees(x) \subseteq S
  <2> SUFFICES ASSUME NEW x \in S, NEW c \in Callees(x) PROVE c \in S
    OBVIOUS
  <2>1. x \in Funcs /\ c \in Funcs
    BY CalleesAreFuncs DEF Callees, CallEvents
  <2> QED BY <2>1, HandFollowsCalls
<1> HIDE DEF S
<1>3. g \in S
  BY <1>1, <1>2 DEF Below, Reaches
<1> QED BY <1>3 DEF S

(* An event is a call, or is named by itself.                              *)
LEMMA EventKinds ==
  ASSUME Shape, NEW f \in Funcs, NEW e \in Events(f)
  PROVE  /\ e.op \in {"pass", "invoke", "cancel", "store", "return"}
         /\ e.op \in {"pass", "invoke"} => e.to \in Callees(f) /\ e.to \in Funcs /\ "to" \in DOMAIN e
<1>1. PICK p \in program.body[f] : e \in p
  BY DEF Events
<1>2. e \in Event
  BY <1>1, ProgramShape
<1>3. e.op \in {"pass", "invoke", "cancel", "store", "return"}
  BY <1>2 DEF Event, Calls
<1>4. e.op \in {"pass", "invoke"} => e \in Calls
  BY <1>2 DEF Event
<1>5. e \in Calls => "to" \in DOMAIN e
  BY DEF Calls
<1> QED BY <1>3, <1>4, <1>5, CalleesAreFuncs

-----------------------------------------------------------------------------
(* Nothing recorded is wrong: a value said to be handed on is, unless a    *)
(* literal widened it; and one said to be cancelled on every path is, if   *)
(* no recursion of several functions returns with nothing done.            *)
HandsSound == \A f \in Funcs : Hands(effects[f]) => MayHand(f) \/ Literals(f)
MustSound == \A f \in Funcs : "must" \in effects[f] /\ ~LeavesRecursion(f) => ~MayKeep(f)

LEMMA EvaluationHands ==
  ASSUME Shape, HandsSound, NEW f \in Funcs, Hands(ParamEffectOf(f))
  PROVE  MayHand(f) \/ Literals(f)
<1>1. Returned(f) \/ Escapes(f)
  BY DEF Hands, ParamEffectOf
<1>2. CASE Returned(f)
  BY <1>2, HandIsAnEvent DEF Returned
<1>3. CASE Escapes(f)
  <2>1. PICK e \in Events(f) : \/ e.op = "store"
                               \/ e.op = "pass" /\ e.to \in known /\ Hands(effects[e.to])
                               \/ e.op = "invoke"
    BY <1>3 DEF Escapes
  <2>2. CASE e.op = "store"
    BY <2>2, HandIsAnEvent
  <2>3. CASE e.op = "pass" /\ Hands(effects[e.to])
    <3>1. e.to \in Callees(f) /\ e.to \in Funcs
      BY <2>3, EventKinds
    <3>2. MayHand(e.to) \/ Literals(e.to)
      BY <2>3, <3>1 DEF HandsSound
    <3>3. Literals(e.to) => Literals(f)
      <4>1. Below(e.to) \subseteq Below(f)
        BY <3>1, BelowHas, BelowShrinks
      <4> QED BY <4>1 DEF Literals
    <3> QED BY <3>1, <3>2, <3>3, HandFollowsCalls
  <2>4. CASE e.op = "invoke"
    <3>1. f \in Below(f)
      BY BelowHas
    <3> QED BY <2>4, <3>1 DEF Literals
  <2> QED BY <2>1, <2>2, <2>3, <2>4
<1> QED BY <1>1, <1>2, <1>3

(* MayKeep is a least set: who has a path of calls that may keep, may.     *)
LEMMA KeepFollowsPath ==
  ASSUME NEW f \in Funcs, NEW p \in program.body[f], Untouched(p), \A e \in p : e.to \in Funcs /\ MayKeep(e.to)
  PROVE  MayKeep(f)
<1> SUFFICES ASSUME NEW S \in SUBSET Funcs, KeepClosed(S) PROVE f \in S
  BY DEF MayKeep, Least
<1>1. \A e \in p : e.to \in S
  BY DEF MayKeep, Least
<1> QED BY <1>1 DEF KeepClosed

LEMMA EvaluationMust ==
  ASSUME Shape, MustSound, NEW f \in Funcs, "must" \in ParamEffectOf(f), ~LeavesRecursion(f)
  PROVE  ~MayKeep(f)
<1> DEFINE S == {x \in Funcs : MayKeep(x)} \ {f}
<1>1. \A p \in program.body[f] : p \cap (Discharges(f) \cup RecursivePasses(f)) # {}
  BY DEF ParamEffectOf
<1>2. ASSUME NEW e \in Discharges(f) \cup RecursivePasses(f), e.op # "cancel"
      PROVE  e.to \notin S
  <2>1. e \in Events(f) /\ e.op \in {"pass", "invoke"}
    BY <1>2 DEF Discharges, RecursivePasses
  <2>2. e.to \in Callees(f) /\ e.to \in Funcs
    BY <2>1, EventKinds
  <2>3. e.to \in Below(f) /\ f \in Below(f) /\ Below(e.to) \subseteq Below(f)
    BY <2>2, BelowHas, BelowShrinks
  <2>4. CASE e \in Discharges(f)
    <3>1. "must" \in effects[e.to]
      BY <1>2, <2>4 DEF Discharges, Outcome
    <3>2. ~LeavesRecursion(e.to)
      BY <2>3 DEF LeavesRecursion
    <3> QED BY <2>2, <3>1, <3>2 DEF MustSound
  <2>5. CASE e \in RecursivePasses(f) /\ e.to # f
    <3>1. Reaches(e.to, f) /\ Reaches(f, e.to)
      BY <2>3, <2>5 DEF RecursivePasses, Below
    <3> QED BY <2>3, <2>5, <3>1 DEF LeavesRecursion
  <2> QED BY <1>2, <2>4, <2>5
<1>3. KeepClosed(S)
  <2> SUFFICES ASSUME NEW x \in Funcs, NEW p \in program.body[x], Untouched(p), \A e \in p : e.to \in S
               PROVE  x \in S
    BY DEF KeepClosed
  <2>1. MayKeep(x)
    BY KeepFollowsPath
  <2>2. x # f
    <3> SUFFICES ASSUME x = f PROVE FALSE
      OBVIOUS
    <3>1. PICK e \in p : e \in Discharges(f) \cup RecursivePasses(f)
      BY <1>1
    <3>2. e.op # "cancel"
      BY DEF Untouched
    <3> QED BY <1>2, <3>1, <3>2
  <2> QED BY <2>1, <2>2
<1>4. S \in SUBSET Funcs /\ f \notin S
  OBVIOUS
<1> HIDE DEF S
<1> QED BY <1>3, <1>4 DEF MayKeep, Least

(* What the functions are does not change.                                 *)
LEMMA ProgramStays ==
  ASSUME program' = program
  PROVE  /\ \A f : MayHand(f)' = MayHand(f)
         /\ \A f : MayKeep(f)' = MayKeep(f)
         /\ \A f : Literals(f)' = Literals(f)
         /\ \A f : LeavesRecursion(f)' = LeavesRecursion(f)
<1>1. \A f : Events(f)' = Events(f)
  BY DEF Events
<1>2. \A f : Callees(f)' = Callees(f)
  BY <1>1 DEF Callees, CallEvents
<1>3. \A g, f : Reaches(g, f)' = Reaches(g, f)
  BY <1>2 DEF Reaches
<1>4. \A f : Below(f)' = Below(f)
  BY <1>3 DEF Below
<1>5. \A f : MayHand(f)' = MayHand(f)
  BY <1>1, <1>2 DEF MayHand, Least, HandClosed
<1>6. \A f : MayKeep(f)' = MayKeep(f)
  BY DEF MayKeep, Least, KeepClosed
<1>7. \A f : Literals(f)' = Literals(f)
  BY <1>1, <1>4 DEF Literals
<1>8. \A f : LeavesRecursion(f)' = LeavesRecursion(f)
  BY <1>3, <1>4, <1>6 DEF LeavesRecursion
<1> QED BY <1>5, <1>6, <1>7, <1>8

LEMMA SoundInvariant == Spec => [](HandsSound /\ MustSound)
<1>1. Init => HandsSound /\ MustSound
  BY DEF Init, HandsSound, MustSound, Hands
<1>2. Shape /\ HandsSound /\ MustSound /\ [Next]_vars => (HandsSound /\ MustSound)'
  <2> SUFFICES ASSUME Shape, HandsSound, MustSound, [Next]_vars
               PROVE  HandsSound' /\ MustSound'
    OBVIOUS
  <2>1. program' = program
    BY DEF vars, Next, Evaluate
  <2>2. CASE UNCHANGED vars
    <3>1. effects' = effects
      BY <2>2 DEF vars
    <3>2. HandsSound'
      BY <2>1, <3>1, ProgramStays DEF HandsSound, Hands
    <3>3. MustSound'
      BY <2>1, <3>1, ProgramStays DEF MustSound
    <3> QED BY <3>2, <3>3
  <2>3. ASSUME NEW f \in Funcs, Evaluate(f) PROVE HandsSound' /\ MustSound'
    <3>1. \A g \in Funcs : effects'[g] = IF g = f THEN effects[f] \cup ParamEffectOf(f) ELSE effects[g]
      BY <2>3 DEF Evaluate, Shape
    <3>2. ASSUME NEW g \in Funcs PROVE Hands(effects'[g]) => MayHand(g) \/ Literals(g)
      <4>1. CASE Hands(effects[g])
        BY <4>1 DEF HandsSound
      <4>2. CASE g = f /\ Hands(ParamEffectOf(f))
        BY <4>2, EvaluationHands
      <4>3. Hands(effects'[g]) => Hands(effects[g]) \/ (g = f /\ Hands(ParamEffectOf(f)))
        BY <3>1 DEF Hands
      <4> QED BY <4>1, <4>2, <4>3
    <3>3. ASSUME NEW g \in Funcs, "must" \in effects'[g], ~LeavesRecursion(g) PROVE ~MayKeep(g)
      <4>1. CASE "must" \in effects[g]
        BY <3>3, <4>1 DEF MustSound
      <4>2. CASE g = f /\ "must" \in ParamEffectOf(f)
        BY <3>3, <4>2, EvaluationMust
      <4> QED BY <3>1, <3>3, <4>1, <4>2
    <3>4. HandsSound'
      BY <2>1, <3>2, ProgramStays DEF HandsSound, Hands
    <3>5. MustSound'
      BY <2>1, <3>3, ProgramStays DEF MustSound
    <3> QED BY <3>4, <3>5
  <2> QED BY <2>2, <2>3 DEF Next
<1> QED BY <1>1, <1>2, ShapeInvariant, PTL DEF Spec

-----------------------------------------------------------------------------
(* When the worklist is empty nothing is missing either: what an evaluation *)
(* would say of a function below f is recorded.                            *)
Done(f) == \A g \in Below(f) : g \in Funcs /\ g \in known /\ ParamEffectOf(g) \subseteq effects[g]

LEMMA EmptyIsDone ==
  ASSUME Shape, NoStaleSummary, queued = {}, NEW f \in Funcs, Admitted(f)
  PROVE  Done(f)
BY DEF Done, NoStaleSummary, Admitted, Below

LEMMA HandsComplete ==
  ASSUME Shape, NEW f \in Funcs, Done(f), MayHand(f)
  PROVE  Hands(effects[f])
<1> DEFINE S == {x \in Funcs : x \in Below(f) => Hands(effects[x])}
<1>1. HandClosed(S)
  <2> SUFFICES ASSUME NEW x \in Below(f), x \in Funcs,
                      (\E e \in Events(x) : e.op \in {"store", "return"}) \/ Callees(x) \cap S # {}
               PROVE  Hands(effects[x])
    BY DEF HandClosed
  <2>1. ParamEffectOf(x) \subseteq effects[x]
    BY DEF Done
  <2>2. Returned(x) \/ Escapes(x)
    <3>1. CASE \E e \in Events(x) : e.op \in {"store", "return"}
      BY <3>1 DEF Returned, Escapes
    <3>2. CASE Callees(x) \cap S # {}
      <4>1. PICK c \in Callees(x) : c \in S
        BY <3>2
      <4>2. PICK e \in Events(x) : e.op \in {"pass", "invoke"} /\ e.to = c
        BY <4>1 DEF Callees, CallEvents
      <4>3. c \in Below(f)
        BY <4>1, BelowHas, BelowShrinks
      <4>4. c \in known /\ Hands(effects[c])
        BY <4>1, <4>3 DEF Done
      <4> QED BY <4>2, <4>4 DEF Escapes
    <3> QED BY <3>1, <3>2
  <2> QED BY <2>1, <2>2 DEF ParamEffectOf, Hands
<1>2. f \in S
  <2>1. S \in SUBSET Funcs
    OBVIOUS
  <2> HIDE DEF S
  <2> QED BY <1>1, <2>1 DEF MayHand, Least
<1> QED BY <1>2, BelowHas

LEMMA CancelComplete ==
  ASSUME Shape, NEW f \in Funcs, Done(f), MayCancel(f)
  PROVE  Hands(effects[f]) \/ effects[f] \cap {"may", "must"} # {}
<1> DEFINE Says(x) == Hands(effects[x]) \/ effects[x] \cap {"may", "must"} # {}
           S == {x \in Funcs : x \in Below(f) => Says(x)}
<1>1. CancelClosed(S)
  <2> SUFFICES ASSUME NEW x \in Below(f), x \in Funcs,
                      (\E e \in Events(x) : e.op = "cancel") \/ Callees(x) \cap S # {}
               PROVE  Says(x)
    BY DEF CancelClosed
  <2>1. ParamEffectOf(x) \subseteq effects[x]
    BY DEF Done
  <2>2. Returned(x) \/ Escapes(x) \/ Discharges(x) \cup MayCalls(x) # {}
    <3>1. CASE \E e \in Events(x) : e.op = "cancel"
      BY <3>1 DEF Discharges
    <3>2. CASE Callees(x) \cap S # {}
      <4>1. PICK c \in Callees(x) : c \in S
        BY <3>2
      <4>2. PICK e \in Events(x) : e.op \in {"pass", "invoke"} /\ e.to = c
        BY <4>1 DEF Callees, CallEvents
      <4>3. c \in Below(f)
        BY <4>1, BelowHas, BelowShrinks
      <4>4. c \in known /\ Says(c)
        BY <4>1, <4>3 DEF Done
      <4>5. CASE Hands(effects[c])
        BY <4>2, <4>4, <4>5 DEF Escapes
      <4>6. CASE ~Hands(effects[c])
        BY <4>2, <4>4, <4>6 DEF Discharges, MayCalls, Outcome
      <4> QED BY <4>5, <4>6
    <3> QED BY <3>1, <3>2
  <2>3. Hands(ParamEffectOf(x)) \/ "may" \in ParamEffectOf(x)
    BY <2>2 DEF ParamEffectOf, Hands
  <2> QED BY <2>1, <2>3 DEF Hands
<1>2. f \in S
  <2>1. S \in SUBSET Funcs
    OBVIOUS
  <2> HIDE DEF S
  <2> QED BY <1>1, <2>1 DEF MayCancel, Least
<1> QED BY <1>2, BelowHas

(* Where nothing is handed on and there are no literals, an event is a call *)
(* of the value or passes it to a function that discharges it exactly if   *)
(* "must" is recorded of that function.                                    *)
LEMMA CalmEvents ==
  ASSUME Shape, HandsSound, NEW f \in Funcs, Done(f), ~MayHand(f), ~Literals(f),
         NEW g \in Below(f), NEW e \in Events(g)
  PROVE  \/ e.op = "cancel" /\ e \in Discharges(g)
         \/ /\ e.op = "pass" /\ e.to \in Below(g) /\ e.to \in Below(f) /\ e.to \in Funcs /\ "to" \in DOMAIN e
            /\ e \in Discharges(g) <=> "must" \in effects[e.to]
            /\ e \in RecursivePasses(g) <=> g \in Below(e.to)
<1>1. g \in Funcs
  BY DEF Below
<1>2. e.op \in {"pass", "cancel"}
  <2>1. ~MayHand(g)
    BY HandComesUp
  <2>2. e.op \notin {"store", "return"}
    BY <1>1, <2>1, HandIsAnEvent
  <2>3. e.op # "invoke"
    BY DEF Literals
  <2> QED BY <1>1, <2>2, <2>3, EventKinds
<1>3. CASE e.op = "cancel"
  BY <1>3 DEF Discharges
<1>4. CASE e.op = "pass"
  <2>1. e.to \in Callees(g) /\ e.to \in Funcs /\ "to" \in DOMAIN e
    BY <1>1, <1>4, EventKinds
  <2>2. e.to \in Below(g) /\ e.to \in Below(f)
    BY <1>1, <2>1, BelowHas, BelowShrinks
  <2>3. e.to \in known
    BY <2>2 DEF Done
  <2>4. ~Hands(effects[e.to])
    <3>1. ~MayHand(e.to)
      BY <2>2, HandComesUp
    <3>2. ~Literals(e.to)
      <4>1. Below(e.to) \subseteq Below(f)
        BY <2>2, BelowShrinks
      <4> QED BY <4>1 DEF Literals
    <3> QED BY <2>1, <3>1, <3>2 DEF HandsSound
  <2>5. e \in Discharges(g) <=> "must" \in effects[e.to]
    BY <1>4, <2>3, <2>4 DEF Discharges, Outcome
  <2>6. e \in RecursivePasses(g) <=> g \in Below(e.to)
    BY <1>1, <1>4 DEF RecursivePasses, Below
  <2> QED BY <1>4, <2>1, <2>2, <2>5, <2>6
<1> QED BY <1>2, <1>3, <1>4

(* Suppose a function below f can never keep the value and no "must" is    *)
(* recorded of it.  Take one with the least below it: whoever is like that *)
(* below it is in a recursion with it, and none of them discharges the     *)
(* value.  So each of their paths leads back to one of them, and they do   *)
(* not return at all.                                                      *)
LEMMA MustComplete ==
  ASSUME Shape, HandsSound, NEW f \in Funcs, Done(f), Bottoms(f), ~MayHand(f), ~Literals(f), ~MayKeep(f)
  PROVE  "must" \in effects[f]
<1> DEFINE N == {x \in Below(f) : "must" \notin effects[x] /\ ~MayKeep(x)}
<1> SUFFICES ASSUME "must" \notin effects[f] PROVE FALSE
  OBVIOUS
<1>1. f \in N /\ N \subseteq Below(f) /\ Below(f) \subseteq Funcs
  BY BelowHas DEF Below
<1>2. PICK x \in N : \A y \in N : ~(Below(y) \subseteq Below(x) /\ Below(y) # Below(x))
  <2> DEFINE Bs == {Below(y) : y \in N}
  <2>1. Bs \subseteq SUBSET Funcs /\ Bs # {}
    BY <1>1 DEF Below
  <2>2. IsWellFoundedOn(StrictSubsetOrdering(Funcs), SUBSET Funcs)
    BY FuncsAssumption, FS_StrictSubsetOrderingWellFounded, FS_FiniteSubsetsOfFinite
  <2> HIDE DEF Bs
  <2>3. PICK B \in Bs : \A A \in Bs : ~(<<A, B>> \in StrictSubsetOrdering(Funcs))
    BY <2>1, <2>2, WFMin
  <2>4. PICK x \in N : B = Below(x)
    BY <2>3 DEF Bs
  <2>5. ASSUME NEW y \in N, Below(y) \subseteq Below(x), Below(y) # Below(x) PROVE FALSE
    <3>1. Below(y) \in Bs
      BY DEF Bs
    <3> HIDE DEF N
    <3>2. <<Below(y), B>> \in StrictSubsetOrdering(Funcs)
      BY <2>1, <2>4, <2>5, <3>1, <2>3 DEF StrictSubsetOrdering
    <3> QED BY <2>3, <3>1, <3>2
  <2> QED BY <2>4, <2>5
<1> DEFINE M == N \cap Below(x)
<1>3. \A y \in M : y \in Funcs /\ y \in Below(f) /\ Below(y) = Below(x)
  BY <1>1, <1>2, BelowShrinks
<1>4. \A y \in N : "must" \notin effects[y] /\ ~MayKeep(y)
  OBVIOUS
<1>5. \A y \in Below(f) : "must" \notin effects[y] /\ ~MayKeep(y) => y \in N
  OBVIOUS
<1> HIDE DEF N
<1>6. ASSUME NEW y \in M PROVE Discharges(y) = {}
  <2> SUFFICES ASSUME Discharges(y) # {} PROVE FALSE
    OBVIOUS
  <2>1. "must" \notin ParamEffectOf(y)
    BY <1>3, <1>4 DEF Done
  <2>2. PICK p \in program.body[y] : p \cap (Discharges(y) \cup RecursivePasses(y)) = {}
    BY <2>1 DEF ParamEffectOf
  <2>3. \A e \in p : e \in Events(y) /\ e \notin Discharges(y) /\ e \notin RecursivePasses(y)
    BY <2>2 DEF Events
  <2>4. \A e \in p : e.op = "pass" /\ e.to \in Below(y) /\ e.to \in Below(f) /\ e.to \in Funcs
                     /\ "must" \notin effects[e.to] /\ y \notin Below(e.to)
    BY <1>3, <2>3, CalmEvents
  <2>5. Untouched(p)
    BY <2>4 DEF Untouched
  <2>6. PICK e \in p : ~MayKeep(e.to)
    BY <1>3, <1>4, <2>4, <2>5, KeepFollowsPath
  <2>7. e.to \in N
    BY <1>5, <2>4, <2>6
  <2>8. Below(e.to) \subseteq Below(x) /\ Below(e.to) # Below(x)
    BY <1>3, <2>4, BelowShrinks, BelowHas
  <2> QED BY <1>2, <2>7, <2>8
<1> DEFINE S == Funcs \ M
<1>7. ReturnClosed(S)
  <2> SUFFICES ASSUME NEW z \in M, NEW p \in program.body[z], \A e \in p : "to" \in DOMAIN e => e.to \in S
               PROVE  FALSE
    BY <1>3 DEF ReturnClosed
  <2>1. \A e \in p : e \in Events(z) /\ e \notin Discharges(z)
    BY <1>6 DEF Events
  <2>2. \A e \in p : e.op = "pass" /\ e.to \in Below(z) /\ e.to \in Below(f) /\ e.to \in Funcs
                     /\ "must" \notin effects[e.to] /\ "to" \in DOMAIN e
    BY <1>3, <2>1, CalmEvents
  <2>3. \A e \in p : MayKeep(e.to)
    BY <1>3, <1>5, <2>2
  <2>4. MayKeep(z)
    BY <1>3, <2>2, <2>3, KeepFollowsPath DEF Untouched
  <2> QED BY <1>4, <2>4
<1>8. Least(x, ReturnClosed)
  BY <1>1 DEF Bottoms
<1>9. S \in SUBSET Funcs
  OBVIOUS
<1>10. x \notin S
  BY <1>1, <1>2, BelowHas
<1> HIDE DEF S
<1> QED BY <1>7, <1>8, <1>9, <1>10 DEF Least

-----------------------------------------------------------------------------
(* When the worklist is empty, in whichever order, the summaries are what  *)
(* the functions do.                                                       *)
THEOREM SummariesCorrect == Spec => []SummariesExact
<1>1. ASSUME Shape, NoStaleSummary, Grounded, HandsSound, MustSound PROVE SummariesExact
  <2> SUFFICES ASSUME queued = {}, NEW f \in program.selected, Admitted(f), Bottoms(f), ~LeavesRecursion(f)
               PROVE  \/ Judged(f) = Actual(f)
                      \/ Literals(f) /\ (Judged(f) = "hands" \/ (Judged(f) = "may" /\ Actual(f) = "must"))
    BY DEF SummariesExact
  <2>1. f \in Funcs /\ f \in known
    BY <1>1, ProgramShape DEF NoStaleSummary
  <2>2. Done(f)
    BY <1>1, <2>1, EmptyIsDone
  <2>3. Judged(f) = Outcome(effects[f])
    BY <2>1 DEF Judged
  <2>4. MayHand(f) => Hands(effects[f])
    BY <1>1, <2>1, <2>2, HandsComplete
  <2>5. Hands(effects[f]) => MayHand(f) \/ Literals(f)
    BY <1>1, <2>1 DEF HandsSound
  <2>6. effects[f] \cap {"may", "must"} # {} => MayCancel(f)
    BY <1>1, <2>1 DEF Grounded
  <2>7. MayCancel(f) /\ ~Hands(effects[f]) => effects[f] \cap {"may", "must"} # {}
    BY <1>1, <2>1, <2>2, CancelComplete
  <2>8. "must" \in effects[f] => ~MayKeep(f)
    BY <1>1, <2>1 DEF MustSound
  <2>9. ~MayHand(f) /\ ~Literals(f) /\ ~MayKeep(f) => "must" \in effects[f]
    BY <1>1, <2>1, <2>2, MustComplete
  <2> QED BY <2>3, <2>4, <2>5, <2>6, <2>7, <2>8, <2>9 DEF Actual, Outcome
<1> QED BY <1>1, ShapeInvariant, NeverStale, NothingInvented, SoundInvariant, PTL
=============================================================================
