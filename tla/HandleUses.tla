------------------------------ MODULE HandleUses ------------------------------
(***************************************************************************)
(* What becomes of the cancel functions and groups a function keeps in the *)
(* fields of a struct: the field captures of internal/frontend/frontend.go *)
(* and the summaries of what other functions do with the struct.           *)
(*                                                                         *)
(* A self variable is the receiver or a parameter of a function of the     *)
(* package, and its uses are those in the function's body, in the order of *)
(* the source.  A use has an op:                                           *)
(*   "call"    v.f()                     "pass"  v.M() or g(v): the call   *)
(*   "wait"    v.f.Wait()                        makes v the variable "to" *)
(*   "start"   v.f.Add(), v.f.Go()       "lose"  any other use of v        *)
(*   "touch"   any other use of v.f                                        *)
(* and is async when a go statement makes the call.  The owner is the      *)
(* function that fills in the struct.  Its body is a list of such uses,    *)
(* which may also be "return" and "store", v.f = value; those with "if"    *)
(* set are in the branch of an if statement.                               *)
(***************************************************************************)
EXTENDS Integers, Sequences, FiniteSets, FiniteSetsExt

CONSTANTS Selves,            \* self variables
          Opaque,            \* stands for what the analysis cannot look into
          CancelFields,
          GroupFields,
          MaxReceiverDepth,
          Programs           \* a sequence of sets of programs, each
                             \* [uses: what is done with each self variable, owner: its uses]

Fields == CancelFields \cup GroupFields

Summary == [called: SUBSET Fields, waited: SUBSET Fields, touched: SUBSET Fields, escapes: BOOLEAN]

\* What can be done with a self variable; the owner may also store and return.
Ops == {"call", "wait", "start", "touch", "lose", "pass"}
UseOf(ops) == [op: ops, field: Fields, to: Selves \cup {Opaque},
               async: BOOLEAN, tracked: BOOLEAN, if: BOOLEAN]

ASSUME HandlesAssumption ==
  /\ Opaque \notin Selves
  /\ CancelFields \cap GroupFields = {}
  /\ MaxReceiverDepth \in Nat \ {0}

\* Only a group has a Wait.
ASSUME ProgramsAssumption ==
  \A i \in DOMAIN Programs : \A p \in Programs[i] :
    /\ p \in [uses: [Selves -> Seq(UseOf(Ops))], owner: Seq(UseOf(Ops \cup {"store", "return"}))]
    /\ \A v \in Selves : \A j \in DOMAIN p.uses[v] :
         p.uses[v][j].op = "wait" => p.uses[v][j].field \in GroupFields

VARIABLES program,
          memo,       \* receiverSummaries, a function on those that are known
          stack,      \* receiverStack, and the frames of walkReceiverUses
          at,         \* the use of the owner that is looked at
          credited,   \* captures marked consumed
          moved,      \* those of them whose call is made by a go statement
          otherUse,
          returned

vars == <<program, memo, stack, at, credited, moved, otherUse, returned>>

Nothing == [called |-> {}, waited |-> {}, touched |-> {}, escapes |-> FALSE]

Uses(self) == program.uses[self]
Body == program.owner

-----------------------------------------------------------------------------
(* collectFieldCaptures: which value a field holds from where to where, as *)
(* far as the text tells.  The owner starts with a literal that fills in   *)
(* every field; a value is the field and the use that stores it, 0 for the *)
(* literal.                                                                *)

StoresTo(f) == {i \in DOMAIN Body : Body[i].op = "store" /\ Body[i].field = f}

Until(f, from) == Min({i \in StoresTo(f) : i >= from} \cup {Len(Body) + 1})

\* A value of the literal, or another tracked value that is stored.
Captures ==
  {[field |-> f, value |-> 0, from |-> 1, until |-> Until(f, 1)] : f \in Fields}
    \cup {[field |-> Body[i].field, value |-> i, from |-> i + 1, until |-> Until(Body[i].field, i + 1)] :
            i \in {j \in DOMAIN Body : Body[j].op = "store" /\ Body[j].tracked}}

Of(f) == {c \in Captures : c.field = f}

-----------------------------------------------------------------------------
(* handleSummaryOf.  The bottom of the stack has index 1; low is the index *)
(* of the lowest frame that cut a cycle off, 0 for one that was too deep.  *)

NoReceiverCycle == MaxReceiverDepth + 1

Unresolved(low) == [ok |-> FALSE, sum |-> Nothing, low |-> low]
Resolved(sum, low) == [ok |-> TRUE, sum |-> sum, low |-> low]

Active(self) == {i \in DOMAIN stack : stack[i].self = self}

\* The answer for a variable that needs no walk, if there is one.
Answers(self) ==
  IF self = Opaque THEN {Unresolved(NoReceiverCycle)}
  ELSE IF self \in DOMAIN memo THEN {Resolved(memo[self], NoReceiverCycle)}
  ELSE IF Active(self) # {} THEN {Resolved(Nothing, i) : i \in Active(self)}
  ELSE IF Len(stack) >= MaxReceiverDepth THEN {Unresolved(0)}
  ELSE {}

\* Mutant of Merge: what a go statement calls is called before the function returns.
MergeAsCalled(s, t, async) ==
  [called  |-> s.called \cup t.called,
   waited  |-> s.waited \cup t.waited,
   touched |-> s.touched \cup t.touched,
   escapes |-> s.escapes \/ t.escapes]

\* mergeInvocation.
Merge(s, t, async) ==
  [called  |-> s.called \cup (IF async THEN {} ELSE t.called),
   waited  |-> s.waited \cup (IF async THEN {} ELSE t.waited),
   touched |-> s.touched \cup t.touched \cup (IF async THEN t.called ELSE {}),
   escapes |-> s.escapes \/ t.escapes]

\* classifyReceiverUse and classifyReceiverFieldUse, for a use that calls nothing else.
Classify(s, use) ==
  CASE use.op = "call" -> IF use.async THEN [s EXCEPT !.touched = @ \cup {use.field}]
                                       ELSE [s EXCEPT !.called = @ \cup {use.field}]
    [] use.op = "wait" -> IF use.async THEN s ELSE [s EXCEPT !.waited = @ \cup {use.field}]
    [] use.op = "start" -> s
    [] use.op = "touch" -> [s EXCEPT !.touched = @ \cup {use.field}]
    [] use.op = "lose" -> [s EXCEPT !.escapes = TRUE]

\* The frame takes in what a use does that calls nothing else.
TakeNote(frame) ==
  [frame EXCEPT !.next = @ + 1, !.sum = Classify(@, Uses(frame.self)[frame.next])]

\* The frame takes in the answer about the variable that it passes itself as.
TakeIn(frame, answer) ==
  LET use == Uses(frame.self)[frame.next]
  IN  [frame EXCEPT !.next = @ + 1,
                    !.low = Min({@, answer.low}),
                    !.sum = IF answer.ok THEN Merge(@, answer.sum, use.async)
                                         ELSE [@ EXCEPT !.escapes = TRUE]]

Index == 0 .. NoReceiverCycle

Frame(self) == [self |-> self, next |-> 1, sum |-> Nothing, low |-> NoReceiverCycle]

TypeOK == /\ \E i \in DOMAIN Programs : program \in Programs[i]
          /\ memo \in [DOMAIN memo -> Summary] /\ DOMAIN memo \subseteq Selves
          /\ stack \in Seq([self: Selves, next: Nat \ {0}, sum: Summary, low: Index])
          /\ Len(stack) <= MaxReceiverDepth
          /\ at \in 1 .. Len(Body) + 1
          /\ credited \subseteq Captures /\ moved \subseteq credited
          /\ otherUse \in BOOLEAN /\ returned \in BOOLEAN

-----------------------------------------------------------------------------
(* resolveFieldCaptures. *)

Init == /\ \E i \in DOMAIN Programs : program \in Programs[i]
        /\ memo = [v \in {} |-> Nothing]
        /\ stack = <<>>
        /\ at = 1
        /\ credited = {}
        /\ moved = {}
        /\ otherUse = FALSE
        /\ returned = FALSE

\* The value that a read of the field is taken to give.
Live(f) == {c \in Of(f) : c.from <= at /\ at < c.until}

\* Mutant of Consumed: to start a worker through the field settles the group.
ConsumedByStart(use) ==
  CASE use.op = "call" -> Live(use.field)
    [] use.op \in {"start", "wait"} -> IF use.async THEN {} ELSE Live(use.field)
    [] OTHER -> {}

\* markCancelFieldConsumed and markGroupFieldConsumed, for a use in the owner itself.
Consumed(use) ==
  CASE use.op = "call" -> Live(use.field)
    [] use.op = "wait" -> IF use.async THEN {} ELSE Live(use.field)
    [] OTHER -> {}

\* classifyFieldCaptureUse for a use that is not followed.
See ==
  /\ stack = <<>> /\ at <= Len(Body) /\ Body[at].op # "pass"
  /\ LET use == Body[at]
     IN  /\ credited' = credited \cup Consumed(use)
         /\ moved' = moved \cup (IF use.async THEN Consumed(use) ELSE {})
         /\ otherUse' = (otherUse \/ use.op = "lose" \/ (use.op = "touch" /\ Live(use.field) # {}))
         /\ returned' = (returned \/ use.op = "return")
  /\ at' = at + 1
  /\ UNCHANGED <<program, memo, stack>>

\* Mutant of CreditedBy: what a callee takes part in, it settles.
CreditedByTouch(sum, async) ==
  {c \in Captures : \/ c.field \in (CancelFields \cap (sum.called \cup sum.touched))
                    \/ ~async /\ c.field \in (GroupFields \cap sum.waited)}

\* The captures that a callee with this summary settles, of whatever time they are.
CreditedBy(sum, async) ==
  {c \in Captures : \/ c.field \in (CancelFields \cap sum.called)
                    \/ ~async /\ c.field \in (GroupFields \cap sum.waited)}

\* Mutant of Judge: a callee without an answer does nothing to the struct.
JudgeTrusting(answer) ==
  LET use == Body[at]
      settled == CreditedBy(answer.sum, use.async)
  IN  /\ credited' = credited \cup settled
      /\ moved' = moved \cup (IF use.async THEN settled ELSE {})
      /\ otherUse' = (\/ otherUse \/ answer.sum.escapes
                      \/ \E c \in Captures \ credited' : c.field \in answer.sum.touched)
      /\ at' = at + 1

\* followHandleMethod and followHandleArgument, when the answer is there.
Judge(answer) ==
  LET use == Body[at]
      settled == CreditedBy(answer.sum, use.async)
  IN  /\ credited' = credited \cup settled
      /\ moved' = moved \cup (IF use.async THEN settled ELSE {})
      /\ otherUse' = (\/ otherUse \/ ~answer.ok \/ answer.sum.escapes
                      \/ \E c \in Captures \ credited' : c.field \in answer.sum.touched)
      /\ at' = at + 1

Top == stack[Len(stack)]
TopUse == Uses(Top.self)[Top.next]
Walking == stack # <<>> /\ Top.next <= Len(Uses(Top.self))

\* A use in the body on top of the stack that calls nothing with the variable.
Record ==
  /\ Walking /\ TopUse.op # "pass"
  /\ stack' = [stack EXCEPT ![Len(stack)] = TakeNote(@)]
  /\ UNCHANGED <<program, memo, at, credited, moved, otherUse, returned>>

\* The variable that is passed to now, by the body on top of the stack or by the owner.
PassedTo == IF stack = <<>> THEN Body[at].to ELSE TopUse.to
Passing == IF stack = <<>> THEN at <= Len(Body) /\ Body[at].op = "pass"
                           ELSE Walking /\ TopUse.op = "pass"

Answer ==
  /\ Passing
  /\ \E answer \in Answers(PassedTo) :
       IF stack = <<>>
       THEN Judge(answer) /\ UNCHANGED stack
       ELSE /\ stack' = [stack EXCEPT ![Len(stack)] = TakeIn(@, answer)]
            /\ UNCHANGED <<at, credited, moved, otherUse>>
  /\ UNCHANGED <<program, memo, returned>>

Enter ==
  /\ Passing /\ Answers(PassedTo) = {}
  /\ stack' = Append(stack, Frame(PassedTo))
  /\ UNCHANGED <<program, memo, at, credited, moved, otherUse, returned>>

\* Mutant of Complete: a summary is kept although a cycle was cut off below it.
CompleteAlways(frame, index) == TRUE

\* The walk saw all that the variable reaches: what it cut off ends in the frame itself.
Complete(frame, index) == frame.low >= index

Keep(self, sum) == [v \in DOMAIN memo \cup {self} |-> IF v = self THEN sum ELSE memo[v]]

Leave ==
  /\ stack # <<>> /\ Top.next > Len(Uses(Top.self))
  /\ LET below == SubSeq(stack, 1, Len(stack) - 1)
         whole == Complete(Top, Len(stack))
         answer == Resolved(Top.sum, IF whole THEN NoReceiverCycle ELSE Top.low)
     IN  /\ memo' = IF whole THEN Keep(Top.self, Top.sum) ELSE memo
         /\ IF below = <<>>
            THEN Judge(answer) /\ stack' = below
            ELSE /\ stack' = [below EXCEPT ![Len(below)] = TakeIn(@, answer)]
                 /\ UNCHANGED <<at, credited, moved, otherUse>>
  /\ UNCHANGED <<program, returned>>

Done == at > Len(Body) /\ stack = <<>> /\ UNCHANGED vars

Next == See \/ Record \/ Answer \/ Enter \/ Leave \/ Done

Spec == Init /\ [][Next]_vars

\* A value of the literal that nothing was seen to settle.  What is stored by an
\* assignment escapes when it is stored (observeEscapeAssignment).
Reported == {c \in Captures : c.value = 0 /\ c \notin credited /\ ~otherUse /\ ~returned}

-----------------------------------------------------------------------------
(* What the calls can do, however deep they go. *)

Passes(v) == {Uses(v)[i] : i \in {j \in DOMAIN Uses(v) : Uses(v)[j].op = "pass"}}

\* Sets of variables that no call leads out of; at once, when a go statement leads out.
Closed == {S \in SUBSET Selves : \A v \in S : \A u \in Passes(v) : u.to \in S \cup {Opaque}}
ClosedAtOnce ==
  {S \in SUBSET Selves : \A v \in S : \A u \in Passes(v) : u.async \/ u.to \in S \cup {Opaque}}

\* The variables in every one of the sets around v.
Core(v, sets) == LET around == {S \in sets : v \in S \cup {Opaque}}
                 IN  {w \in Selves : \A S \in around : w \in S}

\* The variables that v becomes, itself among them; at once, when no go statement is between.
Reach(v) == Core(v, Closed)
ReachAtOnce(v) == Core(v, ClosedAtOnce)

UsesIn(vs) == UNION {{Uses(v)[i] : i \in DOMAIN Uses(v)} : v \in vs}
FieldsIn(vs, op, async) == {u.field : u \in {w \in UsesIn(vs) : w.op = op /\ w.async = async}}

CallsAtOnce(v) == FieldsIn(ReachAtOnce(v), "call", FALSE)
WaitsAtOnce(v) == FieldsIn(ReachAtOnce(v), "wait", FALSE)
CallsLater(v) ==
  FieldsIn(Reach(v), "call", TRUE) \cup UNION {FieldsIn(Reach(w), "call", FALSE) :
     w \in UNION {{u.to : u \in {p \in Passes(x) : p.async}} : x \in Reach(v)}}
Touches(v) == UNION {FieldsIn(Reach(v), "touch", b) : b \in BOOLEAN}
Loses(v) == \/ v = Opaque
            \/ \E u \in UsesIn(Reach(v)) : u.op = "lose" \/ (u.op = "pass" /\ u.to = Opaque)

-----------------------------------------------------------------------------
(* An execution of the owner takes the branch or does not. *)

Executed(taken) ==
  {p \in DOMAIN Body :
     /\ taken \/ ~Body[p].if
     /\ \A q \in 1 .. p - 1 : Body[q].op = "return" => Body[q].if /\ ~taken}

\* The value in the field before the use at p: 0 for the literal's, else the use that stored it.
Holds(taken, f, p) == Max({0} \cup {q \in StoresTo(f) : q < p /\ q \in Executed(taken)})

\* The use at p calls the value in f, or joins the group in it, or hands it to somebody.
MayDischarge(p, f) ==
  LET use == Body[p]
  IN  CASE use.op = "call" -> use.field = f
        [] use.op = "wait" -> use.field = f /\ ~use.async
        [] use.op = "touch" -> use.field = f
        [] use.op = "pass" ->
             \/ Loses(use.to)
             \/ f \in Touches(use.to)
             \/ f \in CancelFields \cap (CallsAtOnce(use.to) \cup CallsLater(use.to))
             \/ ~use.async /\ f \in WaitsAtOnce(use.to)
        [] OTHER -> use.op \in {"return", "lose"}

Discharged(p, f) ==
  LET use == Body[p]
  IN  CASE use.op = "call" -> use.field = f
        [] use.op = "wait" -> use.field = f /\ ~use.async
        [] use.op = "pass" -> \/ f \in CancelFields \cap CallsAtOnce(use.to)
                              \/ ~use.async /\ f \in WaitsAtOnce(use.to)
        [] OTHER -> FALSE

-----------------------------------------------------------------------------
(* Properties. *)

(* A summary that is kept says what the variable's function and all that   *)
(* it calls do, whatever recursion there is, whichever call asked first    *)
(* and however deep the stack was then (handleSummaryOf, 4308-4322).       *)
SummariesExact ==
  \A v \in DOMAIN memo :
    /\ memo[v].called = CallsAtOnce(v)
    /\ memo[v].waited = WaitsAtOnce(v)
    /\ memo[v].touched \cup memo[v].called = Touches(v) \cup CallsLater(v) \cup CallsAtOnce(v)
    /\ memo[v].escapes = Loses(v)

Straight == \A i \in DOMAIN Body : Body[i].op = "store" => ~Body[i].if

(* Where the fields are stored to on every path, a value of the literal    *)
(* that is reported as kept and never called or joined is one that no      *)
(* execution calls, joins or hands to anybody (captureFieldReassignment:   *)
(* "a genuine, positive-evidence leak").                                   *)
ReportsAreReal ==
  Straight /\ at > Len(Body) => \A c \in Reported, taken \in BOOLEAN :
    ~\E p \in Executed(taken) : Holds(taken, c.field, p) = c.value /\ MayDischarge(p, c.field)

DischargedInSomeRun(c) ==
  \E taken \in BOOLEAN : \E p \in Executed(taken) :
    Holds(taken, c.field, p) = c.value /\ Discharged(p, c.field)

NothingIsDead == \A p \in DOMAIN Body : \E taken \in BOOLEAN : p \in Executed(taken)

(* A value that stays in its field and is credited with its call or join   *)
(* has one, in some execution, unless the owner has dead code              *)
(* (receiverSummary: what the method calls is credited to the owner's      *)
(* call, what it only touches is not).                                     *)
CreditsAreReal ==
  NothingIsDead => \A c \in credited : c.value = 0 /\ c.until > Len(Body) => DischargedInSomeRun(c)

(* The same for a value that is overwritten: "if it was never called       *)
(* before being overwritten", it is a leak "not excused by whatever        *)
(* replaces it" (docs/limitations.md:28).                                  *)
OverwrittenIsNotExcused ==
  Straight /\ NothingIsDead => \A c \in credited : c.value = 0 /\ c.until <= Len(Body) => DischargedInSomeRun(c)
=============================================================================
