-------------------------- MODULE SignalSummaries --------------------------
(***************************************************************************)
(* What the helpers of a package do with a channel or a holder they are    *)
(* passed, as internal/frontend/frontend.go asks it when it relates a      *)
(* group's workers to their stop signals (LL1005):                         *)
(*                                                                         *)
(*   received  channelParamIsReceived: the helper ends when it is closed   *)
(*   closed    channelParamMustClose: every normal return has closed it    *)
(*   fields    contextFieldsUsedByParam: the context fields it reads       *)
(*                                                                         *)
(* Each is a depth first search through the calls that pass the parameter  *)
(* on, with a memo.  The functions of a package are analysed one after     *)
(* another and each asks what it needs, so the questions come in any       *)
(* order; helpers may call each other in cycles.                           *)
(***************************************************************************)
EXTENDS Integers, Sequences, FiniteSets

CONSTANTS Helpers,  \* functions with a visible body and one parameter
          Fields    \* context fields of what they are passed

VARIABLES helpers,  \* f -> [body, returns]
          memo,     \* the answers kept
          stack,    \* the searches under way, the innermost first
          told      \* the last question asked from outside with its answer, if any

summaryVars == <<helpers, memo, stack, told>>

Kinds == {"received", "closed", "fields"}
Questions == [kind : Kinds, of : Helpers]

\* What a body does with its parameter, in the order of the source: uses it
\* directly (a receive that ends it, a close, a field read) or passes it on.
Items == [t : {"direct"}, field : Fields] \cup [t : {"call"}, to : Helpers]

Body(f) == helpers[f].body

\* The normal returns of f, each as the items it has come past.
Returns(f) == helpers[f].returns

Unknown == [known |-> FALSE, says |-> {}]
Known(says) == [known |-> TRUE, says |-> says]

-----------------------------------------------------------------------------
\* The searches

Top == Head(stack)
OnStack(q) == \E i \in DOMAIN stack : stack[i].asks = q

Opened(q) == [asks |-> q, at |-> 1, got |-> {}, whole |-> TRUE]

\* A receive that is found ends the search; the others see the whole body.
Settled(frame) ==
  \/ frame.asks.kind = "received" /\ frame.got # {}
  \/ frame.at > Len(Body(frame.asks.of))

\* The item at which the innermost search stands, and what it asks of a callee.
Here == Body(Top.asks.of)[Top.at]
Passed(frame, item) == [kind |-> frame.asks.kind, of |-> item.to]

\* Mutant of Learn: only the last item found is remembered.
LearnLast(frame, says, whole) ==
  [frame EXCEPT !.at = @ + 1,
                !.whole = @ /\ whole,
                !.got = IF frame.asks.kind = "fields" THEN @ \cup says
                        ELSE IF says # {} THEN {frame.at} ELSE {}]

\* Fields are collected; receives and closes are the items that have them.
Learn(frame, says, whole) ==
  [frame EXCEPT !.at = @ + 1,
                !.whole = @ /\ whole,
                !.got = @ \cup (IF frame.asks.kind = "fields" THEN says
                                ELSE IF says # {} THEN {frame.at} ELSE {})]

\* Mutant of EveryReturn: a helper that closes on some path is taken for one that closes.
SomeReturn(f, closes) == Returns(f) = {} \/ \E r \in Returns(f) : r \cap closes # {}

EveryReturn(f, closes) == \A r \in Returns(f) : r \cap closes # {}

\* Fields are named by themselves, the other two answers are yes or no.
Outcome(frame) ==
  LET yes == CASE frame.asks.kind = "received" -> frame.got # {}
               [] frame.asks.kind = "closed" -> frame.got # {} /\ EveryReturn(frame.asks.of, frame.got)
               [] OTHER -> FALSE
  IN  IF frame.asks.kind = "fields" THEN frame.got ELSE IF yes THEN {"yes"} ELSE {}

\* Mutant of Keep: what a search found short of a cycle is kept as well.
KeepAll(frame) == TRUE

\* Receives and closes are kept always, fields only if no cycle was cut.
Keep(frame) == frame.asks.kind = "fields" => frame.whole

-----------------------------------------------------------------------------
\* Actions

\* Some function of the package asks.
Ask(q) ==
  /\ stack = <<>> /\ ~memo[q].known
  /\ stack' = <<Opened(q)>>
  /\ UNCHANGED <<helpers, memo, told>>

SearchDirect ==
  /\ stack # <<>> /\ ~Settled(Top) /\ Here.t = "direct"
  /\ stack' = <<Learn(Top, {Here.field}, TRUE)>> \o Tail(stack)
  /\ UNCHANGED <<helpers, memo, told>>

\* The callee has an answer, or is being searched: then it says nothing.
SearchAnswered ==
  /\ stack # <<>> /\ ~Settled(Top) /\ Here.t = "call"
  /\ LET q == Passed(Top, Here) IN
       \/ /\ memo[q].known
          /\ stack' = <<Learn(Top, memo[q].says, TRUE)>> \o Tail(stack)
       \/ /\ ~memo[q].known /\ OnStack(q)
          /\ stack' = <<Learn(Top, {}, FALSE)>> \o Tail(stack)
  /\ UNCHANGED <<helpers, memo, told>>

SearchDeeper ==
  /\ stack # <<>> /\ ~Settled(Top) /\ Here.t = "call"
  /\ LET q == Passed(Top, Here) IN
       /\ ~memo[q].known /\ ~OnStack(q)
       /\ stack' = <<Opened(q)>> \o stack
  /\ UNCHANGED <<helpers, memo, told>>

\* A search is over: its answer goes to the one that asked.
Answer ==
  /\ stack # <<>> /\ Settled(Top)
  /\ LET says == Outcome(Top) IN
       /\ memo' = IF Keep(Top) THEN [memo EXCEPT ![Top.asks] = Known(says)] ELSE memo
       /\ IF Len(stack) = 1
          THEN stack' = <<>> /\ told' = <<Top.asks, says>>
          ELSE /\ stack' = <<Learn(stack[2], says, Top.whole)>> \o Tail(Tail(stack))
               /\ UNCHANGED told
  /\ UNCHANGED helpers

Search == SearchDirect \/ SearchAnswered \/ SearchDeeper \/ Answer

SummaryInit ==
  /\ memo = [q \in Questions |-> Unknown]
  /\ stack = <<>>
  /\ told = <<>>

-----------------------------------------------------------------------------
\* What is true of the helpers: the least sets closed under what bodies do

Calls(f) == {Body(f)[i].to : i \in {j \in DOMAIN Body(f) : Body(f)[j].t = "call"}}
Direct(f) == {i \in DOMAIN Body(f) : Body(f)[i].t = "direct"}

ReceiveClosed(S) == \A f \in Helpers : Direct(f) # {} \/ Calls(f) \cap S # {} => f \in S
Receives(f) == \A S \in SUBSET Helpers : ReceiveClosed(S) => f \in S

Discharges(f, S) == Direct(f) \cup {i \in DOMAIN Body(f) : Body(f)[i].t = "call" /\ Body(f)[i].to \in S}
CloseClosed(S) ==
  \A f \in Helpers :
    Discharges(f, S) # {} /\ (\A r \in Returns(f) : r \cap Discharges(f, S) # {}) => f \in S
MustClose(f) == \A S \in SUBSET Helpers : CloseClosed(S) => f \in S

\* A field is read by f unless some set without f is closed under calling into it.
ReadClosed(S, field) ==
  \A f \in Helpers :
    (\E i \in Direct(f) : Body(f)[i].field = field) \/ Calls(f) \cap S # {} => f \in S
Reads(f) == {x \in Fields : \A S \in SUBSET Helpers : ReadClosed(S, x) => f \in S}

\* f calls no helper that is on a cycle of calls.
CallClosed(S) == \A f \in S : Calls(f) \subseteq S
WellFounded(S) == \A T \in SUBSET S : T # {} => \E f \in T : Calls(f) \cap T = {}
Terminating(f) == \E S \in SUBSET Helpers : f \in S /\ CallClosed(S) /\ WellFounded(S)

-----------------------------------------------------------------------------
\* A "yes" is true whatever was asked before it and whatever cycles were cut: a
\* receive that is not there would relate a worker to a channel it never ends
\* on, a close that is not there would report a wait that a return without the
\* close leaves alone (channelParamIsReceived, channelParamMustClose).
YesIsReal ==
  \A f \in Helpers :
    /\ memo[[kind |-> "received", of |-> f]].says # {} => Receives(f)
    /\ memo[[kind |-> "closed", of |-> f]].says # {} => MustClose(f)

\* A "no" is kept for good, and where no cycle was cut it is true: what is
\* missed is missed in cycles of helpers only.
NoIsRealOutsideCycles ==
  \A f \in Helpers :
    Terminating(f) =>
      /\ memo[[kind |-> "received", of |-> f]] = Known({}) => ~Receives(f)
      /\ memo[[kind |-> "closed", of |-> f]] = Known({}) => ~MustClose(f)

\* "A query from one entry point cannot permanently hide evidence discovered
\* from another" (docs/limitations.md): the context fields kept for a helper,
\* and those told to who asks, are the ones it reads, in cycles too.
FieldsExact ==
  /\ \A f \in Helpers :
       LET m == memo[[kind |-> "fields", of |-> f]] IN m.known => m.says = Reads(f)
  /\ told # <<>> /\ told[1].kind = "fields" => told[2] = Reads(told[1].of)
=============================================================================
