---------------------------- MODULE StopSignals ----------------------------
(***************************************************************************)
(* Which stop signals belong to a group's workers: stopSignalsFor of       *)
(* internal/frontend/frontend.go with the two indices it reads, from       *)
(* channels and contexts to the variables and fields that may hold them.   *)
(* An owner stores channels in variables and in a field of holders, copies *)
(* them, starts a worker on one of them, closes some, and waits.  What is  *)
(* judged on the text is compared with the executions of the owner.        *)
(*                                                                         *)
(* The owner is straight-line code in which some statements stand under a  *)
(* condition; ExitOrder has the graphs.  It waits once.                    *)
(***************************************************************************)
EXTENDS SignalSummaries

CONSTANTS Vars,      \* variables of the owner that hold a channel or a context
          Pointers,  \* variables that point to a holder, a structure with one such field
          Structs    \* variables that are a holder

CONSTANT Programs    \* what is explored: sets of [helpers, owner]

Holders == Pointers \cup Structs

\* A holder's name is the path to its field.
Places == Vars \cup Holders

\* A variable has one type.
ASSUME PlacesAssumption ==
  /\ Vars \cap Holders = {} /\ Pointers \cap Structs = {}
  /\ "none" \notin Places

\* op     dst      src
\* make   place             a channel of its own, or a context of its own
\* derive variable place    a context made from the one in src
\* store  place    place    the value of src
\* build  holder   place    a new holder with src in its field
\* alias  holder   holder   another name (pointers), or a copy (structures)
\* spawn           place    a worker in helper `in` on src
\* stop            place    close or cancel src, through helper `in` if there is one
\* wait
Statement(stmt, kind) ==
  CASE stmt.op = "make" -> stmt.dst \in Places
    [] stmt.op = "derive" -> kind = "context" /\ stmt.dst \in Vars /\ stmt.src \in Places
    [] stmt.op = "store" -> stmt.dst \in Places /\ stmt.src \in Places
    [] stmt.op = "build" -> stmt.dst \in Holders /\ stmt.src \in Places
    [] stmt.op = "alias" -> {stmt.dst, stmt.src} \subseteq Pointers \/ {stmt.dst, stmt.src} \subseteq Structs
    [] stmt.op = "spawn" -> stmt.src \in Places /\ stmt.in \in Helpers
    [] stmt.op = "stop" -> stmt.src \in Places /\ stmt.in \in Helpers \cup {"none"}
    [] OTHER -> stmt.op = "wait"

\* Helpers have a body, a worker runs in one, and the owner's statements are typed.
ASSUME ProgramsAssumption ==
  \A i \in DOMAIN Programs : \A program \in Programs[i] :
    /\ program.helpers \in [Helpers -> [body : Seq(Items), returns : SUBSET SUBSET Nat]]
    /\ program.owner.kind \in {"channel", "context"} /\ program.owner.params \subseteq Places
    /\ program.owner.asks \subseteq Questions
    /\ program.owner.body \in Seq({program.owner.body[j] : j \in DOMAIN program.owner.body})
    /\ \A j \in DOMAIN program.owner.body : Statement(program.owner.body[j], program.owner.kind)

VARIABLES owner,    \* [kind, body, params, asks]: params hold something before the body, and
                    \* asks are the questions that the rest of the package has
          verdict,  \* "open", then whether the wait is reported
          pc,       \* the next statement of an execution
          holds,    \* place -> the channel or context in it
          points,   \* pointer -> the holder it points to
          derived,  \* <<c, d>>: context d was made from c
          stopped,  \* the channels closed, the contexts cancelled
          workers   \* the workers started: [at, on]

ownerVars == <<owner, verdict, pc, holds, points, derived, stopped, workers>>

Op(i) == owner.body[i].op
At(op) == {i \in DOMAIN owner.body : Op(i) = op}

-----------------------------------------------------------------------------
\* Which pointers are one

Writes(h) == {i \in At("alias") \cup At("build") : owner.body[i].dst = h}
AliasWrites(h) == {i \in At("alias") : owner.body[i].dst = h}
LastAlias(h) == CHOOSE i \in AliasWrites(h) : \A j \in AliasWrites(h) : j <= i

\* Mutant of Stable: a pointer that is written again keeps its root.
StableAlways(h) == TRUE

\* stableStructuredPointerAliases: written at most once in the whole body.
Stable(h) == Cardinality(Writes(h)) <= 1

AliasOf(h) ==
  IF h \in Pointers /\ AliasWrites(h) # {} /\ Stable(h)
     /\ owner.body[LastAlias(h)].src \in Pointers /\ Stable(owner.body[LastAlias(h)].src)
  THEN owner.body[LastAlias(h)].src ELSE h

\* What the chain of aliases from h goes through.
Chain(h) ==
  {x \in Pointers : \A S \in SUBSET Pointers : h \in S /\ (\A y \in S : AliasOf(y) \in S) => x \in S}

\* No alias, or on a cycle: the chain comes back to x.
Ends(x) == x \in Chain(AliasOf(x))

\* The first of these that the chain from h comes to (resolve, with what it has seen).
Roots(h) ==
  {r \in Pointers :
     /\ Ends(r)
     /\ \A S \in SUBSET Pointers : h \in S /\ (\A x \in S : ~Ends(x) => AliasOf(x) \in S) => r \in S}

CanonicalBase(place) ==
  IF place \in Pointers /\ AliasOf(place) # place /\ Roots(place) # {}
  THEN CHOOSE r \in Roots(place) : TRUE ELSE place

-----------------------------------------------------------------------------
\* What a variable or a field may hold, in one pass over the source

\* sourcesForExpr: a channel of which nothing is known is itself.
ChannelSources(index, place) ==
  LET base == CanonicalBase(place) IN IF index[base] = {} THEN {base} ELSE index[base]

\* A context's variable is itself, whatever was assigned to it.
ContextSources(index, place) == IF place \in Vars THEN {place} ELSE index[CanonicalBase(place)]

SourcesFor(index, place) ==
  IF owner.kind = "channel" THEN ChannelSources(index, place) ELSE ContextSources(index, place)

\* Mutant of Add: an assignment replaces what was there.
AddLast(index, place, sources) == [index EXCEPT ![CanonicalBase(place)] = sources]

Add(index, place, sources) == [index EXCEPT ![CanonicalBase(place)] = @ \cup sources]

\* A holder assigned as a whole brings what is known of its field.
CopyStructured(index, stmt) == Add(index, stmt.dst, index[CanonicalBase(stmt.src)])

\* What is made is known by the place that it is made in.
SeedChannel(index, stmt) ==
  CASE stmt.op = "make" -> Add(index, stmt.dst, {stmt.dst})
    [] stmt.op \in {"store", "build"} -> Add(index, stmt.dst, ChannelSources(index, stmt.src))
    [] stmt.op = "alias" -> CopyStructured(index, stmt)
    [] OTHER -> index

\* Only fields are in the index of contexts.
SeedContext(index, stmt) ==
  CASE stmt.op \in {"store", "build"} /\ stmt.dst \in Holders ->
         Add(index, stmt.dst, ContextSources(index, stmt.src))
    [] stmt.op = "alias" -> CopyStructured(index, stmt)
    [] OTHER -> index

SourceIndex ==
  LET upTo[n \in 0..Len(owner.body)] ==
        IF n = 0 THEN [place \in Places |-> {}]
        ELSE IF owner.kind = "channel" THEN SeedChannel(upTo[n - 1], owner.body[n])
        ELSE SeedContext(upTo[n - 1], owner.body[n])
  IN  upTo[Len(owner.body)]

Sources(place) == SourcesFor(SourceIndex, place)

-----------------------------------------------------------------------------
\* The signals of the group

\* What is known of a helper.  A holder passed whole is followed into the helper
\* that uses its field (channelFieldsUsedByParam), like the channel passed alone.
UsedByParam(kind, f) == memo[[kind |-> kind, of |-> f]].says # {}

\* The workers that are known to end on the channel, or to read the context.
DependsOn(i) == UsedByParam(IF owner.kind = "channel" THEN "received" ELSE "fields", owner.body[i].in)

\* workerStopChannels and workerContexts: what the group's workers may be on.
WorkerStops == UNION {Sources(owner.body[i].src) : i \in {j \in At("spawn") : DependsOn(j)}}

\* parents: the contexts in the arguments of a factory, by name.
Parents(c) == {owner.body[i].src : i \in {j \in At("derive") : owner.body[j].dst = c}}
DerivesFromAny(used, target) ==
  \A S \in SUBSET Places : used \subseteq S /\ (\A c \in S : Parents(c) \subseteq S) => target \in S

\* closeCallsByChannel: a helper counts if it closes on every return.
Closes(i) == owner.body[i].in = "none" \/ UsedByParam("closed", owner.body[i].in)

ChannelSignals == {i \in At("stop") : Closes(i) /\ Sources(owner.body[i].src) \cap WorkerStops # {}}
ContextSignals == {i \in At("stop") : DerivesFromAny(WorkerStops, owner.body[i].src)}

StopSignalsFor == IF owner.kind = "channel" THEN ChannelSignals ELSE ContextSignals

WaitAt == CHOOSE i \in At("wait") : TRUE

\* Mutant of Late: one signal after the wait is enough.
LateSome == \E i \in StopSignalsFor : i > WaitAt

\* Every signal comes after the wait, and there is one.
Late == StopSignalsFor # {} /\ \A i \in StopSignalsFor : i > WaitAt

Needs ==
  {[kind |-> IF owner.kind = "channel" THEN "received" ELSE "fields", of |-> owner.body[i].in] :
     i \in At("spawn")}
  \cup {[kind |-> "closed", of |-> owner.body[i].in] : i \in {j \in At("stop") : owner.body[j].in # "none"}}

Judge ==
  /\ verdict = "open" /\ stack = <<>>
  /\ \A q \in Needs : memo[q].known
  /\ verdict' = IF Late THEN "late" ELSE "fine"
  /\ UNCHANGED <<owner, pc, holds, points, derived, stopped, workers>> /\ UNCHANGED summaryVars

-----------------------------------------------------------------------------
\* An execution.  A channel, a context and a holder are known by where they
\* were made: <<place, number of the statement>>, 0 if before the body.

Locations == Places \X (0..Len(owner.body))
None == <<"none", 0>>

Stmt == owner.body[pc]
Made == <<Stmt.dst, pc>>

\* A field is in the holder that a pointer points to.
Location(place) == IF place \in Pointers THEN points[place] ELSE <<place, 0>>
Value(place) == IF Location(place) = None THEN None ELSE holds[Location(place)]

Running == verdict # "open" /\ pc <= Len(owner.body)
Advance == pc' = pc + 1 /\ UNCHANGED <<owner, verdict>> /\ UNCHANGED summaryVars

Write(place, value) ==
  /\ Location(place) # None
  /\ holds' = [holds EXCEPT ![Location(place)] = value]
  /\ UNCHANGED points

\* A context made from one that is cancelled is cancelled.
Downward(c) == IF Value(Stmt.src) \in stopped THEN stopped \cup {c} ELSE stopped

\* The statement stands under a condition that does not hold.
Skip ==
  /\ Running /\ Stmt.may /\ Advance
  /\ UNCHANGED <<holds, points, derived, stopped, workers>>

RunMake ==
  /\ Running /\ Stmt.op = "make" /\ Advance
  /\ Write(Stmt.dst, Made)
  /\ UNCHANGED <<derived, stopped, workers>>

RunDerive ==
  /\ Running /\ Stmt.op = "derive" /\ Advance
  /\ Write(Stmt.dst, Made)
  /\ derived' = derived \cup {<<Value(Stmt.src), Made>>}
  /\ stopped' = Downward(Made)
  /\ UNCHANGED workers

RunStore ==
  /\ Running /\ Stmt.op = "store" /\ Advance
  /\ Write(Stmt.dst, Value(Stmt.src))
  /\ UNCHANGED <<derived, stopped, workers>>

\* &T{f: src} is a new holder, T{f: src} is written over the one there is.
RunBuild ==
  /\ Running /\ Stmt.op = "build" /\ Advance
  /\ IF Stmt.dst \in Pointers
     THEN /\ points' = [points EXCEPT ![Stmt.dst] = Made]
          /\ holds' = [holds EXCEPT ![Made] = Value(Stmt.src)]
     ELSE Write(Stmt.dst, Value(Stmt.src))
  /\ UNCHANGED <<derived, stopped, workers>>

RunAlias ==
  /\ Running /\ Stmt.op = "alias" /\ Advance
  /\ IF Stmt.dst \in Pointers
     THEN points' = [points EXCEPT ![Stmt.dst] = points[Stmt.src]] /\ UNCHANGED holds
     ELSE Write(Stmt.dst, Value(Stmt.src))
  /\ UNCHANGED <<derived, stopped, workers>>

RunSpawn ==
  /\ Running /\ Stmt.op = "spawn" /\ Advance
  /\ workers' = workers \cup {[at |-> pc, on |-> Value(Stmt.src)]}
  /\ UNCHANGED <<holds, points, derived, stopped>>

\* Whoever is made from c, at any remove.
Under(c) ==
  LET contexts == {c} \cup {d[2] : d \in derived}
      Closed(S) == c \in S /\ \A d \in derived : d[1] \in S => d[2] \in S
  IN  {x \in contexts : \A S \in SUBSET contexts : Closed(S) => x \in S}

\* To close a channel twice, or none, is a panic.  A helper that need not
\* close does not: LL1005 is about signals that are guaranteed.
RunStop ==
  /\ Running /\ Stmt.op = "stop" /\ Advance
  /\ IF owner.kind = "channel" /\ Stmt.in # "none" /\ ~MustClose(Stmt.in)
     THEN UNCHANGED stopped
     ELSE /\ Value(Stmt.src) # None
          /\ owner.kind = "channel" => Value(Stmt.src) \notin stopped
          /\ stopped' = stopped \cup Under(Value(Stmt.src))
  /\ UNCHANGED <<holds, points, derived, workers>>

RunWait ==
  /\ Running /\ Stmt.op = "wait" /\ Advance
  /\ UNCHANGED <<holds, points, derived, stopped, workers>>

-----------------------------------------------------------------------------
Init ==
  /\ \E i \in DOMAIN Programs : \E program \in Programs[i] :
       helpers = program.helpers /\ owner = program.owner
  /\ SummaryInit
  /\ verdict = "open" /\ pc = 1
  /\ holds = [l \in Locations |-> IF l[2] = 0 /\ l[1] \in owner.params THEN l ELSE None]
  /\ points = [p \in Pointers |-> IF p \in owner.params THEN <<p, 0>> ELSE None]
  /\ derived = {} /\ stopped = {} /\ workers = {}

AskSome == verdict = "open" /\ (\E q \in owner.asks \cup Needs : Ask(q)) /\ UNCHANGED ownerVars
SearchSome == Search /\ UNCHANGED ownerVars

Next ==
  \/ AskSome \/ SearchSome \/ Judge
  \/ Skip \/ RunMake \/ RunDerive \/ RunStore \/ RunBuild \/ RunAlias \/ RunSpawn \/ RunStop \/ RunWait

vars == <<summaryVars, ownerVars>>

Spec == Init /\ [][Next]_vars

-----------------------------------------------------------------------------
\* What the indices are made for.  A pointer is assigned at most once.  No channel
\* that the owner was passed is replaced, nor is a structure it was passed copied: of
\* those the index knows nothing.  Contexts are made in variables, from variables, and
\* are not passed in fields.
Followed ==
  /\ \A h \in Pointers : Stable(h)
  /\ owner.kind = "channel" =>
       /\ \A i \in At("make") \cup At("store") \cup At("build") : CanonicalBase(owner.body[i].dst) \notin owner.params
       /\ \A i \in At("alias") : owner.body[i].dst \notin owner.params /\ owner.body[i].src \notin owner.params \cap Structs
  /\ owner.kind = "context" =>
       /\ owner.params \subseteq Vars
       /\ \A i \in At("make") : owner.body[i].dst \in Vars
       /\ \A i \in At("store") : owner.body[i].dst \in Holders
       /\ \A i \in At("derive") \cup At("stop") : owner.body[i].src \in Vars

\* The helpers that the owner closes through are on no cycle of calls, nor call into one:
\* there, what is known of a helper may fall short (NoIsRealOutsideCycles).
ClosersEnd ==
  owner.kind = "channel" =>
    \A i \in At("stop") : owner.body[i].in # "none" => Terminating(owner.body[i].in)

\* Whatever the worker is on in any execution is among the sources the text
\* gives it, through aliases, fields, copies and conditions: "if a variable or
\* field may refer to more than one channel, all of those channels remain
\* candidates" (channelSourceIndex).
SourcesCover == \A w \in workers : w.on # None => w.on[1] \in Sources(owner.body[w.at].src)

\* LL1005 is reported only where no worker it speaks of has been stopped when
\* the owner starts to wait, whichever conditions hold (computeStopOrdering:
\* every one of the group's signals is proven to run only after the wait).  A stop
\* is one that is guaranteed (specification.md:77): see RunStop.
LateIsReal ==
  verdict = "late" /\ pc = WaitAt => \A w \in workers : DependsOn(w.at) => w.on \notin stopped
=============================================================================
