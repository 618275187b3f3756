------------------------- MODULE StopSignals_proofs -------------------------
(***************************************************************************)
(* What the searches of SignalSummaries answer, for every package: helpers *)
(* that call each other in any way, and questions in any order.  Then that *)
(* the source index covers what a worker is on in every execution of every *)
(* owner it is made for, and that a late wait is one.                      *)
(***************************************************************************)
EXTENDS StopSignals, SequenceTheorems, FiniteSetTheorems, WellFoundedInduction, TLAPS

Frame == [asks : Questions, at : Nat \ {0}, got : SUBSET (Nat \cup Fields), whole : BOOLEAN]
Memo == [Questions -> [known : BOOLEAN, says : SUBSET (Fields \cup {"yes"})]]

HelpersOK == helpers \in [Helpers -> [body : Seq(Items), returns : SUBSET SUBSET Nat]]
Shape == HelpersOK /\ memo \in Memo /\ stack \in Seq(Frame)

Closers == {f \in Helpers : MustClose(f)}

\* The fields that f reads along calls that keep out of A.
ReadClosedApart(S, field, A) ==
  \A f \in Helpers \ A :
    (\E i \in Direct(f) : Body(f)[i].field = field) \/ Calls(f) \cap S # {} => f \in S
ReadsApart(f, A) == {x \in Fields : \A S \in SUBSET Helpers : ReadClosedApart(S, x, A) => f \in S}

\* What a search has got is there.
Real(frame) ==
  LET f == frame.asks.of IN
  /\ frame.asks.kind = "received" /\ frame.got # {} => Receives(f)
  /\ frame.asks.kind = "closed" => frame.got \subseteq Discharges(f, Closers)
  /\ frame.asks.kind = "fields" => frame.got \subseteq Reads(f)

\* The i-th item is in what has been got.  Of a callee's fields that is all that the callee
\* reads without the searches under way (those in A, and this one), and all that is kept for
\* the callee if no cycle has been cut; of its receives and closes, where there are no
\* cycles, all that is kept for it.
Covers(asks, i, got, whole, A, m) ==
  LET item == Body(asks.of)[i]
      q == [kind |-> asks.kind, of |-> item.to]
  IN  /\ item.t = "direct" => IF asks.kind = "fields" THEN item.field \in got ELSE i \in got
      /\ item.t = "call" =>
           IF asks.kind = "fields"
           THEN /\ ReadsApart(item.to, A \cup {asks.of}) \subseteq got
                /\ whole => m[q].known /\ m[q].says \subseteq got
           ELSE Terminating(asks.of) => m[q].known /\ (m[q].says # {} => i \in got)

\* A search has got all that it has come past.
Past(frame, A, m) ==
  \A i \in DOMAIN Body(frame.asks.of) : i < frame.at => Covers(frame.asks, i, frame.got, frame.whole, A, m)

Good(frame, A, m) == Real(frame) /\ Past(frame, A, m)

\* The functions searched below the j-th search of st.
Below(st, j) == {st[k].asks.of : k \in {l \in DOMAIN st : j < l}}

\* A search waits for the one above it.
WaitsFor(frame, q) ==
  /\ frame.at \in DOMAIN Body(frame.asks.of) /\ Body(frame.asks.of)[frame.at].t = "call"
  /\ Passed(frame, Body(frame.asks.of)[frame.at]) = q

StackOK(m, st) ==
  /\ \A j \in DOMAIN st : ~m[st[j].asks].known
  /\ \A j, k \in DOMAIN st : st[j].asks = st[k].asks => j = k
  /\ \A j \in DOMAIN st : j # 1 => WaitsFor(st[j], st[j - 1].asks)
  /\ \A j \in DOMAIN st : Good(st[j], Below(st, j), m)

MemoOK(m) ==
  \A f \in Helpers :
    LET received == m[[kind |-> "received", of |-> f]]
        closed == m[[kind |-> "closed", of |-> f]]
        fields == m[[kind |-> "fields", of |-> f]]
    IN  /\ received.says # {} => Receives(f)
        /\ closed.says # {} => MustClose(f)
        /\ fields.known => fields.says = Reads(f)
        /\ ~fields.known => fields.says = {}
        /\ Terminating(f) => /\ received.known /\ received.says = {} => ~Receives(f)
                             /\ closed.known /\ closed.says = {} => ~MustClose(f)

ToldOK(t) == t # <<>> /\ t[1].kind = "fields" => t[2] = Reads(t[1].of)

SearchesInv == Shape /\ StackOK(memo, stack) /\ MemoOK(memo) /\ ToldOK(told)

-----------------------------------------------------------------------------
\* The least set closed under a monotone F (an F[S] in S is closed) is what F makes of it.
LEMMA LeastUnfolds ==
  ASSUME NEW F \in [SUBSET Helpers -> SUBSET Helpers],
         \A S, T \in SUBSET Helpers : S \subseteq T => F[S] \subseteq F[T],
         NEW L, L = {f \in Helpers : \A S \in SUBSET Helpers : F[S] \subseteq S => f \in S}
  PROVE  F[L] = L
<1>1. L \in SUBSET Helpers /\ F[L] \in SUBSET Helpers /\ F[F[L]] \in SUBSET Helpers
  OBVIOUS
<1>2. F[L] \subseteq L
  <2> SUFFICES ASSUME NEW f \in F[L], NEW S \in SUBSET Helpers, F[S] \subseteq S PROVE f \in S
    BY <1>1
  <2>1. L \subseteq S
    OBVIOUS
  <2> QED BY <2>1, <1>1
<1>3. F[F[L]] \subseteq F[L]
  BY <1>1, <1>2
<1>4. L \subseteq F[L]
  BY <1>1, <1>3
<1> QED BY <1>2, <1>4

\* An item of a body is a direct use or a call, and not both.
LEMMA ItemTyped ==
  ASSUME HelpersOK, NEW f \in Helpers
  PROVE  /\ Body(f) \in Seq(Items)
         /\ Returns(f) \subseteq SUBSET Nat
         /\ Calls(f) \subseteq Helpers
         /\ \A i \in DOMAIN Body(f) :
              \/ Body(f)[i].t = "direct" /\ Body(f)[i].field \in Fields
              \/ Body(f)[i].t = "call" /\ Body(f)[i].to \in Calls(f)
<1>1. Body(f) \in Seq(Items) /\ Returns(f) \subseteq SUBSET Nat
  BY DEF HelpersOK, Body, Returns
<1>2. \A i \in DOMAIN Body(f) : Body(f)[i] \in Items
  BY <1>1
<1>3. \A x \in Items : (x.t = "direct" /\ x.field \in Fields) \/ (x.t = "call" /\ x.to \in Helpers)
  BY DEF Items
<1> QED BY <1>1, <1>2, <1>3 DEF Calls

LEMMA ReceivesUnfolds ==
  ASSUME NEW f \in Helpers
  PROVE  Receives(f) <=> Direct(f) # {} \/ \E g \in Calls(f) \cap Helpers : Receives(g)
<1> DEFINE Has(g, S) == Direct(g) # {} \/ Calls(g) \cap S # {}
           F == [S \in SUBSET Helpers |-> {g \in Helpers : Has(g, S)}]
           L == {g \in Helpers : Receives(g)}
<1>1. F \in [SUBSET Helpers -> SUBSET Helpers]
  OBVIOUS
<1>2. \A S, T \in SUBSET Helpers : S \subseteq T => F[S] \subseteq F[T]
  OBVIOUS
<1>3. \A S \in SUBSET Helpers : F[S] \subseteq S <=> ReceiveClosed(S)
  BY DEF ReceiveClosed
<1>4. L = {g \in Helpers : \A S \in SUBSET Helpers : F[S] \subseteq S => g \in S}
  <2> HIDE DEF F
  <2> QED BY <1>3 DEF Receives
<1>5. L \in SUBSET Helpers
  OBVIOUS
<1>6. F[L] = L
  <2> HIDE DEF F, L
  <2> QED BY <1>1, <1>2, <1>4, LeastUnfolds
<1>7. F[L] = {g \in Helpers : Has(g, L)}
  BY <1>5
<1>8. f \in L <=> Has(f, L)
  <2> HIDE DEF F, L, Has
  <2> QED BY <1>6, <1>7
<1> QED BY <1>8

LEMMA MustCloseUnfolds ==
  ASSUME HelpersOK, NEW f \in Helpers
  PROVE  MustClose(f) <=> /\ Discharges(f, Closers) # {}
                          /\ \A r \in Returns(f) : r \cap Discharges(f, Closers) # {}
<1> DEFINE Done(g, S) == Discharges(g, S) # {} /\ \A r \in Returns(g) : r \cap Discharges(g, S) # {}
           F == [S \in SUBSET Helpers |-> {g \in Helpers : Done(g, S)}]
<1>1. F \in [SUBSET Helpers -> SUBSET Helpers]
  OBVIOUS
<1>2. \A S, T \in SUBSET Helpers : S \subseteq T => F[S] \subseteq F[T]
  <2> SUFFICES ASSUME NEW S \in SUBSET Helpers, NEW T \in SUBSET Helpers, S \subseteq T,
                      NEW g \in Helpers, Done(g, S)
               PROVE  Done(g, T)
    OBVIOUS
  <2>1. Discharges(g, S) \subseteq Discharges(g, T)
    BY DEF Discharges
  <2> QED BY <2>1
<1>3. \A S \in SUBSET Helpers : F[S] \subseteq S <=> CloseClosed(S)
  BY DEF CloseClosed
<1>4. Closers = {g \in Helpers : \A S \in SUBSET Helpers : F[S] \subseteq S => g \in S}
  <2> HIDE DEF F
  <2> QED BY <1>3 DEF MustClose, Closers
<1>5. Closers \in SUBSET Helpers
  BY DEF Closers
<1>6. F[Closers] = Closers
  <2> HIDE DEF F
  <2> QED BY <1>1, <1>2, <1>4, LeastUnfolds
<1>7. F[Closers] = {g \in Helpers : Done(g, Closers)}
  BY <1>5
<1>8. f \in Closers <=> Done(f, Closers)
  <2> HIDE DEF F, Done
  <2> QED BY <1>6, <1>7
<1> QED BY <1>8 DEF Closers

\* The field x is read by f along calls out of A if f is out of A and has it or calls who has.
LEMMA ReadsApartUnfolds ==
  ASSUME NEW x \in Fields, NEW A, NEW L, L = {g \in Helpers : x \in ReadsApart(g, A)}
  PROVE  /\ ReadClosedApart(L, x, A)
         /\ L \cap A = {}
<1> DEFINE Has(g, S) == (\E i \in Direct(g) : Body(g)[i].field = x) \/ Calls(g) \cap S # {}
           F == [S \in SUBSET Helpers |-> {g \in Helpers \ A : Has(g, S)}]
<1>1. F \in [SUBSET Helpers -> SUBSET Helpers]
  OBVIOUS
<1>2. \A S, T \in SUBSET Helpers : S \subseteq T => F[S] \subseteq F[T]
  OBVIOUS
<1>3. \A S \in SUBSET Helpers : F[S] \subseteq S <=> ReadClosedApart(S, x, A)
  BY DEF ReadClosedApart
<1>4. L = {g \in Helpers : \A S \in SUBSET Helpers : F[S] \subseteq S => g \in S}
  <2> HIDE DEF F
  <2> QED BY <1>3 DEF ReadsApart
<1>5. L \in SUBSET Helpers
  OBVIOUS
<1>6. F[L] = L
  <2> HIDE DEF F
  <2> QED BY <1>1, <1>2, <1>4, LeastUnfolds
<1>7. F[L] = {g \in Helpers \ A : Has(g, L)}
  BY <1>5
<1>8. ReadClosedApart(L, x, A)
  BY <1>3, <1>5, <1>6
<1> QED BY <1>6, <1>7, <1>8

LEMMA ReadsApartFromNone ==
  ASSUME NEW f \in Helpers
  PROVE  ReadsApart(f, {}) = Reads(f)
<1>1. \A S, x : ReadClosedApart(S, x, {}) <=> ReadClosed(S, x)
  BY DEF ReadClosedApart, ReadClosed
<1> QED BY <1>1 DEF ReadsApart, Reads

LEMMA ReadsApartIsRead ==
  ASSUME NEW f \in Helpers, NEW A
  PROVE  ReadsApart(f, A) \subseteq Reads(f)
<1>1. \A S, x : ReadClosed(S, x) => ReadClosedApart(S, x, A)
  BY DEF ReadClosedApart, ReadClosed
<1> QED BY <1>1 DEF ReadsApart, Reads

LEMMA ReadsApartInside ==
  ASSUME NEW A, NEW f \in A \cap Helpers
  PROVE  ReadsApart(f, A) = {}
<1> SUFFICES ASSUME NEW x \in Fields, x \in ReadsApart(f, A) PROVE FALSE
  BY DEF ReadsApart
<1> DEFINE L == {g \in Helpers : x \in ReadsApart(g, A)}
<1>1. f \in L
  OBVIOUS
<1> HIDE DEF L
<1>2. L \cap A = {}
  BY ReadsApartUnfolds DEF L
<1> QED BY <1>1, <1>2

\* What f reads it has itself, or has from a callee without going through f again.
LEMMA ReadsApartSplits ==
  ASSUME HelpersOK, NEW f \in Helpers, NEW A, f \notin A, NEW x \in ReadsApart(f, A)
  PROVE  \/ \E i \in Direct(f) : Body(f)[i].field = x
         \/ \E g \in Calls(f) : x \in ReadsApart(g, A \cup {f})
<1> SUFFICES ASSUME ~\E i \in Direct(f) : Body(f)[i].field = x,
                    \A g \in Calls(f) : x \notin ReadsApart(g, A \cup {f})
             PROVE  FALSE
  OBVIOUS
<1>1. x \in Fields /\ Calls(f) \subseteq Helpers
  BY ItemTyped DEF ReadsApart
<1> DEFINE B == A \cup {f}
           L == {g \in Helpers : x \in ReadsApart(g, B)}
<1>2. L \in SUBSET Helpers /\ Calls(f) \cap L = {}
  OBVIOUS
<1>3. ReadClosedApart(L, x, B) /\ L \cap B = {}
  <2> HIDE DEF B
  <2> QED BY <1>1, ReadsApartUnfolds
<1> HIDE DEF L
<1>4. ReadClosedApart(L, x, A)
  BY <1>2, <1>3 DEF ReadClosedApart
<1>5. f \in L
  BY <1>2, <1>4 DEF ReadsApart
<1> QED BY <1>3, <1>5

\* Of the fields: a set that has what f reads directly and all that its callees read
\* has what f reads.
LEMMA ReadsClosed ==
  ASSUME HelpersOK, NEW f \in Helpers, NEW got,
         \A i \in Direct(f) : Body(f)[i].field \in got,
         \A g \in Calls(f) : Reads(g) \subseteq got
  PROVE  Reads(f) \subseteq got
<1> SUFFICES ASSUME NEW x \in Reads(f) PROVE x \in got
  OBVIOUS
<1>1. x \in ReadsApart(f, {}) /\ Calls(f) \subseteq Helpers
  BY ReadsApartFromNone, ItemTyped
<1>2. (\E i \in Direct(f) : Body(f)[i].field = x) \/ \E g \in Calls(f) : x \in ReadsApart(g, {f})
  <2> DEFINE A == {}
  <2>1. x \in ReadsApart(f, A) /\ f \notin A /\ A \cup {f} = {f}
    BY <1>1
  <2> HIDE DEF A
  <2>2. (\E i \in Direct(f) : Body(f)[i].field = x) \/ \E g \in Calls(f) : x \in ReadsApart(g, A \cup {f})
    BY <2>1, ReadsApartSplits
  <2> QED BY <2>1, <2>2
<1>3. \A g \in Calls(f) : ReadsApart(g, {f}) \subseteq Reads(g)
  BY <1>1, ReadsApartIsRead
<1> QED BY <1>2, <1>3

\* What f reads directly and what its callees read, it reads.
LEMMA ReadsHas ==
  ASSUME HelpersOK, NEW f \in Helpers
  PROVE  /\ \A i \in Direct(f) : Body(f)[i].field \in Reads(f)
         /\ \A g \in Calls(f) : Reads(g) \subseteq Reads(f)
<1>1. \A i \in Direct(f) : Body(f)[i].field \in Fields
  BY ItemTyped DEF Direct
<1> QED BY <1>1 DEF Reads, ReadClosed

LEMMA CallsTerminate ==
  ASSUME HelpersOK, NEW f \in Helpers, Terminating(f), NEW g \in Calls(f)
  PROVE  Terminating(g)
BY DEF Terminating, CallClosed

-----------------------------------------------------------------------------
\* Frames

LEMMA FrameTyped ==
  ASSUME NEW frame \in Frame
  PROVE  /\ frame.asks \in Questions /\ frame.asks.kind \in Kinds /\ frame.asks.of \in Helpers
         /\ frame.asks = [kind |-> frame.asks.kind, of |-> frame.asks.of]
         /\ frame.at \in Nat /\ frame.at >= 1 /\ frame.got \subseteq Nat \cup Fields /\ frame.whole \in BOOLEAN
<1>1. frame.asks \in Questions /\ frame.at \in Nat \ {0} /\ frame.got \subseteq Nat \cup Fields /\ frame.whole \in BOOLEAN
  BY DEF Frame
<1>2. \A q \in Questions : q.kind \in Kinds /\ q.of \in Helpers /\ q = [kind |-> q.kind, of |-> q.of]
  BY DEF Questions
<1> QED BY <1>1, <1>2

LEMMA PassedTyped ==
  ASSUME HelpersOK, NEW frame \in Frame, NEW i \in DOMAIN Body(frame.asks.of), Body(frame.asks.of)[i].t = "call"
  PROVE  /\ Passed(frame, Body(frame.asks.of)[i]) \in Questions
         /\ Passed(frame, Body(frame.asks.of)[i]).kind = frame.asks.kind
         /\ Passed(frame, Body(frame.asks.of)[i]).of = Body(frame.asks.of)[i].to
         /\ Body(frame.asks.of)[i].to \in Calls(frame.asks.of) \cap Helpers
<1>1. frame.asks.of \in Helpers /\ frame.asks.kind \in Kinds
  BY FrameTyped
<1>2. Body(frame.asks.of)[i].to \in Calls(frame.asks.of) \cap Helpers
  BY <1>1, ItemTyped
<1> QED BY <1>1, <1>2 DEF Passed, Questions

LEMMA WaitsCalls ==
  ASSUME HelpersOK, NEW frame \in Frame, NEW q, WaitsFor(frame, q)
  PROVE  q.of \in Calls(frame.asks.of) /\ q.kind = frame.asks.kind
<1>1. frame.at \in DOMAIN Body(frame.asks.of) /\ Body(frame.asks.of)[frame.at].t = "call"
  BY DEF WaitsFor
<1>2. q = Passed(frame, Body(frame.asks.of)[frame.at])
  BY DEF WaitsFor
<1> QED BY <1>1, <1>2, PassedTyped

\* Searches that wait for each other in a ring call each other in a ring.
LEMMA NoCycle ==
  ASSUME HelpersOK, NEW st \in Seq(Frame), \A j \in DOMAIN st : j # 1 => WaitsFor(st[j], st[j - 1].asks),
         st # <<>>, Terminating(st[1].asks.of), NEW m \in DOMAIN st, st[m].asks.of \in Calls(st[1].asks.of)
  PROVE  FALSE
<1>1. PICK S \in SUBSET Helpers : st[1].asks.of \in S /\ CallClosed(S) /\ WellFounded(S)
  BY DEF Terminating
<1> DEFINE T == {x \in S : \E k \in 1 .. m : x = st[k].asks.of}
<1>2. DOMAIN st = 1 .. Len(st) /\ Len(st) \in Nat /\ m \in Nat /\ m >= 1 /\ m <= Len(st)
  OBVIOUS
<1>3. T \in SUBSET S /\ T # {}
  BY <1>1, <1>2
<1>4. PICK x \in T : Calls(x) \cap T = {}
  BY <1>1, <1>3 DEF WellFounded
<1>5. PICK k \in 1 .. m : x = st[k].asks.of
  OBVIOUS
<1>6. Calls(x) \subseteq S
  BY <1>1 DEF CallClosed
<1>7. CASE k = 1
  <2>1. st[m].asks.of \in Calls(x)
    BY <1>5, <1>7
  <2>2. st[m].asks.of \in T
    BY <2>1, <1>6, <1>2
  <2> QED BY <2>1, <2>2, <1>4
<1>8. CASE k # 1
  <2>1. k - 1 \in 1 .. m /\ k \in DOMAIN st /\ st[k] \in Frame
    BY <1>2, <1>5, <1>8
  <2>2. st[k - 1].asks.of \in Calls(x)
    BY <2>1, <1>5, <1>8, WaitsCalls
  <2>3. st[k - 1].asks.of \in T
    BY <2>1, <2>2, <1>6
  <2> QED BY <2>2, <2>3, <1>4
<1> QED BY <1>7, <1>8

\* What a search adds to what it has got, and that it is there and is all of the item.
Gain(frame, says) == IF frame.asks.kind = "fields" THEN says ELSE IF says # {} THEN {frame.at} ELSE {}
Adds(frame, says, whole, A, m) ==
  LET f == frame.asks.of IN
  /\ frame.at \in DOMAIN Body(f)
  /\ frame.asks.kind = "received" /\ says # {} => Receives(f)
  /\ frame.asks.kind = "closed" /\ says # {} => frame.at \in Discharges(f, Closers)
  /\ frame.asks.kind = "fields" => says \subseteq Reads(f)
  /\ Covers(frame.asks, frame.at, Gain(frame, says), Learn(frame, says, whole).whole, A, m)

LEMMA CoversMore ==
  ASSUME NEW asks, NEW i, NEW got, NEW whole, NEW A, NEW m, Covers(asks, i, got, whole, A, m),
         NEW more, got \subseteq more, NEW cut, cut => whole
  PROVE  Covers(asks, i, more, cut, A, m)
BY DEF Covers

LEMMA LearnTyped ==
  ASSUME NEW frame \in Frame, NEW says, NEW whole \in BOOLEAN,
         frame.asks.kind = "fields" => says \subseteq Fields
  PROVE  /\ Learn(frame, says, whole) \in Frame
         /\ Learn(frame, says, whole).asks = frame.asks
         /\ Learn(frame, says, whole).at = frame.at + 1
         /\ Learn(frame, says, whole).whole = (frame.whole /\ whole)
         /\ Learn(frame, says, whole).got = frame.got \cup Gain(frame, says)
<1>1. frame.at \in Nat \ {0} /\ Gain(frame, says) \subseteq Nat \cup Fields
  BY DEF Frame, Gain
<1>2. frame.at + 1 \in Nat \ {0}
  BY <1>1
<1>3. frame.got \cup Gain(frame, says) \in SUBSET (Nat \cup Fields)
  BY <1>1 DEF Frame
<1>4. (frame.whole /\ whole) \in BOOLEAN
  OBVIOUS
<1> DEFINE more == frame.got \cup Gain(frame, says)
           both == frame.whole /\ whole
<1>5. Learn(frame, says, whole) = [frame EXCEPT !.at = frame.at + 1, !.whole = both, !.got = more]
  BY DEF Learn, Gain, Frame
<1> HIDE DEF more, both
<1>6. Learn(frame, says, whole) = [asks |-> frame.asks, at |-> frame.at + 1, got |-> more, whole |-> both]
  BY <1>5 DEF Frame
<1>7. Learn(frame, says, whole) \in Frame
  BY <1>2, <1>3, <1>4, <1>6 DEF Frame, more, both
<1> QED BY <1>6, <1>7 DEF more, both

LEMMA LearnGood ==
  ASSUME HelpersOK, NEW frame \in Frame, NEW says, NEW whole \in BOOLEAN, NEW A, NEW m,
         frame.asks.kind = "fields" => says \subseteq Fields,
         Good(frame, A, m), Adds(frame, says, whole, A, m)
  PROVE  Good(Learn(frame, says, whole), A, m)
<1> DEFINE new == Learn(frame, says, whole)
           f == frame.asks.of
<1>1. new.asks = frame.asks /\ new.at = frame.at + 1 /\ new.whole = (frame.whole /\ whole)
      /\ new.got = frame.got \cup Gain(frame, says)
  BY LearnTyped
<1> HIDE DEF new
<1>2. Real(new)
  BY <1>1 DEF Good, Real, Adds, Gain
<1>3. Past(new, A, m)
  <2> SUFFICES ASSUME NEW i \in DOMAIN Body(f), i < frame.at + 1
               PROVE  Covers(frame.asks, i, new.got, new.whole, A, m)
    BY <1>1 DEF Past
  <2>1. i \in Nat /\ frame.at \in Nat
    <3>1. f \in Helpers /\ frame.at \in Nat
      BY FrameTyped
    <3>2. Body(f) \in Seq(Items)
      BY <3>1, ItemTyped
    <3> QED BY <3>1, <3>2
  <2>2. CASE i < frame.at
    <3>1. Covers(frame.asks, i, frame.got, frame.whole, A, m)
      BY <2>2 DEF Good, Past
    <3>2. frame.got \subseteq new.got /\ (new.whole => frame.whole)
      BY <1>1
    <3> QED BY <3>1, <3>2, CoversMore
  <2>3. CASE i = frame.at
    <3> DEFINE gain == Gain(frame, says)
    <3>1. Covers(frame.asks, i, gain, new.whole, A, m)
      BY <2>3 DEF Adds, new
    <3>2. gain \subseteq new.got
      BY <1>1
    <3> HIDE DEF gain
    <3> QED BY <3>1, <3>2, CoversMore
  <2> QED BY <2>1, <2>2, <2>3
<1> QED BY <1>2, <1>3 DEF Good, new

\* What is kept is kept for good, so what was learnt from it stays so.
LEMMA GoodStays ==
  ASSUME HelpersOK, NEW frame \in Frame, NEW A, NEW m, NEW n, Good(frame, A, m),
         \A q \in Questions : m[q].known => n[q] = m[q]
  PROVE  Good(frame, A, n)
<1> DEFINE f == frame.asks.of
<1>1. f \in Helpers /\ frame.asks.kind \in Kinds
  BY FrameTyped
<1>2. ASSUME NEW i \in DOMAIN Body(f), Covers(frame.asks, i, frame.got, frame.whole, A, m)
      PROVE  Covers(frame.asks, i, frame.got, frame.whole, A, n)
  <2> DEFINE q == [kind |-> frame.asks.kind, of |-> Body(f)[i].to]
  <2>1. Body(f)[i].t = "call" => q \in Questions
    BY <1>1, ItemTyped DEF Questions
  <2>2. Body(f)[i].t = "call" /\ m[q].known => n[q] = m[q]
    BY <2>1
  <2> QED BY <1>2, <2>2 DEF Covers
<1> QED BY <1>2 DEF Good, Past

-----------------------------------------------------------------------------
\* What a search answers

LEMMA SettledCovers ==
  ASSUME HelpersOK, NEW frame \in Frame, NEW A, NEW m, Good(frame, A, m), frame.at > Len(Body(frame.asks.of))
  PROVE  \A i \in DOMAIN Body(frame.asks.of) : Covers(frame.asks, i, frame.got, frame.whole, A, m)
<1>1. frame.asks.of \in Helpers /\ frame.at \in Nat
  BY FrameTyped
<1>2. Body(frame.asks.of) \in Seq(Items)
  BY <1>1, ItemTyped
<1>3. \A i \in DOMAIN Body(frame.asks.of) : i < frame.at
  BY <1>1, <1>2
<1> QED BY <1>3 DEF Good, Past

\* The callees of f, item by item.
LEMMA CalledBy ==
  ASSUME NEW f, NEW g \in Calls(f)
  PROVE  \E i \in DOMAIN Body(f) : Body(f)[i].t = "call" /\ Body(f)[i].to = g
BY DEF Calls

LEMMA DirectBy ==
  ASSUME NEW f, NEW i
  PROVE  i \in Direct(f) <=> i \in DOMAIN Body(f) /\ Body(f)[i].t = "direct"
BY DEF Direct

\* A search of fields has all that is read without the searches under way,
LEMMA FieldsApart ==
  ASSUME HelpersOK, NEW frame \in Frame, NEW A, NEW m, Good(frame, A, m), Settled(frame), frame.asks.kind = "fields"
  PROVE  ReadsApart(frame.asks.of, A) \subseteq frame.got
<1> DEFINE f == frame.asks.of
<1>1. f \in Helpers
  BY FrameTyped
<1>2. \A i \in DOMAIN Body(f) : Covers(frame.asks, i, frame.got, frame.whole, A, m)
  BY SettledCovers DEF Settled
<1>3. \A i \in Direct(f) : Body(f)[i].field \in frame.got
  BY <1>2, DirectBy DEF Covers
<1>4. CASE f \in A
  BY <1>1, <1>4, ReadsApartInside
<1>5. CASE f \notin A
  <2> SUFFICES ASSUME NEW x \in ReadsApart(f, A) PROVE x \in frame.got
    OBVIOUS
  <2>1. (\E i \in Direct(f) : Body(f)[i].field = x) \/ \E g \in Calls(f) : x \in ReadsApart(g, A \cup {f})
    <3> HIDE DEF f
    <3> QED BY <1>1, <1>5, ReadsApartSplits
  <2>2. ASSUME NEW g \in Calls(f), x \in ReadsApart(g, A \cup {f}) PROVE x \in frame.got
    <3>1. PICK i \in DOMAIN Body(f) : Body(f)[i].t = "call" /\ Body(f)[i].to = g
      BY CalledBy
    <3>2. ReadsApart(g, A \cup {f}) \subseteq frame.got
      BY <1>2, <3>1 DEF Covers
    <3> QED BY <2>2, <3>2
  <2> QED BY <1>3, <2>1, <2>2
<1> QED BY <1>4, <1>5

\* and all that is read if no cycle was cut or nothing else is being searched.
LEMMA FieldsAnswer ==
  ASSUME HelpersOK, NEW m, MemoOK(m), NEW frame \in Frame, NEW A, Good(frame, A, m), Settled(frame),
         frame.asks.kind = "fields", frame.whole \/ A = {}
  PROVE  frame.got = Reads(frame.asks.of)
<1> DEFINE f == frame.asks.of
<1>1. f \in Helpers /\ Calls(f) \subseteq Helpers /\ frame.got \subseteq Reads(f)
  BY FrameTyped, ItemTyped DEF Good, Real
<1>2. \A i \in DOMAIN Body(f) : Covers(frame.asks, i, frame.got, frame.whole, A, m)
  BY SettledCovers DEF Settled
<1>3. CASE frame.whole
  <2>1. \A i \in Direct(f) : Body(f)[i].field \in frame.got
    BY <1>2, DirectBy DEF Covers
  <2>2. ASSUME NEW g \in Calls(f) PROVE Reads(g) \subseteq frame.got
    <3>1. PICK i \in DOMAIN Body(f) : Body(f)[i].t = "call" /\ Body(f)[i].to = g
      BY CalledBy
    <3> DEFINE q == [kind |-> "fields", of |-> g]
    <3>2. m[q].known /\ m[q].says \subseteq frame.got
      BY <1>2, <1>3, <3>1 DEF Covers
    <3>3. m[q].says = Reads(g)
      BY <1>1, <3>2 DEF MemoOK
    <3> QED BY <3>2, <3>3
  <2>3. Reads(f) \subseteq frame.got
    BY <1>1, <2>1, <2>2, ReadsClosed
  <2> QED BY <1>1, <2>3
<1>4. CASE A = {}
  <2>1. ReadsApart(f, A) \subseteq frame.got
    BY FieldsApart
  <2> QED BY <1>1, <1>4, <2>1, ReadsApartFromNone
<1> QED BY <1>3, <1>4

LEMMA ReceivedAnswer ==
  ASSUME HelpersOK, NEW m, MemoOK(m), NEW frame \in Frame, NEW A, Good(frame, A, m), Settled(frame),
         frame.asks.kind = "received"
  PROVE  /\ frame.got # {} => Receives(frame.asks.of)
         /\ frame.got = {} /\ Terminating(frame.asks.of) => ~Receives(frame.asks.of)
<1> DEFINE f == frame.asks.of
<1>1. f \in Helpers /\ Calls(f) \subseteq Helpers
  BY FrameTyped, ItemTyped
<1>2. frame.got # {} => Receives(f)
  BY DEF Good, Real
<1>3. ASSUME frame.got = {}, Terminating(f) PROVE ~Receives(f)
  <2>1. \A i \in DOMAIN Body(f) : Covers(frame.asks, i, frame.got, frame.whole, A, m)
    BY <1>3, SettledCovers DEF Settled
  <2>2. Direct(f) = {}
    BY <1>3, <2>1, DirectBy DEF Covers
  <2>3. ASSUME NEW g \in Calls(f) PROVE ~Receives(g)
    <3>1. PICK i \in DOMAIN Body(f) : Body(f)[i].t = "call" /\ Body(f)[i].to = g
      BY CalledBy
    <3> DEFINE q == [kind |-> "received", of |-> g]
    <3>2. m[q].known /\ m[q].says = {}
      BY <1>3, <2>1, <3>1 DEF Covers
    <3>3. Terminating(g)
      BY <1>1, <1>3, CallsTerminate
    <3> QED BY <1>1, <3>2, <3>3 DEF MemoOK
  <2> QED BY <1>1, <2>2, <2>3, ReceivesUnfolds
<1> QED BY <1>2, <1>3

LEMMA ClosedAnswer ==
  ASSUME HelpersOK, NEW m, MemoOK(m), NEW frame \in Frame, NEW A, Good(frame, A, m), Settled(frame),
         frame.asks.kind = "closed"
  PROVE  /\ frame.got # {} /\ EveryReturn(frame.asks.of, frame.got) => MustClose(frame.asks.of)
         /\ ~(frame.got # {} /\ EveryReturn(frame.asks.of, frame.got)) /\ Terminating(frame.asks.of)
              => ~MustClose(frame.asks.of)
<1> DEFINE f == frame.asks.of
<1>1. f \in Helpers /\ Calls(f) \subseteq Helpers
  BY FrameTyped, ItemTyped
<1>2. frame.got \subseteq Discharges(f, Closers)
  BY DEF Good, Real
<1>3. frame.got # {} /\ EveryReturn(f, frame.got) => MustClose(f)
  <2>1. \A r \in Returns(f) : r \cap frame.got # {} => r \cap Discharges(f, Closers) # {}
    BY <1>2
  <2> QED BY <1>1, <1>2, <2>1, MustCloseUnfolds DEF EveryReturn
<1>4. ASSUME ~(frame.got # {} /\ EveryReturn(f, frame.got)), Terminating(f) PROVE ~MustClose(f)
  <2>1. \A i \in DOMAIN Body(f) : Covers(frame.asks, i, frame.got, frame.whole, A, m)
    BY SettledCovers DEF Settled
  <2>2. Direct(f) \subseteq frame.got
    BY <2>1, DirectBy DEF Covers
  <2>3. ASSUME NEW i \in DOMAIN Body(f), Body(f)[i].t = "call", MustClose(Body(f)[i].to)
        PROVE  i \in frame.got
    <3> DEFINE g == Body(f)[i].to
               q == [kind |-> "closed", of |-> g]
    <3>1. g \in Calls(f) /\ g \in Helpers
      BY <1>1, <2>3 DEF Calls
    <3>2. m[q].known /\ (m[q].says # {} => i \in frame.got)
      BY <1>4, <2>1, <2>3 DEF Covers
    <3>3. Terminating(g)
      BY <1>1, <1>4, <3>1, CallsTerminate
    <3> QED BY <2>3, <3>1, <3>2, <3>3 DEF MemoOK
  <2>4. Discharges(f, Closers) = frame.got
    BY <1>2, <2>2, <2>3 DEF Discharges, Closers
  <2> QED BY <1>1, <1>4, <2>4, MustCloseUnfolds DEF EveryReturn
<1> QED BY <1>3, <1>4

\* An answer is true, a "no" where there are no cycles, fields where none was cut or where
\* nothing else is being searched.
LEMMA OutcomeTrue ==
  ASSUME HelpersOK, NEW m, MemoOK(m), NEW frame \in Frame, NEW A, Good(frame, A, m), Settled(frame)
  PROVE  LET f == frame.asks.of
             says == Outcome(frame)
         IN  /\ frame.asks.kind = "received" => /\ says \subseteq {"yes"}
                                                /\ says # {} => Receives(f)
                                                /\ says = {} /\ Terminating(f) => ~Receives(f)
             /\ frame.asks.kind = "closed" => /\ says \subseteq {"yes"}
                                              /\ says # {} => MustClose(f)
                                              /\ says = {} /\ Terminating(f) => ~MustClose(f)
             /\ frame.asks.kind = "fields" => /\ says = frame.got
                                              /\ says \subseteq Reads(f)
                                              /\ frame.whole \/ A = {} => says = Reads(f)
<1> DEFINE f == frame.asks.of
           says == Outcome(frame)
<1>1. CASE frame.asks.kind = "received"
  <2>1. says = IF frame.got # {} THEN {"yes"} ELSE {}
    BY <1>1 DEF Outcome
  <2> HIDE DEF says
  <2>2. frame.got # {} => Receives(f)
    BY <1>1, ReceivedAnswer
  <2>3. frame.got = {} /\ Terminating(f) => ~Receives(f)
    BY <1>1, ReceivedAnswer
  <2>4. says \subseteq {"yes"} /\ (says # {} => frame.got # {}) /\ (says = {} => frame.got = {})
    BY <2>1
  <2> QED BY <1>1, <2>2, <2>3, <2>4 DEF says
<1>2. CASE frame.asks.kind = "closed"
  <2>1. says = IF frame.got # {} /\ EveryReturn(f, frame.got) THEN {"yes"} ELSE {}
    BY <1>2 DEF Outcome
  <2> HIDE DEF says
  <2>2. frame.got # {} /\ EveryReturn(f, frame.got) => MustClose(f)
    BY <1>2, ClosedAnswer
  <2>3. ~(frame.got # {} /\ EveryReturn(f, frame.got)) /\ Terminating(f) => ~MustClose(f)
    BY <1>2, ClosedAnswer
  <2>4. says \subseteq {"yes"} /\ (says # {} <=> frame.got # {} /\ EveryReturn(f, frame.got))
    BY <2>1
  <2> QED BY <1>2, <2>2, <2>3, <2>4 DEF says
<1>3. CASE frame.asks.kind = "fields"
  <2>1. says = frame.got
    BY <1>3 DEF Outcome
  <2>2. frame.got \subseteq Reads(f)
    BY <1>3 DEF Good, Real
  <2>3. frame.whole \/ A = {} => frame.got = Reads(f)
    BY <1>3, FieldsAnswer
  <2> HIDE DEF says
  <2> QED BY <1>3, <2>1, <2>2, <2>3 DEF says
<1>4. frame.asks.kind \in {"received", "closed", "fields"}
  BY FrameTyped DEF Kinds
<1> QED BY <1>1, <1>2, <1>3, <1>4

\* What is kept is true.
LEMMA MemoLearns ==
  ASSUME HelpersOK, NEW m \in Memo, MemoOK(m), NEW frame \in Frame, NEW A, Good(frame, A, m), Settled(frame),
         Keep(frame), NEW n, n = [m EXCEPT ![frame.asks] = Known(Outcome(frame))]
  PROVE  n \in Memo /\ MemoOK(n)
<1> DEFINE f == frame.asks.of
           says == Outcome(frame)
<1>1. /\ frame.asks \in Questions /\ frame.asks.kind \in {"received", "closed", "fields"} /\ f \in Helpers
      /\ frame.asks = [kind |-> frame.asks.kind, of |-> f]
  BY FrameTyped DEF Kinds
<1>2. /\ frame.asks.kind = "received" => /\ says \subseteq {"yes"}
                                         /\ says # {} => Receives(f)
                                         /\ says = {} /\ Terminating(f) => ~Receives(f)
      /\ frame.asks.kind = "closed" => /\ says \subseteq {"yes"}
                                       /\ says # {} => MustClose(f)
                                       /\ says = {} /\ Terminating(f) => ~MustClose(f)
      /\ frame.asks.kind = "fields" => says = Reads(f)
  BY OutcomeTrue DEF Keep
<1>3. says \in SUBSET (Fields \cup {"yes"})
  BY <1>1, <1>2 DEF Reads
<1> HIDE DEF says
<1>4. \A q \in Questions : n[q] = IF q = frame.asks THEN [known |-> TRUE, says |-> says] ELSE m[q]
  BY <1>1 DEF Memo, Known, says
<1>5. n \in Memo
  BY <1>1, <1>3 DEF Memo, Known, says
<1>6. ASSUME NEW g \in Helpers
      PROVE  /\ n[[kind |-> "received", of |-> g]].says # {} => Receives(g)
             /\ n[[kind |-> "closed", of |-> g]].says # {} => MustClose(g)
             /\ n[[kind |-> "fields", of |-> g]].known => n[[kind |-> "fields", of |-> g]].says = Reads(g)
             /\ ~n[[kind |-> "fields", of |-> g]].known => n[[kind |-> "fields", of |-> g]].says = {}
             /\ Terminating(g) =>
                  /\ n[[kind |-> "received", of |-> g]].known /\ n[[kind |-> "received", of |-> g]].says = {} => ~Receives(g)
                  /\ n[[kind |-> "closed", of |-> g]].known /\ n[[kind |-> "closed", of |-> g]].says = {} => ~MustClose(g)
  <2> DEFINE received == [kind |-> "received", of |-> g]
             closed == [kind |-> "closed", of |-> g]
             fields == [kind |-> "fields", of |-> g]
  <2>1. received \in Questions /\ closed \in Questions /\ fields \in Questions
    BY DEF Questions, Kinds
  <2>2. /\ received = frame.asks <=> frame.asks.kind = "received" /\ f = g
        /\ closed = frame.asks <=> frame.asks.kind = "closed" /\ f = g
        /\ fields = frame.asks <=> frame.asks.kind = "fields" /\ f = g
    BY <1>1
  <2>3. /\ m[received].says # {} => Receives(g)
        /\ m[closed].says # {} => MustClose(g)
        /\ m[fields].known => m[fields].says = Reads(g)
        /\ ~m[fields].known => m[fields].says = {}
        /\ Terminating(g) => /\ m[received].known /\ m[received].says = {} => ~Receives(g)
                             /\ m[closed].known /\ m[closed].says = {} => ~MustClose(g)
    BY DEF MemoOK
  <2> HIDE DEF received, closed, fields
  <2>4. n[received].says # {} => Receives(g)
    BY <1>2, <1>4, <2>1, <2>2, <2>3
  <2>5. n[closed].says # {} => MustClose(g)
    BY <1>2, <1>4, <2>1, <2>2, <2>3
  <2>6. /\ n[fields].known => n[fields].says = Reads(g)
        /\ ~n[fields].known => n[fields].says = {}
    BY <1>2, <1>4, <2>1, <2>2, <2>3
  <2>7. Terminating(g) /\ n[received].known /\ n[received].says = {} => ~Receives(g)
    BY <1>2, <1>4, <2>1, <2>2, <2>3
  <2>8. Terminating(g) /\ n[closed].known /\ n[closed].says = {} => ~MustClose(g)
    BY <1>2, <1>4, <2>1, <2>2, <2>3
  <2> QED BY <2>4, <2>5, <2>6, <2>7, <2>8 DEF received, closed, fields
<1> QED BY <1>5, <1>6 DEF MemoOK

-----------------------------------------------------------------------------
\* The stack of searches

LEMMA SearchOpens ==
  ASSUME HelpersOK, NEW q \in Questions, NEW A, NEW m
  PROVE  Opened(q) \in Frame /\ Opened(q).asks = q /\ Good(Opened(q), A, m)
<1>1. Opened(q).asks = q /\ Opened(q).at = 1 /\ Opened(q).got = {} /\ Opened(q).whole = TRUE
  BY DEF Opened
<1>2. Opened(q) \in Frame
  BY DEF Opened, Frame
<1>3. Real(Opened(q))
  BY <1>1 DEF Real
<1>4. q.of \in Helpers
  BY DEF Questions
<1>5. Body(q.of) \in Seq(Items)
  BY <1>4, ItemTyped
<1>6. Past(Opened(q), A, m)
  BY <1>1, <1>5 DEF Past
<1> QED BY <1>1, <1>2, <1>3, <1>6 DEF Good

\* A search below stays what it is when the one above it is over and has been kept or not.
LEMMA StackPops ==
  ASSUME HelpersOK, NEW m, NEW st \in Seq(Frame), st # <<>>, StackOK(m, st), NEW n,
         \A q \in Questions : q # st[1].asks => n[q] = m[q]
  PROVE  Tail(st) \in Seq(Frame) /\ StackOK(n, Tail(st))
<1> DEFINE rest == Tail(st)
<1>1. /\ rest \in Seq(Frame) /\ Len(rest) \in Nat /\ DOMAIN rest = 1 .. Len(rest) /\ Len(rest) = Len(st) - 1
      /\ Len(st) \in Nat /\ DOMAIN st = 1 .. Len(st)
      /\ \A j \in DOMAIN rest : rest[j] = st[j + 1] /\ rest[j] \in Frame /\ j \in Nat /\ j + 1 \in DOMAIN st /\ j + 1 # 1
  <2>1. rest \in Seq(Frame) /\ Len(rest) = Len(st) - 1 /\ \A j \in DOMAIN rest : rest[j] = st[j + 1]
    OBVIOUS
  <2>2. DOMAIN rest = 1 .. Len(rest) /\ Len(rest) \in Nat /\ DOMAIN st = 1 .. Len(st) /\ Len(st) \in Nat
    BY <2>1
  <2> HIDE DEF rest
  <2>3. \A j \in DOMAIN rest : rest[j] \in Frame /\ j \in Nat /\ j + 1 \in DOMAIN st /\ j + 1 # 1
    BY <2>1, <2>2
  <2> QED BY <2>1, <2>2, <2>3
<1> HIDE DEF rest
<1>2. 1 \in DOMAIN st /\ \A j \in DOMAIN rest : st[j + 1].asks # st[1].asks
  BY <1>1 DEF StackOK
<1>3. \A j \in DOMAIN rest : ~n[rest[j].asks].known
  <2> SUFFICES ASSUME NEW j \in DOMAIN rest PROVE ~n[rest[j].asks].known
    OBVIOUS
  <2>1. rest[j].asks \in Questions
    BY <1>1, FrameTyped
  <2>2. n[rest[j].asks] = m[rest[j].asks]
    BY <1>1, <1>2, <2>1
  <2> QED BY <1>1, <2>2 DEF StackOK
<1>4. \A j, k \in DOMAIN rest : rest[j].asks = rest[k].asks => j = k
  <2> SUFFICES ASSUME NEW j \in DOMAIN rest, NEW k \in DOMAIN rest, rest[j].asks = rest[k].asks PROVE j = k
    OBVIOUS
  <2>1. j + 1 = k + 1
    BY <1>1 DEF StackOK
  <2> QED BY <1>1, <2>1
<1>5. \A j \in DOMAIN rest : j # 1 => WaitsFor(rest[j], rest[j - 1].asks)
  <2> SUFFICES ASSUME NEW j \in DOMAIN rest, j # 1 PROVE WaitsFor(rest[j], rest[j - 1].asks)
    OBVIOUS
  <2>1. j - 1 \in DOMAIN rest /\ (j + 1) - 1 = (j - 1) + 1
    BY <1>1
  <2>2. WaitsFor(st[j + 1], st[(j + 1) - 1].asks)
    BY <1>1 DEF StackOK
  <2> QED BY <1>1, <2>1, <2>2
<1>6. \A q \in Questions : m[q].known => n[q] = m[q]
  BY <1>1, <1>2 DEF StackOK
<1>7. \A j \in DOMAIN rest : Good(rest[j], Below(rest, j), n)
  <2> SUFFICES ASSUME NEW j \in DOMAIN rest PROVE Good(rest[j], Below(rest, j), n)
    OBVIOUS
  <2>1. Below(rest, j) = Below(st, j + 1)
    <3>1. ASSUME NEW k \in DOMAIN rest, j < k PROVE rest[k].asks.of \in Below(st, j + 1)
      <4>1. k + 1 \in DOMAIN st /\ j + 1 < k + 1 /\ rest[k] = st[k + 1]
        BY <1>1, <3>1
      <4> QED BY <4>1 DEF Below
    <3>2. ASSUME NEW k \in DOMAIN st, j + 1 < k PROVE st[k].asks.of \in Below(rest, j)
      <4>1. k - 1 \in DOMAIN rest /\ j < k - 1 /\ (k - 1) + 1 = k
        BY <1>1, <3>2
      <4>2. rest[k - 1] = st[k]
        BY <1>1, <4>1
      <4> QED BY <4>1, <4>2 DEF Below
    <3> QED BY <3>1, <3>2 DEF Below
  <2>2. Good(st[j + 1], Below(st, j + 1), m)
    BY <1>1 DEF StackOK
  <2> QED BY <1>1, <1>6, <2>1, <2>2, GoodStays
<1> QED BY <1>1, <1>3, <1>4, <1>5, <1>7 DEF StackOK, rest

\* The innermost search learns.
LEMMA StackLearns ==
  ASSUME HelpersOK, NEW m, NEW st \in Seq(Frame), st # <<>>, StackOK(m, st),
         NEW says, NEW whole \in BOOLEAN, st[1].asks.kind = "fields" => says \subseteq Fields,
         Adds(st[1], says, whole, Below(st, 1), m)
  PROVE  LET new == <<Learn(st[1], says, whole)>> \o Tail(st)
         IN  new \in Seq(Frame) /\ StackOK(m, new)
<1> DEFINE top == Learn(st[1], says, whole)
           new == <<top>> \o Tail(st)
<1>1. st[1] \in Frame /\ 1 \in DOMAIN st /\ DOMAIN st = 1 .. Len(st) /\ Len(st) \in Nat
  OBVIOUS
<1>2. top \in Frame /\ top.asks = st[1].asks
  BY <1>1, LearnTyped
<1>3. Good(top, Below(st, 1), m)
  BY <1>1, LearnGood DEF StackOK
<1> HIDE DEF top
<1>4. new \in Seq(Frame) /\ Len(new) = Len(st) /\ new[1] = top /\ \A j \in DOMAIN st : j # 1 => new[j] = st[j]
  BY <1>1, <1>2
<1> HIDE DEF new
<1>5. DOMAIN new = DOMAIN st
  BY <1>1, <1>4
<1>6. \A j \in DOMAIN st : new[j].asks = st[j].asks
  BY <1>2, <1>4
<1>7. \A j \in DOMAIN st : Below(new, j) = Below(st, j)
  BY <1>5, <1>6 DEF Below
<1>8. \A j \in DOMAIN new : ~m[new[j].asks].known
  BY <1>5, <1>6 DEF StackOK
<1>9. \A j, k \in DOMAIN new : new[j].asks = new[k].asks => j = k
  BY <1>5, <1>6 DEF StackOK
<1>10. \A j \in DOMAIN new : j # 1 => WaitsFor(new[j], new[j - 1].asks)
  <2> SUFFICES ASSUME NEW j \in DOMAIN st, j # 1 PROVE WaitsFor(new[j], new[j - 1].asks)
    BY <1>5
  <2>1. j - 1 \in DOMAIN st
    BY <1>1
  <2>2. WaitsFor(st[j], st[j - 1].asks)
    BY DEF StackOK
  <2> QED BY <1>4, <1>6, <2>1, <2>2
<1>11. \A j \in DOMAIN new : Good(new[j], Below(new, j), m)
  BY <1>3, <1>4, <1>5, <1>7 DEF StackOK
<1> QED BY <1>4, <1>8, <1>9, <1>10, <1>11 DEF StackOK, new, top

\* A search opens, of which nothing is known and that is not under way.
LEMMA StackPushes ==
  ASSUME HelpersOK, NEW m, NEW st \in Seq(Frame), StackOK(m, st), NEW q \in Questions, ~m[q].known,
         \A j \in DOMAIN st : st[j].asks # q, st # <<>> => WaitsFor(st[1], q)
  PROVE  LET new == <<Opened(q)>> \o st
         IN  new \in Seq(Frame) /\ StackOK(m, new)
<1> DEFINE top == Opened(q)
           new == <<top>> \o st
<1>1. top \in Frame /\ top.asks = q
  BY SearchOpens
<1>2. \A A : Good(top, A, m)
  BY SearchOpens
<1> HIDE DEF top
<1>3. /\ new \in Seq(Frame) /\ Len(new) = Len(st) + 1 /\ new[1] = top /\ Len(st) \in Nat
      /\ DOMAIN st = 1 .. Len(st) /\ \A j \in DOMAIN st : new[j + 1] = st[j]
  BY <1>1
<1> HIDE DEF new
<1>4. DOMAIN new = 1 .. Len(st) + 1
  BY <1>3
<1>5. \A j \in DOMAIN new : j = 1 \/ (j - 1 \in DOMAIN st /\ new[j] = st[j - 1] /\ j \in Nat /\ j > 1)
  <2> SUFFICES ASSUME NEW j \in DOMAIN new, j # 1 PROVE j - 1 \in DOMAIN st /\ new[j] = st[j - 1] /\ j \in Nat /\ j > 1
    OBVIOUS
  <2>1. j - 1 \in DOMAIN st /\ (j - 1) + 1 = j /\ j \in Nat /\ j > 1
    BY <1>3, <1>4
  <2> QED BY <1>3, <2>1
<1>6. \A j \in DOMAIN new : ~m[new[j].asks].known
  BY <1>1, <1>3, <1>5 DEF StackOK
<1>7. \A j, k \in DOMAIN new : new[j].asks = new[k].asks => j = k
  <2> SUFFICES ASSUME NEW j \in DOMAIN new, NEW k \in DOMAIN new, new[j].asks = new[k].asks PROVE j = k
    OBVIOUS
  <2>1. CASE j = 1 \/ k = 1
    BY <1>1, <1>3, <1>5, <2>1
  <2>2. CASE j # 1 /\ k # 1
    <3>1. j - 1 = k - 1
      BY <1>5, <2>2 DEF StackOK
    <3> QED BY <1>5, <2>2, <3>1
  <2> QED BY <2>1, <2>2
<1>8. \A j \in DOMAIN new : j # 1 => WaitsFor(new[j], new[j - 1].asks)
  <2> SUFFICES ASSUME NEW j \in DOMAIN new, j # 1 PROVE WaitsFor(new[j], new[j - 1].asks)
    OBVIOUS
  <2>1. j - 1 \in DOMAIN st /\ new[j] = st[j - 1] /\ j \in Nat /\ j > 1
    BY <1>5
  <2>2. CASE j = 2
    BY <1>1, <1>3, <2>1, <2>2
  <2>3. CASE j # 2
    <3>1. j - 1 \in DOMAIN new /\ j - 1 # 1
      BY <1>3, <1>4, <2>1, <2>3
    <3>2. new[j - 1] = st[(j - 1) - 1]
      BY <1>5, <3>1
    <3> QED BY <2>1, <3>1, <3>2 DEF StackOK
  <2> QED BY <2>2, <2>3
<1>9. ASSUME NEW j \in DOMAIN new PROVE Good(new[j], Below(new, j), m)
  <2>1. CASE j = 1
    BY <1>2, <1>3, <2>1
  <2>2. CASE j # 1
    <3> DEFINE i == j - 1
    <3>1. i \in DOMAIN st /\ new[j] = st[i] /\ j \in Nat /\ j = i + 1
      BY <1>5, <2>2
    <3> HIDE DEF i
    <3>2. Below(new, j) = Below(st, i)
      <4>1. ASSUME NEW k \in DOMAIN new, j < k PROVE new[k].asks.of \in Below(st, i)
        <5>1. k - 1 \in DOMAIN st /\ new[k] = st[k - 1] /\ i < k - 1
          BY <1>5, <3>1, <4>1, <1>3, <1>4
        <5> QED BY <5>1 DEF Below
      <4>2. ASSUME NEW k \in DOMAIN st, i < k PROVE st[k].asks.of \in Below(new, j)
        <5>1. k + 1 \in DOMAIN new /\ new[k + 1] = st[k] /\ j < k + 1
          BY <1>3, <1>4, <3>1, <4>2
        <5> QED BY <5>1 DEF Below
      <4> QED BY <4>1, <4>2 DEF Below
    <3> QED BY <3>1, <3>2 DEF StackOK
  <2> QED BY <2>1, <2>2
<1> QED BY <1>3, <1>6, <1>7, <1>8, <1>9 DEF StackOK, new, top

-----------------------------------------------------------------------------
\* What each step learns is there, and is all of the item

LEMMA NotSettled ==
  ASSUME HelpersOK, NEW frame \in Frame, ~Settled(frame)
  PROVE  /\ frame.asks.of \in Helpers /\ frame.at \in DOMAIN Body(frame.asks.of)
         /\ \/ Body(frame.asks.of)[frame.at].t = "direct" /\ Body(frame.asks.of)[frame.at].field \in Fields
            \/ Body(frame.asks.of)[frame.at].t = "call" /\ Body(frame.asks.of)[frame.at].to \in Calls(frame.asks.of) \cap Helpers
<1>1. frame.asks.of \in Helpers /\ frame.at \in Nat /\ frame.at >= 1
  BY FrameTyped
<1>2. Body(frame.asks.of) \in Seq(Items)
  BY <1>1, ItemTyped
<1>3. frame.at \in DOMAIN Body(frame.asks.of)
  BY <1>1, <1>2 DEF Settled
<1> QED BY <1>1, <1>3, ItemTyped

LEMMA AddsDirect ==
  ASSUME HelpersOK, NEW frame \in Frame, ~Settled(frame), NEW A, NEW m, NEW item,
         item = Body(frame.asks.of)[frame.at], item.t = "direct"
  PROVE  item.field \in Fields /\ Adds(frame, {item.field}, TRUE, A, m)
<1> DEFINE f == frame.asks.of
<1>1. f \in Helpers /\ frame.at \in DOMAIN Body(f) /\ item.field \in Fields /\ frame.at \in Direct(f)
  BY NotSettled DEF Direct
<1>2. frame.asks.kind = "received" => Receives(f)
  BY <1>1, ReceivesUnfolds
<1>3. frame.at \in Discharges(f, Closers)
  BY <1>1 DEF Discharges
<1>4. item.field \in Reads(f)
  BY <1>1, ReadsHas
<1> DEFINE whole == Learn(frame, {item.field}, TRUE).whole
           gain == Gain(frame, {item.field})
<1>5. IF frame.asks.kind = "fields" THEN item.field \in gain ELSE frame.at \in gain
  BY DEF Gain
<1> HIDE DEF whole, gain
<1>6. Covers(frame.asks, frame.at, gain, whole, A, m)
  BY <1>5 DEF Covers
<1> QED BY <1>1, <1>2, <1>3, <1>4, <1>6 DEF Adds, whole, gain

\* What is there in a callee is there in the caller.
LEMMA CallIsThere ==
  ASSUME HelpersOK, NEW f \in Helpers, NEW i \in DOMAIN Body(f), Body(f)[i].t = "call", NEW g, g = Body(f)[i].to
  PROVE  /\ g \in Calls(f) \cap Helpers
         /\ Receives(g) => Receives(f)
         /\ MustClose(g) => i \in Discharges(f, Closers)
         /\ Reads(g) \subseteq Reads(f)
<1>1. g \in Calls(f) \cap Helpers
  BY ItemTyped DEF Calls
<1> QED BY <1>1, ReceivesUnfolds, ReadsHas DEF Discharges, Closers

LEMMA AddsKnown ==
  ASSUME HelpersOK, NEW frame \in Frame, ~Settled(frame), NEW A, NEW m, MemoOK(m), NEW item,
         item = Body(frame.asks.of)[frame.at], item.t = "call", NEW q, q = Passed(frame, item), m[q].known
  PROVE  /\ frame.asks.kind = "fields" => m[q].says \subseteq Fields
         /\ Adds(frame, m[q].says, TRUE, A, m)
<1> DEFINE f == frame.asks.of
           g == item.to
           says == m[q].says
<1>1. /\ f \in Helpers /\ frame.at \in DOMAIN Body(f) /\ frame.asks.kind \in Kinds
      /\ q = [kind |-> frame.asks.kind, of |-> g]
  BY NotSettled, FrameTyped DEF Passed
<1>2. /\ g \in Helpers
      /\ Receives(g) => Receives(f)
      /\ MustClose(g) => frame.at \in Discharges(f, Closers)
      /\ Reads(g) \subseteq Reads(f)
  BY <1>1, CallIsThere
<1>3. /\ frame.asks.kind = "received" /\ says # {} => Receives(g)
      /\ frame.asks.kind = "closed" /\ says # {} => MustClose(g)
      /\ frame.asks.kind = "fields" => says = Reads(g)
  <2>1. /\ m[[kind |-> "received", of |-> g]].says # {} => Receives(g)
        /\ m[[kind |-> "closed", of |-> g]].says # {} => MustClose(g)
        /\ m[[kind |-> "fields", of |-> g]].known => m[[kind |-> "fields", of |-> g]].says = Reads(g)
    BY <1>2 DEF MemoOK
  <2>2. m[[kind |-> frame.asks.kind, of |-> g]].known /\ says = m[[kind |-> frame.asks.kind, of |-> g]].says
    BY <1>1
  <2> HIDE DEF says, g
  <2> QED BY <2>1, <2>2
<1>4. ReadsApart(g, A \cup {f}) \subseteq Reads(g) /\ Reads(g) \subseteq Fields
  BY <1>2, ReadsApartIsRead DEF Reads
<1> DEFINE whole == Learn(frame, says, TRUE).whole
           gain == Gain(frame, says)
<1>5. /\ frame.asks.kind = "fields" => gain = says
      /\ frame.asks.kind # "fields" /\ says # {} => frame.at \in gain
  BY DEF Gain
<1> HIDE DEF whole, gain
<1>6. Covers(frame.asks, frame.at, gain, whole, A, m)
  BY <1>1, <1>3, <1>4, <1>5 DEF Covers
<1> QED BY <1>1, <1>2, <1>3, <1>4, <1>6 DEF Adds, whole, gain

\* A callee that is being searched: nothing is read of it without the searches under way,
\* and there is a cycle.
LEMMA AddsCut ==
  ASSUME HelpersOK, NEW m, NEW st \in Seq(Frame), st # <<>>, StackOK(m, st), ~Settled(st[1]), NEW item,
         item = Body(st[1].asks.of)[st[1].at], item.t = "call",
         NEW k \in DOMAIN st, st[k].asks = Passed(st[1], item)
  PROVE  Adds(st[1], {}, FALSE, Below(st, 1), m)
<1> DEFINE frame == st[1]
           f == frame.asks.of
           A == Below(st, 1)
           g == item.to
<1>1. frame \in Frame /\ k \in Nat /\ k >= 1
  OBVIOUS
<1>2. f \in Helpers /\ frame.at \in DOMAIN Body(f) /\ g \in Calls(f) \cap Helpers
  BY <1>1, NotSettled
<1>3. st[k].asks.of = g
  BY DEF Passed
<1>4. g \in A \cup {f}
  BY <1>1, <1>3 DEF Below
<1>5. ReadsApart(g, A \cup {f}) = {}
  <2> DEFINE B == A \cup {f}
  <2>1. g \in B \cap Helpers
    BY <1>2, <1>4
  <2> HIDE DEF B, A, g
  <2>2. ReadsApart(g, B) = {}
    BY <2>1, ReadsApartInside
  <2> QED BY <2>2 DEF B
<1>6. ~Terminating(f)
  <2>1. \A j \in DOMAIN st : j # 1 => WaitsFor(st[j], st[j - 1].asks)
    BY DEF StackOK
  <2> QED BY <1>2, <1>3, <2>1, NoCycle
<1>7. Learn(frame, {}, FALSE).whole = (frame.whole /\ FALSE)
  BY <1>1, LearnTyped
<1> DEFINE whole == Learn(frame, {}, FALSE).whole
           gain == Gain(frame, {})
<1>8. ~whole
  BY <1>7
<1> HIDE DEF whole, gain, A
<1>9. Covers(frame.asks, frame.at, gain, whole, A, m)
  BY <1>5, <1>6, <1>8 DEF Covers
<1> QED BY <1>2, <1>9 DEF Adds, whole, gain, A

\* The answer of the search above, once it has been kept.
LEMMA AddsAnswer ==
  ASSUME HelpersOK, NEW m, MemoOK(m), NEW above \in Frame, NEW frame \in Frame, NEW A,
         Good(above, A \cup {frame.asks.of}, m), Settled(above), WaitsFor(frame, above.asks),
         NEW n, Keep(above) => n[above.asks] = Known(Outcome(above))
  PROVE  /\ frame.asks.kind = "fields" => Outcome(above) \subseteq Fields
         /\ Adds(frame, Outcome(above), above.whole, A, n)
<1> DEFINE f == frame.asks.of
           g == above.asks.of
           q == above.asks
           says == Outcome(above)
           item == Body(f)[frame.at]
           B == A \cup {f}
<1>1. /\ f \in Helpers /\ frame.at \in DOMAIN Body(f) /\ item.t = "call" /\ frame.asks.kind \in Kinds
      /\ q = [kind |-> frame.asks.kind, of |-> item.to] /\ g = item.to /\ q.kind = frame.asks.kind
      /\ above.whole \in BOOLEAN
  <2>1. f \in Helpers /\ frame.asks.kind \in Kinds /\ above.whole \in BOOLEAN
    BY FrameTyped
  <2>2. frame.at \in DOMAIN Body(f) /\ item.t = "call" /\ Passed(frame, item) = q
    BY DEF WaitsFor
  <2>3. q = [kind |-> frame.asks.kind, of |-> item.to]
    BY <2>2 DEF Passed
  <2> HIDE DEF f, item, q
  <2>4. g = item.to /\ q.kind = frame.asks.kind
    BY <2>3 DEF q
  <2> QED BY <2>1, <2>2, <2>3, <2>4
<1>2. /\ g \in Helpers
      /\ Receives(g) => Receives(f)
      /\ MustClose(g) => frame.at \in Discharges(f, Closers)
      /\ Reads(g) \subseteq Reads(f)
  <2> HIDE DEF g, f
  <2> QED BY <1>1, CallIsThere
<1>3. /\ frame.asks.kind = "received" /\ says # {} => Receives(g)
      /\ frame.asks.kind = "closed" /\ says # {} => MustClose(g)
      /\ frame.asks.kind = "fields" => says = above.got /\ says \subseteq Reads(g)
  <2> HIDE DEF B
  <2> QED BY <1>1, OutcomeTrue DEF B
<1>4. frame.asks.kind = "fields" => ReadsApart(g, B) \subseteq says
  <2> HIDE DEF B
  <2>1. Good(above, B, m)
    BY DEF B
  <2>2. above.asks.kind = "fields" => ReadsApart(above.asks.of, B) \subseteq above.got
    BY <2>1, FieldsApart
  <2> QED BY <1>1, <1>3, <2>2
<1>5. /\ frame.asks.kind # "fields" => n[q] = Known(says)
      /\ above.whole => n[q] = Known(says)
  BY <1>1 DEF Keep
<1>6. Known(says).known /\ Known(says).says = says
  BY DEF Known
<1>7. frame.asks.kind = "fields" => says \subseteq Fields
  BY <1>3 DEF Reads
<1> HIDE DEF says
<1>8. Learn(frame, says, above.whole).whole = (frame.whole /\ above.whole)
  BY <1>1, <1>7, LearnTyped
<1> DEFINE whole == Learn(frame, says, above.whole).whole
           gain == Gain(frame, says)
<1>9. /\ frame.asks.kind = "fields" => gain = says
      /\ frame.asks.kind # "fields" /\ says # {} => frame.at \in gain
      /\ whole => above.whole
  BY <1>8 DEF Gain
<1> HIDE DEF whole, gain
<1>10. Covers(frame.asks, frame.at, gain, whole, A, n)
  BY <1>1, <1>3, <1>4, <1>5, <1>6, <1>9 DEF Covers
<1>11. Adds(frame, says, above.whole, A, n)
  BY <1>1, <1>2, <1>3, <1>10 DEF Adds, whole, gain
<1> QED BY <1>7, <1>11 DEF says

-----------------------------------------------------------------------------
\* The steps

StepOK == /\ memo' \in Memo /\ stack' \in Seq(Frame)
          /\ StackOK(memo', stack') /\ MemoOK(memo') /\ ToldOK(told')

LEMMA TopTyped ==
  ASSUME Shape, stack # <<>>
  PROVE  Top = stack[1] /\ Top \in Frame /\ 1 \in DOMAIN stack
BY DEF Shape, Top

LEMMA AskStep ==
  ASSUME SearchesInv, NEW q \in Questions, Ask(q)
  PROVE  StepOK
<1>1. stack = <<>> /\ ~memo[q].known /\ stack' = <<Opened(q)>> /\ memo' = memo /\ told' = told
  BY DEF Ask
<1>2. HelpersOK /\ memo \in Memo /\ stack \in Seq(Frame) /\ StackOK(memo, stack) /\ MemoOK(memo) /\ ToldOK(told)
  BY DEF SearchesInv, Shape
<1> DEFINE new == <<Opened(q)>> \o stack
<1>3. (\A j \in DOMAIN stack : stack[j].asks # q) /\ (stack # <<>> => WaitsFor(stack[1], q))
  BY <1>1
<1>4. new \in Seq(Frame) /\ StackOK(memo, new)
  BY <1>1, <1>2, <1>3, StackPushes
<1>5. stack' = new
  BY <1>1, SearchOpens, <1>2
<1> HIDE DEF new
<1> QED BY <1>1, <1>2, <1>4, <1>5 DEF StepOK

LEMMA SearchDirectStep ==
  ASSUME SearchesInv, SearchDirect
  PROVE  StepOK
<1>1. /\ stack # <<>> /\ ~Settled(Top) /\ Here.t = "direct" /\ memo' = memo /\ told' = told
      /\ stack' = <<Learn(Top, {Here.field}, TRUE)>> \o Tail(stack)
  BY DEF SearchDirect
<1>2. HelpersOK /\ memo \in Memo /\ stack \in Seq(Frame) /\ StackOK(memo, stack) /\ MemoOK(memo) /\ ToldOK(told)
  BY DEF SearchesInv, Shape
<1>3. Top = stack[1] /\ Top \in Frame
  BY <1>1, TopTyped DEF SearchesInv
<1>4. Here = Body(stack[1].asks.of)[stack[1].at]
  BY <1>3 DEF Here
<1> DEFINE says == {Here.field}
<1>5. says \subseteq Fields /\ Adds(stack[1], says, TRUE, Below(stack, 1), memo)
  <2> DEFINE A == Below(stack, 1)
  <2> HIDE DEF A
  <2>1. Here.field \in Fields /\ Adds(stack[1], {Here.field}, TRUE, A, memo)
    BY <1>1, <1>2, <1>3, <1>4, AddsDirect
  <2> QED BY <2>1 DEF A
<1> HIDE DEF says
<1>6. stack' = <<Learn(stack[1], says, TRUE)>> \o Tail(stack)
  BY <1>1, <1>3 DEF says
<1>7. stack' \in Seq(Frame) /\ StackOK(memo, stack')
  BY <1>1, <1>2, <1>5, <1>6, StackLearns
<1> QED BY <1>1, <1>2, <1>7 DEF StepOK

LEMMA SearchAnsweredStep ==
  ASSUME SearchesInv, SearchAnswered
  PROVE  StepOK
<1> DEFINE q == Passed(Top, Here)
<1>1. stack # <<>> /\ ~Settled(Top) /\ Here.t = "call" /\ memo' = memo /\ told' = told
  BY DEF SearchAnswered
<1>2. HelpersOK /\ memo \in Memo /\ stack \in Seq(Frame) /\ StackOK(memo, stack) /\ MemoOK(memo) /\ ToldOK(told)
  BY DEF SearchesInv, Shape
<1>3. Top = stack[1] /\ Top \in Frame
  BY <1>1, TopTyped DEF SearchesInv
<1>4. Here = Body(stack[1].asks.of)[stack[1].at] /\ q = Passed(stack[1], Here)
  BY <1>3 DEF Here
<1>5. CASE memo[q].known /\ stack' = <<Learn(Top, memo[q].says, TRUE)>> \o Tail(stack)
  <2> DEFINE says == memo[q].says
             A == Below(stack, 1)
  <2> HIDE DEF A, q
  <2>1. (stack[1].asks.kind = "fields" => memo[q].says \subseteq Fields) /\ Adds(stack[1], memo[q].says, TRUE, A, memo)
    BY <1>1, <1>2, <1>3, <1>4, <1>5, AddsKnown
  <2>2. stack' = <<Learn(stack[1], says, TRUE)>> \o Tail(stack)
    BY <1>3, <1>5
  <2> HIDE DEF says
  <2>3. stack' \in Seq(Frame) /\ StackOK(memo, stack')
    BY <1>1, <1>2, <2>1, <2>2, StackLearns DEF A, says
  <2> QED BY <1>1, <1>2, <2>3 DEF StepOK
<1>6. CASE OnStack(q) /\ stack' = <<Learn(Top, {}, FALSE)>> \o Tail(stack)
  <2> DEFINE says == {}
  <2>1. PICK k \in DOMAIN stack : stack[k].asks = q
    BY <1>6 DEF OnStack
  <2>2. Adds(stack[1], {}, FALSE, Below(stack, 1), memo)
    <3> HIDE DEF q
    <3> QED BY <1>1, <1>2, <1>3, <1>4, <2>1, AddsCut
  <2>3. stack' = <<Learn(stack[1], says, FALSE)>> \o Tail(stack)
    BY <1>3, <1>6
  <2>4. says \subseteq Fields /\ Adds(stack[1], says, FALSE, Below(stack, 1), memo)
    BY <2>2
  <2> HIDE DEF says
  <2>5. stack' \in Seq(Frame) /\ StackOK(memo, stack')
    BY <1>1, <1>2, <2>3, <2>4, StackLearns
  <2> QED BY <1>1, <1>2, <2>5 DEF StepOK
<1> QED BY <1>5, <1>6 DEF SearchAnswered

LEMMA SearchDeeperStep ==
  ASSUME SearchesInv, SearchDeeper
  PROVE  StepOK
<1> DEFINE q == Passed(Top, Here)
           new == <<Opened(q)>> \o stack
<1>1. /\ stack # <<>> /\ ~Settled(Top) /\ Here.t = "call" /\ memo' = memo /\ told' = told
      /\ ~memo[q].known /\ ~OnStack(q) /\ stack' = new
  BY DEF SearchDeeper
<1>2. HelpersOK /\ memo \in Memo /\ stack \in Seq(Frame) /\ StackOK(memo, stack) /\ MemoOK(memo) /\ ToldOK(told)
  BY DEF SearchesInv, Shape
<1>3. Top = stack[1] /\ Top \in Frame
  BY <1>1, TopTyped DEF SearchesInv
<1>4. Here = Body(stack[1].asks.of)[stack[1].at] /\ q = Passed(stack[1], Here) /\ stack[1].at \in DOMAIN Body(stack[1].asks.of)
  BY <1>1, <1>2, <1>3, NotSettled DEF Here
<1>5. q \in Questions /\ WaitsFor(stack[1], q)
  BY <1>1, <1>2, <1>3, <1>4, PassedTyped DEF WaitsFor
<1>6. \A j \in DOMAIN stack : stack[j].asks # q
  BY <1>1 DEF OnStack
<1> HIDE DEF q
<1>7. new \in Seq(Frame) /\ StackOK(memo, new)
  BY <1>1, <1>2, <1>5, <1>6, StackPushes
<1> HIDE DEF new
<1> QED BY <1>1, <1>2, <1>7 DEF StepOK

LEMMA AnswerStep ==
  ASSUME SearchesInv, Answer
  PROVE  StepOK
<1> DEFINE says == Outcome(Top)
<1>1. /\ stack # <<>> /\ Settled(Top)
      /\ memo' = IF Keep(Top) THEN [memo EXCEPT ![Top.asks] = Known(says)] ELSE memo
      /\ IF Len(stack) = 1
         THEN stack' = <<>> /\ told' = <<Top.asks, says>>
         ELSE stack' = <<Learn(stack[2], says, Top.whole)>> \o Tail(Tail(stack)) /\ told' = told
  BY DEF Answer
<1>2. HelpersOK /\ memo \in Memo /\ stack \in Seq(Frame) /\ StackOK(memo, stack) /\ MemoOK(memo) /\ ToldOK(told)
  BY DEF SearchesInv, Shape
<1>3. Top = stack[1] /\ Top \in Frame /\ 1 \in DOMAIN stack /\ Top.asks \in Questions /\ Top.whole \in BOOLEAN
  BY <1>1, TopTyped, FrameTyped DEF SearchesInv
<1>4. Good(Top, Below(stack, 1), memo)
  BY <1>2, <1>3 DEF StackOK
<1>5. memo' \in Memo /\ MemoOK(memo')
  <2>1. CASE Keep(Top)
    <3> DEFINE n == [memo EXCEPT ![Top.asks] = Known(Outcome(Top))]
               A == Below(stack, 1)
    <3>1. memo' = n
      BY <1>1, <2>1
    <3> HIDE DEF n, A
    <3>2. Good(Top, A, memo)
      BY <1>4 DEF A
    <3>3. n \in Memo /\ MemoOK(n)
      BY <1>1, <1>2, <1>3, <2>1, <3>2, MemoLearns DEF n
    <3> QED BY <3>1, <3>3
  <2>2. CASE ~Keep(Top)
    BY <1>1, <1>2, <2>2
  <2> QED BY <2>1, <2>2
<1>6. \A q \in Questions : q # stack[1].asks => memo'[q] = memo[q]
  BY <1>1, <1>2, <1>3 DEF Memo
<1>7. Keep(Top) => memo'[Top.asks] = Known(says)
  BY <1>1, <1>2, <1>3 DEF Memo
<1> DEFINE rest == Tail(stack)
<1>8. rest \in Seq(Frame) /\ StackOK(memo', rest)
  BY <1>1, <1>2, <1>6, StackPops
<1>9. CASE Len(stack) = 1
  <2>1. stack' = <<>> /\ told' = <<Top.asks, says>>
    BY <1>1, <1>9
  <2>2. rest = <<>>
    <3>1. rest \in Seq(Frame) /\ Len(rest) = 0
      BY <1>1, <1>2, <1>9
    <3> HIDE DEF rest
    <3> QED BY <3>1
  <2>3. Below(stack, 1) = {}
    BY <1>2, <1>9 DEF Below
  <2>4. Top.asks.kind = "fields" => says = Reads(Top.asks.of)
    <3> DEFINE A == Below(stack, 1)
    <3>1. Good(Top, A, memo) /\ A = {}
      BY <1>4, <2>3
    <3> HIDE DEF A
    <3> QED BY <1>1, <1>2, <1>3, <3>1, OutcomeTrue
  <2> HIDE DEF says, rest
  <2>5. ToldOK(told')
    BY <2>1, <2>4 DEF ToldOK
  <2> QED BY <1>5, <1>8, <2>1, <2>2, <2>5 DEF StepOK
<1>10. CASE Len(stack) # 1
  <2>1. stack' = <<Learn(stack[2], says, Top.whole)>> \o Tail(rest) /\ told' = told
    BY <1>1, <1>10
  <2>2. 2 \in DOMAIN stack /\ rest[1] = stack[2] /\ rest # <<>> /\ stack[2] \in Frame
    <3>1. Len(stack) \in Nat /\ DOMAIN stack = 1 .. Len(stack) /\ Len(stack) > 1
      BY <1>1, <1>2, <1>10
    <3>2. 2 \in DOMAIN stack
      BY <3>1
    <3>3. Len(rest) = Len(stack) - 1 /\ rest \in Seq(Frame)
      BY <1>1, <1>2
    <3>4. rest[1] = stack[2]
      BY <1>1, <1>2, <3>1
    <3>5. rest # <<>>
      <4> HIDE DEF rest
      <4> QED BY <3>1, <3>3
    <3> QED BY <1>2, <3>2, <3>4, <3>5
  <2>3. WaitsFor(stack[2], Top.asks)
    <3>1. \A j \in DOMAIN stack : \A k : j # 1 /\ k = j - 1 => WaitsFor(stack[j], stack[k].asks)
      BY <1>2 DEF StackOK
    <3>2. WaitsFor(stack[2], stack[1].asks)
      BY <2>2, <3>1
    <3> QED BY <1>3, <3>2
  <2>4. Below(stack, 1) = Below(rest, 1) \cup {stack[2].asks.of}
    <3>1. /\ Len(stack) \in Nat /\ DOMAIN stack = 1 .. Len(stack) /\ DOMAIN rest = 1 .. Len(stack) - 1
          /\ \A j \in DOMAIN rest : rest[j] = stack[j + 1]
      BY <1>1, <1>2
    <3> HIDE DEF rest
    <3>2. ASSUME NEW j \in DOMAIN stack, 1 < j PROVE stack[j].asks.of \in Below(rest, 1) \cup {stack[2].asks.of}
      <4>1. j = 2 \/ (j - 1 \in DOMAIN rest /\ 1 < j - 1 /\ (j - 1) + 1 = j)
        BY <3>1, <3>2
      <4>2. CASE j = 2
        BY <4>2
      <4>3. CASE j - 1 \in DOMAIN rest /\ 1 < j - 1 /\ (j - 1) + 1 = j
        <5>1. rest[j - 1] = stack[j]
          BY <3>1, <4>3
        <5> QED BY <4>3, <5>1 DEF Below
      <4> QED BY <4>1, <4>2, <4>3
    <3>3. ASSUME NEW j \in DOMAIN rest, 1 < j PROVE rest[j].asks.of \in Below(stack, 1)
      <4>1. j + 1 \in DOMAIN stack /\ 1 < j + 1 /\ rest[j] = stack[j + 1]
        BY <3>1, <3>3
      <4> QED BY <4>1 DEF Below
    <3>4. stack[2].asks.of \in Below(stack, 1)
      BY <2>2 DEF Below
    <3> QED BY <3>2, <3>3, <3>4 DEF Below
  <2> DEFINE A == Below(rest, 1)
  <2>5. Good(Top, A \cup {stack[2].asks.of}, memo)
    BY <1>4, <2>4
  <2>6. /\ stack[2].asks.kind = "fields" => says \subseteq Fields
        /\ Adds(stack[2], says, Top.whole, A, memo')
    <3> HIDE DEF A
    <3> QED BY <1>1, <1>2, <1>3, <1>7, <2>2, <2>3, <2>5, AddsAnswer
  <2> HIDE DEF rest, says
  <2>7. stack' \in Seq(Frame) /\ StackOK(memo', stack')
    BY <1>3, <1>8, <2>1, <2>2, <2>6, <1>2, StackLearns
  <2> QED BY <1>2, <1>5, <2>1, <2>7 DEF StepOK
<1> QED BY <1>9, <1>10

-----------------------------------------------------------------------------
\* The helpers stay as they are, and with them all that is true of them.

LEMMA HelpersStay ==
  ASSUME helpers' = helpers
  PROVE  /\ \A f : Receives(f)' <=> Receives(f)
         /\ \A f : MustClose(f)' <=> MustClose(f)
         /\ \A f : Reads(f)' = Reads(f)
         /\ \A f : Terminating(f)' <=> Terminating(f)
<1>1. \A f : Body(f)' = Body(f) /\ Returns(f)' = Returns(f)
  BY DEF Body, Returns
<1>2. \A f : Calls(f)' = Calls(f) /\ Direct(f)' = Direct(f)
  BY <1>1 DEF Calls, Direct
<1>3. \A f, S : Discharges(f, S)' = Discharges(f, S)
  BY <1>1, <1>2 DEF Discharges
<1>4. \A S : ReceiveClosed(S)' <=> ReceiveClosed(S)
  BY <1>2 DEF ReceiveClosed
<1>5. \A S : CloseClosed(S)' <=> CloseClosed(S)
  BY <1>1, <1>3 DEF CloseClosed
<1>6. \A S, x : ReadClosed(S, x)' <=> ReadClosed(S, x)
  BY <1>1, <1>2 DEF ReadClosed
<1>7. \A S : (CallClosed(S)' <=> CallClosed(S)) /\ (WellFounded(S)' <=> WellFounded(S))
  BY <1>2 DEF CallClosed, WellFounded
<1>8. \A f : Receives(f)' <=> Receives(f)
  BY <1>4 DEF Receives
<1>9. \A f : MustClose(f)' <=> MustClose(f)
  BY <1>5 DEF MustClose
<1>10. \A f : Reads(f)' = Reads(f)
  BY <1>6 DEF Reads
<1>11. \A f : Terminating(f)' <=> Terminating(f)
  BY <1>7 DEF Terminating
<1> QED BY <1>8, <1>9, <1>10, <1>11

LEMMA FramesStay ==
  ASSUME helpers' = helpers
  PROVE  /\ \A frame, A, m : Good(frame, A, m)' <=> Good(frame, A, m)
         /\ \A frame, q : WaitsFor(frame, q)' <=> WaitsFor(frame, q)
<1>1. \A f : Body(f)' = Body(f)
  BY DEF Body
<1>2. \A f : Calls(f)' = Calls(f) /\ Direct(f)' = Direct(f)
  BY <1>1 DEF Calls, Direct
<1>3. \A S, x, A : ReadClosedApart(S, x, A)' <=> ReadClosedApart(S, x, A)
  BY <1>1, <1>2 DEF ReadClosedApart
<1>4. \A f, A : ReadsApart(f, A)' = ReadsApart(f, A)
  BY <1>3 DEF ReadsApart
<1>5. Closers' = Closers
  BY HelpersStay DEF Closers
<1>6. \A f : Discharges(f, Closers)' = Discharges(f, Closers)
  BY <1>1, <1>2, <1>5 DEF Discharges
<1>7. \A frame : Real(frame)' <=> Real(frame)
  BY <1>6, HelpersStay DEF Real
<1>8. \A asks, i, got, whole, A, m : Covers(asks, i, got, whole, A, m)' <=> Covers(asks, i, got, whole, A, m)
  BY <1>1, <1>4, HelpersStay DEF Covers
<1>9. \A frame, A, m : Past(frame, A, m)' <=> Past(frame, A, m)
  BY <1>1, <1>8 DEF Past
<1>10. \A frame, A, m : Good(frame, A, m)' <=> Good(frame, A, m)
  BY <1>7, <1>9 DEF Good
<1>11. \A frame, q : WaitsFor(frame, q)' <=> WaitsFor(frame, q)
  BY <1>1 DEF WaitsFor, Passed
<1> QED BY <1>10, <1>11

LEMMA InvStays ==
  ASSUME HelpersOK, helpers' = helpers, StepOK
  PROVE  SearchesInv'
<1>1. Shape'
  BY DEF Shape, HelpersOK, StepOK
<1>2. MemoOK(memo)'
  BY HelpersStay DEF MemoOK, StepOK
<1>3. ToldOK(told)'
  BY HelpersStay DEF ToldOK, StepOK
<1>4. StackOK(memo, stack)'
  BY FramesStay DEF StackOK, StepOK
<1> QED BY <1>1, <1>2, <1>3, <1>4 DEF SearchesInv

-----------------------------------------------------------------------------
\* The specification

OwnerOK ==
  /\ owner.kind \in {"channel", "context"} /\ owner.params \subseteq Places
  /\ owner.asks \subseteq Questions
  /\ Len(owner.body) \in Nat /\ DOMAIN owner.body = 1 .. Len(owner.body)
  /\ \A j \in DOMAIN owner.body : Statement(owner.body[j], owner.kind)

LEMMA StatementsTyped ==
  ASSUME OwnerOK, NEW j \in DOMAIN owner.body
  PROVE  LET stmt == owner.body[j] IN
         /\ Op(j) = "make" => stmt.dst \in Places
         /\ Op(j) = "derive" => owner.kind = "context" /\ stmt.dst \in Vars /\ stmt.src \in Places
         /\ Op(j) = "store" => stmt.dst \in Places /\ stmt.src \in Places
         /\ Op(j) = "build" => stmt.dst \in Holders /\ stmt.src \in Places
         /\ Op(j) = "alias" => \/ stmt.dst \in Pointers /\ stmt.src \in Pointers
                               \/ stmt.dst \in Structs /\ stmt.src \in Structs
         /\ Op(j) = "spawn" => stmt.src \in Places /\ stmt.in \in Helpers
         /\ Op(j) = "stop" => stmt.src \in Places /\ stmt.in \in Helpers \cup {"none"}
<1>1. Statement(owner.body[j], owner.kind)
  BY DEF OwnerOK
<1> QED BY <1>1 DEF Statement, Op

LEMMA NeedsTyped ==
  ASSUME OwnerOK
  PROVE  owner.asks \cup Needs \subseteq Questions
<1>1. \A i \in At("spawn") : owner.body[i].in \in Helpers
  BY StatementsTyped DEF At
<1>2. \A i \in At("stop") : owner.body[i].in # "none" => owner.body[i].in \in Helpers
  BY StatementsTyped DEF At
<1>3. Needs \subseteq Questions
  BY <1>1, <1>2 DEF Needs, Questions, Kinds
<1> QED BY <1>3 DEF OwnerOK

LEMMA InvStarts ==
  ASSUME Init
  PROVE  OwnerOK /\ SearchesInv
<1>1. PICK i \in DOMAIN Programs : \E program \in Programs[i] : helpers = program.helpers /\ owner = program.owner
  BY DEF Init
<1>2. PICK program \in Programs[i] : helpers = program.helpers /\ owner = program.owner
  BY <1>1
<1>3. /\ HelpersOK /\ owner.asks \subseteq Questions
      /\ owner.kind \in {"channel", "context"} /\ owner.params \subseteq Places
      /\ owner.body \in Seq({owner.body[j] : j \in DOMAIN owner.body})
      /\ \A j \in DOMAIN owner.body : Statement(owner.body[j], owner.kind)
  <2>1. /\ program.helpers \in [Helpers -> [body : Seq(Items), returns : SUBSET SUBSET Nat]]
        /\ program.owner.kind \in {"channel", "context"} /\ program.owner.params \subseteq Places
        /\ program.owner.asks \subseteq Questions
        /\ \A j \in DOMAIN program.owner.body : Statement(program.owner.body[j], program.owner.kind)
    BY ProgramsAssumption
  <2>2. program.owner.body \in Seq({program.owner.body[j] : j \in DOMAIN program.owner.body})
    BY ProgramsAssumption, Zenon
  <2>3. owner.body \in Seq({owner.body[j] : j \in DOMAIN owner.body})
    BY <1>2, <2>2, Zenon
  <2> QED BY <1>2, <2>1, <2>3 DEF HelpersOK
<1>4. OwnerOK
  <2> DEFINE stmts == {owner.body[j] : j \in DOMAIN owner.body}
  <2>1. Len(owner.body) \in Nat /\ DOMAIN owner.body = 1 .. Len(owner.body)
    <3>1. owner.body \in Seq(stmts)
      BY <1>3
    <3> HIDE DEF stmts
    <3> QED BY <3>1, LenProperties
  <2> QED BY <1>3, <2>1 DEF OwnerOK
<1>5. memo = [q \in Questions |-> Unknown] /\ stack = <<>> /\ told = <<>>
  BY DEF Init, SummaryInit
<1>6. Shape
  BY <1>3, <1>5 DEF Shape, Memo, Unknown
<1>7. StackOK(memo, stack)
  BY <1>5 DEF StackOK
<1>8. MemoOK(memo)
  BY <1>5 DEF MemoOK, Unknown, Questions, Kinds
<1>9. ToldOK(told)
  BY <1>5 DEF ToldOK
<1> QED BY <1>4, <1>6, <1>7, <1>8, <1>9 DEF SearchesInv

LEMMA InvStep ==
  ASSUME OwnerOK, SearchesInv, [Next]_vars
  PROVE  OwnerOK' /\ SearchesInv'
<1>1. HelpersOK
  BY DEF SearchesInv, Shape
<1>2. CASE UNCHANGED summaryVars /\ owner' = owner
  <2>1. StepOK /\ helpers' = helpers
    BY <1>2 DEF summaryVars, SearchesInv, Shape, StepOK
  <2> QED BY <1>1, <1>2, <2>1, InvStays DEF OwnerOK, Op
<1>3. CASE AskSome
  <2>1. PICK q \in owner.asks \cup Needs : Ask(q)
    BY <1>3 DEF AskSome
  <2>2. StepOK
    BY <2>1, NeedsTyped, AskStep
  <2>3. helpers' = helpers /\ owner' = owner
    BY <1>3, <2>1 DEF AskSome, Ask, ownerVars
  <2> QED BY <1>1, <2>2, <2>3, InvStays DEF OwnerOK, Op
<1>4. CASE SearchSome
  <2>1. StepOK
    BY <1>4, SearchDirectStep, SearchAnsweredStep, SearchDeeperStep, AnswerStep DEF SearchSome, Search
  <2>2. helpers' = helpers /\ owner' = owner
    BY <1>4 DEF SearchSome, Search, SearchDirect, SearchAnswered, SearchDeeper, Answer, ownerVars
  <2> QED BY <1>1, <2>1, <2>2, InvStays DEF OwnerOK, Op
<1>5. CASE Judge
  BY <1>2, <1>5 DEF Judge
<1>6. CASE Advance
  BY <1>2, <1>6 DEF Advance
<1>7. CASE UNCHANGED vars
  BY <1>2, <1>7 DEF vars, ownerVars
<1> QED BY <1>3, <1>4, <1>5, <1>6, <1>7 DEF Next, Skip, RunMake, RunDerive, RunStore, RunBuild, RunAlias,
        RunSpawn, RunStop, RunWait

LEMMA SearchesInvariant == Spec => [](OwnerOK /\ SearchesInv)
<1>1. Init => OwnerOK /\ SearchesInv
  BY InvStarts
<1>2. OwnerOK /\ SearchesInv /\ [Next]_vars => (OwnerOK /\ SearchesInv)'
  BY InvStep
<1> QED BY <1>1, <1>2, PTL DEF Spec

\* A helper of which it is said that it ends on a channel, or closes it on every return, does,
\* whatever was asked before and whatever cycles were cut (channelParamIsReceived,
\* channelParamMustClose).
THEOREM YesCorrect == Spec => []YesIsReal
<1>1. SearchesInv => YesIsReal
  BY DEF SearchesInv, MemoOK, YesIsReal
<1> QED BY <1>1, SearchesInvariant, PTL

\* Where helpers do not call each other in a ring, it is also true of a "no" that is kept.
THEOREM NoCorrect == Spec => []NoIsRealOutsideCycles
<1>1. ASSUME SearchesInv PROVE NoIsRealOutsideCycles
  <2>1. Known({}).known /\ Known({}).says = {}
    BY DEF Known
  <2> QED BY <1>1, <2>1 DEF SearchesInv, MemoOK, NoIsRealOutsideCycles
<1> QED BY <1>1, SearchesInvariant, PTL

\* The context fields that are kept for a helper, and those told to who asks, are the ones it
\* reads, in rings of calls too (contextFieldsUsedByParam).
THEOREM FieldsCorrect == Spec => []FieldsExact
<1>1. SearchesInv => FieldsExact
  BY DEF SearchesInv, MemoOK, ToldOK, FieldsExact
<1> QED BY <1>1, SearchesInvariant, PTL

-----------------------------------------------------------------------------
\* Numbers

LEMMA LeastNumber ==
  ASSUME NEW S \in SUBSET Nat, S # {}
  PROVE  \E m \in S : \A n \in S : m <= n
<1>1. PICK m \in S : \A n \in S : ~(<<n, m>> \in OpToRel(<, Nat))
  BY NatLessThanWellFounded, WFMin
<1>2. ASSUME NEW n \in S PROVE m <= n
  <2>1. n \in Nat /\ m \in Nat
    OBVIOUS
  <2>2. ~(n < m)
    BY <1>1, <2>1 DEF OpToRel
  <2> QED BY <2>1, <2>2
<1> QED BY <1>2

\* A set of numbers up to n that has 0 and with each its successor has them all.
LEMMA Climb ==
  ASSUME NEW n \in Nat, NEW S, 0 \in S, \A k \in 1 .. n : k - 1 \in S => k \in S
  PROVE  0 .. n \subseteq S
<1> DEFINE Rest == (0 .. n) \ S
<1> SUFFICES ASSUME Rest # {} PROVE FALSE
  OBVIOUS
<1>1. PICK m \in Rest : \A k \in Rest : m <= k
  <2>1. Rest \in SUBSET Nat
    OBVIOUS
  <2> HIDE DEF Rest
  <2> QED BY <2>1, LeastNumber
<1>2. m \in 1 .. n /\ m - 1 \in 0 .. n /\ ~(m <= m - 1)
  OBVIOUS
<1>3. m - 1 \in S
  BY <1>1, <1>2
<1> QED BY <1>2, <1>3

\* What is defined step by step is there: the function that starts with s and goes on by F.
LEMMA StepByStep ==
  ASSUME NEW S, NEW s \in S, NEW n \in Nat, NEW F \in [1 .. n -> [S -> S]]
  PROVE  \E g \in [0 .. n -> S] : g[0] = s /\ \A k \in 1 .. n : g[k] = F[k][g[k - 1]]
<1> DEFINE Upto(m, g) == g[0] = s /\ \A k \in 1 .. m : g[k] = F[k][g[k - 1]]
           There == {m \in 0 .. n : \E g \in [0 .. m -> S] : Upto(m, g)}
<1>1. 0 \in There
  <2> DEFINE g == [k \in 0 .. 0 |-> s]
  <2>1. g \in [0 .. 0 -> S] /\ Upto(0, g) /\ 0 \in 0 .. n
    OBVIOUS
  <2> HIDE DEF g, Upto
  <2> QED BY <2>1
<1>2. ASSUME NEW m \in 1 .. n, m - 1 \in There PROVE m \in There
  <2>1. m \in Nat /\ m - 1 \in Nat /\ m - 1 < m /\ m \in 0 .. n
    OBVIOUS
  <2>2. PICK g \in [0 .. m - 1 -> S] : Upto(m - 1, g)
    BY <1>2
  <2>3. g[m - 1] \in S /\ F[m] \in [S -> S]
    BY <2>1
  <2> DEFINE h == [k \in 0 .. m |-> IF k = m THEN F[m][g[m - 1]] ELSE g[k]]
  <2>4. h \in [0 .. m -> S]
    <3>1. \A k \in 0 .. m : k # m => k \in 0 .. m - 1
      BY <2>1
    <3> QED BY <2>3, <3>1
  <2>5. h[0] = s
    BY <2>1, <2>2
  <2>6. ASSUME NEW k \in 1 .. m PROVE h[k] = F[k][h[k - 1]]
    <3>1. k \in 0 .. m /\ k - 1 \in 0 .. m /\ k - 1 # m
      BY <2>1
    <3>2. h[k - 1] = g[k - 1]
      BY <3>1
    <3>3. CASE k = m
      BY <3>1, <3>2, <3>3
    <3>4. CASE k # m
      <4>1. k \in 1 .. m - 1
        BY <2>1, <3>4
      <4> QED BY <2>2, <3>1, <3>2, <3>4, <4>1
    <3> QED BY <3>3, <3>4
  <2>7. Upto(m, h)
    BY <2>5, <2>6
  <2> HIDE DEF h, Upto
  <2> QED BY <2>1, <2>4, <2>7
<1>3. 0 .. n \subseteq There
  <2> HIDE DEF There
  <2> QED BY <1>1, <1>2, Climb
<1>4. n \in There
  BY <1>3
<1> QED BY <1>4

-----------------------------------------------------------------------------
\* Pointers

LEMMA WrittenOnce ==
  ASSUME OwnerOK, NEW h, Stable(h), NEW i \in Writes(h), NEW j \in Writes(h)
  PROVE  i = j
<1> SUFFICES ASSUME i # j PROVE FALSE
  OBVIOUS
<1>1. IsFiniteSet(Writes(h))
  <2>1. Writes(h) \subseteq 1 .. Len(owner.body) /\ Len(owner.body) \in Nat
    BY DEF Writes, At, OwnerOK
  <2>2. IsFiniteSet(1 .. Len(owner.body))
    BY <2>1, FS_Interval
  <2> QED BY <2>1, <2>2, FS_Subset
<1>2. IsFiniteSet({i, j}) /\ Cardinality({i, j}) <= Cardinality(Writes(h))
  <2>1. {i, j} \subseteq Writes(h)
    OBVIOUS
  <2> QED BY <1>1, <2>1, FS_Subset
<1>3. IsFiniteSet({j}) /\ Cardinality({j}) = 1
  BY FS_Singleton
<1>4. Cardinality({i, j}) = 2
  <2>1. {i, j} = {j} \cup {i} /\ i \notin {j}
    OBVIOUS
  <2>2. Cardinality({j} \cup {i}) = Cardinality({j}) + 1
    BY <1>3, <2>1, FS_AddElement
  <2> QED BY <1>3, <2>1, <2>2
<1>5. Cardinality(Writes(h)) \in Nat /\ Cardinality(Writes(h)) <= 1
  BY <1>1, FS_CardinalityType DEF Stable
<1> QED BY <1>2, <1>4, <1>5

\* A pointer that is only ever an alias is an alias of what it is assigned.
LEMMA AliasIs ==
  ASSUME OwnerOK, \A h \in Pointers : Stable(h), NEW i \in At("alias"), owner.body[i].dst \in Pointers
  PROVE  owner.body[i].src \in Pointers /\ AliasOf(owner.body[i].dst) = owner.body[i].src
<1> DEFINE h == owner.body[i].dst
<1>1. i \in DOMAIN owner.body /\ Op(i) = "alias"
  BY DEF At
<1>2. owner.body[i].src \in Pointers
  BY <1>1, StatementsTyped, PlacesAssumption
<1>3. i \in AliasWrites(h) /\ AliasWrites(h) \subseteq Writes(h)
  BY DEF AliasWrites, Writes
<1>4. \A j \in AliasWrites(h) : j = i
  <2> HIDE DEF h
  <2>1. Stable(h)
    BY DEF h
  <2> QED BY <1>3, <2>1, WrittenOnce
<1>5. i \in Nat
  BY <1>1 DEF OwnerOK
<1>6. LastAlias(h) = i
  BY <1>3, <1>4, <1>5 DEF LastAlias
<1> QED BY <1>2, <1>3, <1>6 DEF AliasOf

\* What the chain from h comes to that is no alias: at most one, and none if it goes round.
Anchors(h) == {r \in Chain(h) : AliasOf(r) = r}

LEMMA AnchorsOfAlias ==
  ASSUME NEW p \in Pointers, AliasOf(p) \in Pointers
  PROVE  Anchors(p) = Anchors(AliasOf(p))
<1> DEFINE q == AliasOf(p)
           Closed(S) == \A x \in S : AliasOf(x) \in S
<1>1. ASSUME NEW r \in Anchors(q) PROVE r \in Anchors(p)
  BY <1>1 DEF Anchors, Chain
<1>2. ASSUME NEW r \in Anchors(p) PROVE r \in Anchors(q)
  <2>1. r \in Pointers /\ AliasOf(r) = r
    BY <1>2 DEF Anchors, Chain
  <2>2. ASSUME NEW S \in SUBSET Pointers, q \in S, Closed(S) PROVE r \in S
    <3>1. S \cup {p} \in SUBSET Pointers /\ p \in S \cup {p} /\ Closed(S \cup {p})
      BY <2>2
    <3>2. r \in S \cup {p}
      BY <1>2, <3>1 DEF Anchors, Chain
    <3>3. CASE r = p
      BY <2>1, <2>2, <3>3
    <3> QED BY <3>2, <3>3
  <2> QED BY <2>1, <2>2 DEF Anchors, Chain
<1> QED BY <1>1, <1>2

\* A pointer whose chain comes to one that is no alias is on no cycle, unless it is that one.
LEMMA AnchoredOnNoCycle ==
  ASSUME NEW p \in Pointers, AliasOf(p) \in Pointers, AliasOf(p) # p, Anchors(AliasOf(p)) # {}
  PROVE  ~Ends(p)
<1> DEFINE q == AliasOf(p)
           C == {x \in Pointers : p \in Chain(x)}
<1> SUFFICES ASSUME p \in Chain(q) PROVE FALSE
  BY DEF Ends
<1>1. PICK r \in Pointers : r \in Chain(q) /\ AliasOf(r) = r
  BY DEF Anchors, Chain
<1>2. C \in SUBSET Pointers /\ q \in C
  OBVIOUS
<1>3. ASSUME NEW x \in C PROVE AliasOf(x) \in C
  <2>1. AliasOf(x) \in Pointers
    BY DEF AliasOf
  <2>2. CASE x = p
    BY <1>2, <2>2
  <2>3. CASE x # p
    <3>1. ASSUME NEW S \in SUBSET Pointers, AliasOf(x) \in S, \A y \in S : AliasOf(y) \in S
          PROVE  p \in S
      <4>1. S \cup {x} \in SUBSET Pointers /\ x \in S \cup {x} /\ \A y \in S \cup {x} : AliasOf(y) \in S \cup {x}
        BY <3>1
      <4>2. p \in S \cup {x}
        BY <4>1 DEF Chain
      <4> QED BY <2>3, <4>2
    <3>2. p \in Chain(AliasOf(x))
      BY <3>1 DEF Chain
    <3> QED BY <2>1, <3>2
  <2> QED BY <2>2, <2>3
<1>4. r \in C
  <2> HIDE DEF C, q
  <2> QED BY <1>1, <1>2, <1>3 DEF Chain
<1>5. p \in {r}
  <2>1. {r} \in SUBSET Pointers /\ r \in {r} /\ \A y \in {r} : AliasOf(y) \in {r}
    BY <1>1
  <2>2. p \in Chain(r)
    BY <1>4
  <2> QED BY <2>1, <2>2 DEF Chain
<1> QED BY <1>1, <1>5

LEMMA AnchorIsRoot ==
  ASSUME NEW h \in Pointers, NEW a \in Anchors(h)
  PROVE  a \in Roots(h)
<1>1. a \in Pointers /\ a \in Chain(h) /\ AliasOf(a) = a
  BY DEF Anchors, Chain
<1>2. Ends(a)
  BY <1>1 DEF Ends, Chain
<1>3. ASSUME NEW S \in SUBSET Pointers, h \in S, \A x \in S : ~Ends(x) => AliasOf(x) \in S
      PROVE  a \in S
  <2> DEFINE T == {x \in S : Anchors(x) # {}}
  <2>1. T \in SUBSET Pointers /\ h \in T
    BY <1>3
  <2>2. ASSUME NEW x \in T PROVE AliasOf(x) \in T
    <3>1. AliasOf(x) \in Pointers
      BY DEF AliasOf
    <3>2. Anchors(AliasOf(x)) # {}
      BY <3>1, AnchorsOfAlias
    <3>3. CASE AliasOf(x) = x
      BY <3>3
    <3>4. CASE AliasOf(x) # x
      <4>1. ~Ends(x)
        BY <3>1, <3>2, <3>4, AnchoredOnNoCycle
      <4> QED BY <1>3, <3>2, <4>1
    <3> QED BY <3>3, <3>4
  <2>3. a \in T
    <3> HIDE DEF T
    <3> QED BY <1>1, <2>1, <2>2 DEF Chain
  <2> QED BY <2>3
<1> QED BY <1>1, <1>2, <1>3 DEF Roots

LEMMA RootsOfAlias ==
  ASSUME NEW p \in Pointers, AliasOf(p) \in Pointers, Anchors(AliasOf(p)) # {}
  PROVE  Roots(p) = Roots(AliasOf(p))
<1> DEFINE q == AliasOf(p)
           Closed(S) == \A x \in S : ~Ends(x) => AliasOf(x) \in S
<1>1. CASE q = p
  BY <1>1
<1>2. CASE q # p
  <2>1. ~Ends(p)
    BY <1>2, AnchoredOnNoCycle
  <2>2. ASSUME NEW r \in Roots(q) PROVE r \in Roots(p)
    BY <2>1, <2>2 DEF Roots
  <2>3. ASSUME NEW r \in Roots(p) PROVE r \in Roots(q)
    <3>1. r \in Pointers /\ Ends(r)
      BY <2>3 DEF Roots
    <3>2. ASSUME NEW S \in SUBSET Pointers, q \in S, Closed(S) PROVE r \in S
      <4>1. S \cup {p} \in SUBSET Pointers /\ p \in S \cup {p} /\ Closed(S \cup {p})
        BY <3>2
      <4>2. r \in S \cup {p}
        BY <2>3, <4>1 DEF Roots
      <4> QED BY <2>1, <3>1, <4>2
    <3> QED BY <3>1, <3>2 DEF Roots
  <2> QED BY <2>2, <2>3
<1> QED BY <1>1, <1>2

LEMMA BaseTyped ==
  ASSUME NEW place \in Places
  PROVE  /\ CanonicalBase(place) \in Places
         /\ place \in Pointers => CanonicalBase(place) \in Pointers
         /\ place \notin Pointers => CanonicalBase(place) = place
<1>1. Roots(place) \subseteq Pointers
  BY DEF Roots
<1>2. Pointers \subseteq Places
  BY DEF Places, Holders
<1>3. CASE place \in Pointers /\ AliasOf(place) # place /\ Roots(place) # {}
  <2>1. CanonicalBase(place) = CHOOSE r \in Roots(place) : TRUE
    BY <1>3 DEF CanonicalBase
  <2>2. CanonicalBase(place) \in Roots(place)
    BY <1>3, <2>1
  <2> QED BY <1>1, <1>2, <1>3, <2>2
<1>4. CASE ~(place \in Pointers /\ AliasOf(place) # place /\ Roots(place) # {})
  BY <1>4 DEF CanonicalBase
<1> QED BY <1>3, <1>4

\* A pointer that is no alias is its own root.
LEMMA FixedIsRoot ==
  ASSUME NEW p \in Pointers, AliasOf(p) = p
  PROVE  p \in Anchors(p) /\ Roots(p) = {p} /\ CanonicalBase(p) = p
<1>1. p \in Chain(p) /\ Ends(p)
  BY DEF Ends, Chain
<1>2. p \in Roots(p)
  BY <1>1 DEF Roots
<1>3. ASSUME NEW r \in Roots(p) PROVE r = p
  <2>1. {p} \in SUBSET Pointers /\ p \in {p} /\ \A x \in {p} : ~Ends(x) => AliasOf(x) \in {p}
    OBVIOUS
  <2>2. r \in {p}
    BY <1>3, <2>1 DEF Roots
  <2> QED BY <2>2
<1>4. Roots(p) = {p}
  BY <1>2, <1>3
<1>5. CanonicalBase(p) = p
  BY DEF CanonicalBase
<1> QED BY <1>1, <1>4, <1>5 DEF Anchors

\* What is one with something that is no alias has the root of what it is assigned.
LEMMA BaseOfAlias ==
  ASSUME NEW p \in Pointers, AliasOf(p) \in Pointers, Anchors(AliasOf(p)) # {}
  PROVE  Anchors(p) # {} /\ CanonicalBase(p) = CanonicalBase(AliasOf(p))
<1> DEFINE q == AliasOf(p)
<1>1. Roots(p) = Roots(q) /\ Roots(q) # {} /\ Anchors(p) = Anchors(q)
  BY RootsOfAlias, AnchorsOfAlias, AnchorIsRoot
<1>2. CASE q = p
  BY <1>1, <1>2
<1>3. CASE q # p
  <2>1. CanonicalBase(p) = CHOOSE r \in Roots(q) : TRUE
    BY <1>1, <1>3 DEF CanonicalBase
  <2>2. CASE AliasOf(q) = q
    <3>1. Roots(q) = {q} /\ CanonicalBase(q) = q
      BY <2>2, FixedIsRoot
    <3>2. CanonicalBase(p) = CHOOSE r \in {q} : TRUE
      BY <2>1, <3>1
    <3> QED BY <1>1, <3>1, <3>2
  <2>3. CASE AliasOf(q) # q
    <3>1. CanonicalBase(q) = CHOOSE r \in Roots(q) : TRUE
      BY <1>1, <2>3 DEF CanonicalBase
    <3> QED BY <1>1, <2>1, <3>1
  <2> QED BY <2>2, <2>3
<1> QED BY <1>2, <1>3

LEMMA BaseOfItself ==
  ASSUME NEW p \in Pointers, AliasWrites(p) = {}
  PROVE  Anchors(p) # {} /\ CanonicalBase(p) = p
<1>1. AliasOf(p) = p
  BY DEF AliasOf
<1> QED BY <1>1, FixedIsRoot

-----------------------------------------------------------------------------
\* The source index

Index == [Places -> SUBSET Places]

Seed(index, stmt) == IF owner.kind = "channel" THEN SeedChannel(index, stmt) ELSE SeedContext(index, stmt)

\* What the first statements have made of the index.
IsIndex(u) ==
  u = [n \in 0..Len(owner.body) |->
         IF n = 0 THEN [place \in Places |-> {}]
         ELSE IF owner.kind = "channel" THEN SeedChannel(u[n - 1], owner.body[n])
         ELSE SeedContext(u[n - 1], owner.body[n])]
UpTo == CHOOSE u : IsIndex(u)

LEMMA AddTyped ==
  ASSUME NEW index \in Index, NEW place \in Places, NEW sources \in SUBSET Places
  PROVE  /\ Add(index, place, sources) \in Index
         /\ Add(index, place, sources)[CanonicalBase(place)] = index[CanonicalBase(place)] \cup sources
         /\ \A x \in Places : x # CanonicalBase(place) => Add(index, place, sources)[x] = index[x]
<1>1. CanonicalBase(place) \in Places
  BY BaseTyped
<1> QED BY <1>1 DEF Add, Index

LEMMA SourcesTyped ==
  ASSUME NEW index \in Index, NEW place \in Places
  PROVE  ChannelSources(index, place) \subseteq Places /\ ContextSources(index, place) \subseteq Places
<1>1. CanonicalBase(place) \in Places
  BY BaseTyped
<1>2. index[CanonicalBase(place)] \subseteq Places
  BY <1>1 DEF Index
<1> QED BY <1>1, <1>2 DEF ChannelSources, ContextSources

LEMMA SeedIs ==
  ASSUME NEW index, NEW stmt
  PROVE  /\ stmt.op = "make" =>
              Seed(index, stmt) = IF owner.kind = "channel" THEN Add(index, stmt.dst, {stmt.dst}) ELSE index
         /\ stmt.op \in {"store", "build"} =>
              Seed(index, stmt) = IF owner.kind = "channel" THEN Add(index, stmt.dst, ChannelSources(index, stmt.src))
                                  ELSE IF stmt.dst \in Holders THEN Add(index, stmt.dst, ContextSources(index, stmt.src))
                                  ELSE index
         /\ stmt.op = "alias" => Seed(index, stmt) = Add(index, stmt.dst, index[CanonicalBase(stmt.src)])
         /\ stmt.op \notin {"make", "store", "build", "alias"} => Seed(index, stmt) = index
<1>1. CASE stmt.op = "make"
  BY <1>1 DEF Seed, SeedChannel, SeedContext
<1>2. CASE stmt.op \in {"store", "build"}
  BY <1>2 DEF Seed, SeedChannel, SeedContext
<1>3. CASE stmt.op = "alias"
  BY <1>3 DEF Seed, SeedChannel, SeedContext, CopyStructured
<1>4. CASE stmt.op \notin {"make", "store", "build", "alias"}
  BY <1>4 DEF Seed, SeedChannel, SeedContext
<1> QED BY <1>1, <1>2, <1>3, <1>4

\* A statement leaves the index, or adds something to what is known of its place.
LEMMA SeedAdds ==
  ASSUME OwnerOK, NEW index \in Index, NEW i \in DOMAIN owner.body
  PROVE  LET stmt == owner.body[i] IN
         \/ Seed(index, stmt) = index
         \/ /\ stmt.dst \in Places /\ Op(i) \in {"make", "store", "build", "alias"}
            /\ \E sources \in SUBSET Places : Seed(index, stmt) = Add(index, stmt.dst, sources)
<1> DEFINE stmt == owner.body[i]
<1>1. Pointers \subseteq Places /\ Structs \subseteq Places /\ Holders \subseteq Places
  BY DEF Places, Holders
<1>2. CASE Op(i) = "make"
  <2>1. stmt.dst \in Places
    BY <1>2, StatementsTyped
  <2> QED BY <1>2, <2>1, SeedIs DEF Op
<1>3. CASE Op(i) \in {"store", "build"}
  <2>1. stmt.dst \in Places /\ stmt.src \in Places
    BY <1>1, <1>3, StatementsTyped
  <2>2. ChannelSources(index, stmt.src) \subseteq Places /\ ContextSources(index, stmt.src) \subseteq Places
    BY <2>1, SourcesTyped
  <2> QED BY <1>3, <2>1, <2>2, SeedIs DEF Op
<1>4. CASE Op(i) = "alias"
  <2>1. stmt.dst \in Places /\ stmt.src \in Places
    BY <1>1, <1>4, StatementsTyped
  <2>2. index[CanonicalBase(stmt.src)] \subseteq Places
    BY <2>1, BaseTyped DEF Index
  <2> QED BY <1>4, <2>1, <2>2, SeedIs DEF Op
<1>5. CASE Op(i) \notin {"make", "store", "build", "alias"}
  BY <1>5, SeedIs DEF Op
<1> QED BY <1>2, <1>3, <1>4, <1>5

LEMMA SeedGrows ==
  ASSUME OwnerOK, NEW index \in Index, NEW i \in DOMAIN owner.body
  PROVE  /\ Seed(index, owner.body[i]) \in Index
         /\ \A x \in Places : index[x] \subseteq Seed(index, owner.body[i])[x]
<1>1. CASE Seed(index, owner.body[i]) = index
  BY <1>1
<1>2. CASE Seed(index, owner.body[i]) # index
  <2>1. owner.body[i].dst \in Places
    BY <1>2, SeedAdds
  <2>2. PICK sources \in SUBSET Places : Seed(index, owner.body[i]) = Add(index, owner.body[i].dst, sources)
    BY <1>2, SeedAdds
  <2> QED BY <2>1, <2>2, AddTyped
<1> QED BY <1>1, <1>2

LEMMA IndexThere ==
  ASSUME OwnerOK
  PROVE  /\ UpTo \in [0 .. Len(owner.body) -> Index]
         /\ UpTo[0] = [place \in Places |-> {}]
         /\ \A n \in 1 .. Len(owner.body) : UpTo[n] = Seed(UpTo[n - 1], owner.body[n])
         /\ SourceIndex = UpTo[Len(owner.body)]
<1> DEFINE N == Len(owner.body)
           F == [n \in 1 .. N |-> [index \in Index |-> Seed(index, owner.body[n])]]
<1>1. N \in Nat /\ DOMAIN owner.body = 1 .. N
  BY DEF OwnerOK
<1>2. F \in [1 .. N -> [Index -> Index]]
  BY <1>1, SeedGrows
<1>3. [place \in Places |-> {}] \in Index
  BY DEF Index
<1>4. PICK g \in [0 .. N -> Index] : g[0] = [place \in Places |-> {}] /\ \A k \in 1 .. N : g[k] = F[k][g[k - 1]]
  <2> HIDE DEF N, F
  <2> QED BY <1>1, <1>2, <1>3, StepByStep
<1>5. \A k \in 1 .. N : g[k] = Seed(g[k - 1], owner.body[k])
  <2> TAKE k \in 1 .. N
  <2>1. k - 1 \in 0 .. N
    BY <1>1
  <2>2. g[k - 1] \in Index
    BY <2>1
  <2> QED BY <1>4, <2>2
<1>6. IsIndex(g)
  <2>1. \A n \in 0 .. N : n # 0 => n \in 1 .. N
    BY <1>1
  <2>2. g = [n \in 0 .. N |-> IF n = 0 THEN [place \in Places |-> {}] ELSE Seed(g[n - 1], owner.body[n])]
    <3> HIDE DEF N
    <3> QED BY <1>4, <1>5, <2>1
  <2> QED BY <2>2 DEF IsIndex, Seed
<1>7. IsIndex(UpTo)
  BY <1>6 DEF UpTo
<1>8. UpTo = [n \in 0 .. N |-> IF n = 0 THEN [place \in Places |-> {}] ELSE Seed(UpTo[n - 1], owner.body[n])]
  BY <1>7 DEF IsIndex, Seed
<1>9. UpTo[0] = [place \in Places |-> {}] /\ \A n \in 1 .. N : UpTo[n] = Seed(UpTo[n - 1], owner.body[n])
  <2> HIDE DEF N
  <2>1. 0 \in 0 .. N /\ \A n \in 1 .. N : n \in 0 .. N /\ n # 0
    BY <1>1
  <2>2. \A n \in 0 .. N : UpTo[n] = IF n = 0 THEN [place \in Places |-> {}] ELSE Seed(UpTo[n - 1], owner.body[n])
    BY <1>8
  <2> QED BY <2>1, <2>2
<1>10. \A n \in 0 .. N : UpTo[n] \in Index
  <2> DEFINE S == {n \in 0 .. N : UpTo[n] \in Index}
  <2>1. 0 \in S
    BY <1>1, <1>3, <1>9
  <2>2. ASSUME NEW k \in 1 .. N, k - 1 \in S PROVE k \in S
    <3>1. k \in DOMAIN owner.body /\ k \in 0 .. N
      BY <1>1
    <3> QED BY <1>9, <2>2, <3>1, SeedGrows
  <2>3. 0 .. N \subseteq S
    <3> HIDE DEF S, N
    <3> QED BY <1>1, <2>1, <2>2, Climb
  <2> QED BY <2>3
<1>11. UpTo \in [0 .. N -> Index]
  <2> HIDE DEF N
  <2>1. DOMAIN UpTo = 0 .. N /\ UpTo = [n \in 0 .. N |-> UpTo[n]]
    BY <1>8
  <2> QED BY <1>10, <2>1
<1>12. SourceIndex = UpTo[N]
  BY DEF SourceIndex, UpTo, IsIndex
<1> QED BY <1>9, <1>11, <1>12

\* What is known after some statements is known in the end.
LEMMA IndexGrows ==
  ASSUME OwnerOK, NEW m \in 0 .. Len(owner.body), NEW x \in Places
  PROVE  UpTo[m][x] \subseteq SourceIndex[x]
<1> DEFINE N == Len(owner.body)
           S == {n \in 0 .. N : m <= n => UpTo[m][x] \subseteq UpTo[n][x]}
<1>1. N \in Nat /\ DOMAIN owner.body = 1 .. N
  BY DEF OwnerOK
<1>2. 0 \in S
  BY <1>1
<1>3. ASSUME NEW k \in 1 .. N, k - 1 \in S PROVE k \in S
  <2>1. k \in 0 .. N /\ k - 1 \in 0 .. N /\ k \in DOMAIN owner.body
    BY <1>1
  <2>2. UpTo[k - 1] \in Index /\ UpTo[k] = Seed(UpTo[k - 1], owner.body[k])
    BY <2>1, IndexThere
  <2>3. UpTo[k - 1][x] \subseteq UpTo[k][x]
    BY <2>1, <2>2, SeedGrows
  <2>4. CASE m <= k - 1
    BY <1>3, <2>1, <2>3, <2>4
  <2>5. CASE ~(m <= k - 1)
    <3>1. m <= k => m = k
      BY <1>1, <2>5
    <3> QED BY <2>1, <3>1
  <2> QED BY <2>4, <2>5
<1>4. 0 .. N \subseteq S
  <2> HIDE DEF S, N
  <2> QED BY <1>1, <1>2, <1>3, Climb
<1>5. N \in S /\ m <= N
  BY <1>1, <1>4
<1> QED BY <1>5, IndexThere

LEMMA RootOnChain ==
  ASSUME NEW h, NEW r \in Roots(h)
  PROVE  r \in Chain(h)
BY DEF Roots, Chain

LEMMA ParamsAreNoAliases ==
  ASSUME Followed, owner.kind = "channel", NEW x \in Pointers \cap owner.params
  PROVE  AliasOf(x) = x
<1>1. AliasWrites(x) = {}
  BY DEF AliasWrites, Followed
<1> QED BY <1>1 DEF AliasOf

\* Of what the owner was passed, and leaves as it is, the index knows nothing.
LEMMA ParamsUnknown ==
  ASSUME OwnerOK, Followed, owner.kind = "channel", NEW x \in owner.params, NEW n \in 0 .. Len(owner.body)
  PROVE  UpTo[n][x] = {}
<1> DEFINE N == Len(owner.body)
           S == {k \in 0 .. N : UpTo[k][x] = {}}
<1>1. N \in Nat /\ DOMAIN owner.body = 1 .. N /\ x \in Places
  BY DEF OwnerOK
<1>2. 0 \in S
  BY <1>1, IndexThere
<1>3. ASSUME NEW k \in 1 .. N, k - 1 \in S PROVE k \in S
  <2> DEFINE stmt == owner.body[k]
             index == UpTo[k - 1]
  <2>1. k \in 0 .. N /\ k - 1 \in 0 .. N /\ k \in DOMAIN owner.body
    BY <1>1
  <2>2. index \in Index /\ UpTo[k] = Seed(index, stmt) /\ index[x] = {}
    BY <1>3, <2>1, IndexThere
  <2> SUFFICES Seed(index, stmt)[x] = {}
    BY <2>1, <2>2
  <2> HIDE DEF index
  <2>3. CASE Op(k) = "alias" /\ stmt.dst \in Pointers /\ Anchors(stmt.src) # {}
    <3>1. k \in At("alias") /\ stmt.src \in Pointers /\ AliasOf(stmt.dst) = stmt.src
      BY <2>1, <2>3, AliasIs DEF At, Followed
    <3>2. CanonicalBase(stmt.dst) = CanonicalBase(stmt.src)
      BY <2>3, <3>1, BaseOfAlias
    <3>3. stmt.dst \in Places /\ stmt.src \in Places
      BY <2>3, <3>1 DEF Places, Holders
    <3>4. Seed(index, stmt) = Add(index, stmt.dst, index[CanonicalBase(stmt.src)])
      BY <2>3, SeedIs DEF Op
    <3>5. index[CanonicalBase(stmt.src)] \in SUBSET Places
      BY <2>2, <3>3, BaseTyped DEF Index
    <3> QED BY <1>1, <2>2, <3>2, <3>3, <3>4, <3>5, AddTyped
  <2>4. CASE Op(k) = "alias" /\ stmt.dst \in Pointers /\ Anchors(stmt.src) = {}
    <3>1. k \in At("alias") /\ stmt.src \in Pointers /\ AliasOf(stmt.dst) = stmt.src
      BY <2>1, <2>4, AliasIs DEF At, Followed
    <3>2. Anchors(stmt.dst) = {}
      BY <2>4, <3>1, AnchorsOfAlias
    <3>3. CanonicalBase(stmt.dst) # x
      <4> SUFFICES ASSUME CanonicalBase(stmt.dst) = x PROVE FALSE
        OBVIOUS
      <4>1. x \in Pointers
        BY <2>4, BaseTyped DEF Places, Holders
      <4>2. AliasOf(x) = x
        BY <4>1, ParamsAreNoAliases
      <4>3. CASE AliasOf(stmt.dst) # stmt.dst /\ Roots(stmt.dst) # {}
        <5>1. x \in Roots(stmt.dst)
          <6>1. CanonicalBase(stmt.dst) = CHOOSE r \in Roots(stmt.dst) : TRUE
            BY <2>4, <4>3 DEF CanonicalBase
          <6> QED BY <4>3, <6>1
        <5>2. x \in Chain(stmt.dst)
          BY <5>1, RootOnChain
        <5> QED BY <3>2, <4>2, <5>2 DEF Anchors
      <4>4. CASE AliasOf(stmt.dst) = stmt.dst \/ Roots(stmt.dst) = {}
        <5>1. stmt.dst = x
          BY <4>4 DEF CanonicalBase
        <5> QED BY <3>1, <5>1 DEF Followed
      <4> QED BY <4>3, <4>4
    <3> QED BY <1>1, <2>1, <2>2, <3>3, SeedAdds, AddTyped
  <2>5. CASE Op(k) = "alias" /\ stmt.dst \notin Pointers
    <3>1. k \in At("alias")
      BY <2>1, <2>5 DEF At
    <3>2. stmt.dst \in Places
      BY <2>1, <2>5, StatementsTyped DEF Places, Holders
    <3>3. CanonicalBase(stmt.dst) # x
      BY <2>5, <3>1, <3>2, BaseTyped DEF Followed
    <3> QED BY <1>1, <2>1, <2>2, <3>3, SeedAdds, AddTyped
  <2>6. CASE Op(k) \in {"make", "store", "build"}
    <3>1. k \in At("make") \cup At("store") \cup At("build")
      BY <2>1, <2>6 DEF At
    <3>2. CanonicalBase(stmt.dst) # x
      BY <3>1 DEF Followed
    <3> QED BY <1>1, <2>1, <2>2, <3>2, SeedAdds, AddTyped
  <2>7. CASE Op(k) \notin {"make", "store", "build", "alias"}
    BY <2>1, <2>2, <2>7, SeedAdds
  <2> QED BY <2>3, <2>4, <2>5, <2>6, <2>7
<1>4. 0 .. N \subseteq S
  <2> HIDE DEF S, N
  <2> QED BY <1>1, <1>2, <1>3, Climb
<1> QED BY <1>4

\* A pointer that is passed is no alias.
LEMMA ParamsRooted ==
  ASSUME OwnerOK, Followed, NEW p \in Pointers \cap owner.params
  PROVE  Anchors(p) # {} /\ CanonicalBase(p) = p
<1>1. owner.kind = "channel"
  BY PlacesAssumption DEF OwnerOK, Followed, Holders
<1>2. AliasWrites(p) = {}
  BY <1>1 DEF AliasWrites, Followed
<1> QED BY <1>2, BaseOfItself

-----------------------------------------------------------------------------
\* The owner stays as it is, and with it all that is read off its text.

LEMMA BasesStay ==
  ASSUME owner' = owner
  PROVE  /\ \A h : (Stable(h)' <=> Stable(h)) /\ AliasOf(h)' = AliasOf(h)
         /\ \A h : Roots(h)' = Roots(h) /\ Anchors(h)' = Anchors(h)
         /\ \A h : CanonicalBase(h)' = CanonicalBase(h)
<1>1. \A h : Writes(h)' = Writes(h) /\ AliasWrites(h)' = AliasWrites(h)
  BY DEF Writes, AliasWrites, At, Op
<1>2. \A h : LastAlias(h)' = LastAlias(h)
  BY DEF LastAlias, AliasWrites, At, Op
<1>3. \A h : Stable(h)' <=> Stable(h)
  BY <1>1 DEF Stable
<1>4. \A h : AliasOf(h)' = AliasOf(h)
  BY <1>1, <1>2, <1>3 DEF AliasOf
<1>5. /\ \A h : Roots(h)' = Roots(h)
      /\ \A h : Anchors(h)' = Anchors(h)
  <2>1. \A h : Chain(h)' = Chain(h)
    BY <1>4 DEF Chain
  <2>2. \A h : Ends(h)' <=> Ends(h)
    BY <1>4 DEF Ends, Chain
  <2>3. \A h : Anchors(h)' = Anchors(h)
    BY <1>4, <2>1 DEF Anchors
  <2> QED BY <1>4, <2>2, <2>3 DEF Roots
<1>6. \A h : CanonicalBase(h)' = CanonicalBase(h)
  <2> TAKE h
  <2>1. CanonicalBase(h) = IF h \in Pointers /\ AliasOf(h) # h /\ Roots(h) # {} THEN CHOOSE r \in Roots(h) : TRUE ELSE h
    BY DEF CanonicalBase
  <2>2. CanonicalBase(h)' = IF h \in Pointers /\ AliasOf(h)' # h /\ Roots(h)' # {} THEN CHOOSE r \in Roots(h)' : TRUE ELSE h
    BY DEF CanonicalBase
  <2> QED BY <1>4, <1>5, <2>1, <2>2
<1> QED BY <1>3, <1>4, <1>5, <1>6

LEMMA IndexStays ==
  ASSUME owner' = owner
  PROVE  /\ UpTo' = UpTo
         /\ \A place : Sources(place)' = Sources(place)
<1>1. \A index, place, sources : Add(index, place, sources)' = Add(index, place, sources)
  BY BasesStay DEF Add
<1>2. \A index, place : /\ ChannelSources(index, place)' = ChannelSources(index, place)
                        /\ ContextSources(index, place)' = ContextSources(index, place)
  BY BasesStay DEF ChannelSources, ContextSources
<1>3. \A index, stmt : CopyStructured(index, stmt)' = CopyStructured(index, stmt)
  BY <1>1, BasesStay DEF CopyStructured
<1>4. \A index, stmt : SeedChannel(index, stmt)' = SeedChannel(index, stmt)
  BY <1>1, <1>2, <1>3 DEF SeedChannel
<1>5. \A index, stmt : SeedContext(index, stmt)' = SeedContext(index, stmt)
  BY <1>1, <1>2, <1>3 DEF SeedContext
<1>6. \A u : IsIndex(u)' <=> IsIndex(u)
  BY <1>4, <1>5 DEF IsIndex
<1>7. UpTo' = UpTo
  <2>1. UpTo' = CHOOSE u : IsIndex(u)'
    BY DEF UpTo
  <2>2. (CHOOSE u : IsIndex(u)') = (CHOOSE u : IsIndex(u))
    BY <1>6
  <2> QED BY <2>1, <2>2 DEF UpTo
<1>8. SourceIndex' = SourceIndex
  <2>1. SourceIndex = UpTo[Len(owner.body)]
    BY DEF SourceIndex, UpTo, IsIndex
  <2>2. SourceIndex' = (UpTo')[Len(owner.body')]
    BY DEF SourceIndex, UpTo, IsIndex
  <2> QED BY <1>7, <2>1, <2>2
<1>9. \A place : Sources(place)' = Sources(place)
  BY <1>8, BasesStay DEF Sources, SourcesFor, ChannelSources, ContextSources
<1> QED BY <1>7, <1>9

LEMMA TextStays ==
  ASSUME owner' = owner
  PROVE  /\ OwnerOK' <=> OwnerOK
         /\ Followed' <=> Followed
         /\ \A op : At(op)' = At(op)
         /\ \A c : Parents(c)' = Parents(c)
         /\ Needs' = Needs /\ WaitAt' = WaitAt
<1>1. \A op : At(op)' = At(op)
  BY DEF At, Op
<1>2. OwnerOK' <=> OwnerOK
  BY DEF OwnerOK
<1>3. Followed' <=> Followed
  BY <1>1, BasesStay DEF Followed
<1>4. \A c : Parents(c)' = Parents(c)
  BY <1>1 DEF Parents
<1>5. Needs' = Needs
  BY <1>1 DEF Needs
<1>6. WaitAt' = WaitAt
  BY DEF WaitAt, At, Op
<1> QED BY <1>1, <1>2, <1>3, <1>4, <1>5, <1>6

\* With the answers, the verdict on the text stays too.
LEMMA LateStays ==
  ASSUME owner' = owner, memo' = memo
  PROVE  /\ \A i : (DependsOn(i)' <=> DependsOn(i)) /\ (Closes(i)' <=> Closes(i))
         /\ Late' <=> Late
<1>1. \A i : (DependsOn(i)' <=> DependsOn(i)) /\ (Closes(i)' <=> Closes(i))
  BY DEF DependsOn, Closes, UsedByParam
<1>2. WorkerStops' = WorkerStops
  BY <1>1, TextStays, IndexStays DEF WorkerStops
<1>3. ChannelSignals' = ChannelSignals
  BY <1>1, <1>2, TextStays, IndexStays DEF ChannelSignals
<1>4. ContextSignals' = ContextSignals
  BY <1>2, TextStays DEF ContextSignals, DerivesFromAny
<1>5. StopSignalsFor' = StopSignalsFor
  BY <1>3, <1>4 DEF StopSignalsFor
<1> QED BY <1>1, <1>5, TextStays DEF Late

-----------------------------------------------------------------------------
\* Executions

StoreOK ==
  /\ pc \in 1 .. Len(owner.body) + 1
  /\ holds \in [Locations -> Locations \cup {None}]
  /\ points \in [Pointers -> (Pointers \X (0 .. Len(owner.body))) \cup {None}]
  /\ derived \subseteq (Locations \cup {None}) \X Locations
  /\ stopped \subseteq Locations
  /\ \A w \in workers : w.at \in At("spawn") /\ w.on \in Locations \cup {None}

\* The index has where v was made among what place may hold, or v was passed there.
Named(index, place, v) ==
  LET base == CanonicalBase(place) IN
  IF owner.kind = "channel" THEN v[1] \in index[base] \/ (base \in owner.params /\ v[1] = base)
  ELSE IF place \in Vars THEN v[1] = place ELSE v[1] \in index[base]

\* A pointer and the holder it points to have one root.
PointsOK ==
  \A p \in Pointers : points[p] # None => Anchors(p) # {} /\ CanonicalBase(points[p][1]) = CanonicalBase(p)

\* The statements up to here have put into the index what the execution has put into the store.
HoldsOK == \A l \in Locations : holds[l] # None => Named(UpTo[pc - 1], l[1], holds[l])

DerivedOK ==
  /\ owner.kind = "channel" => derived = {}
  /\ \A d \in derived : d[1] # None => d[1][1] \in Parents(d[2][1])

\* Whatever is stopped was stopped by a statement that the text relates to it.
StoppedBy(i, c) ==
  IF owner.kind = "channel"
  THEN (owner.body[i].in = "none" \/ MustClose(owner.body[i].in)) /\ c[1] \in Sources(owner.body[i].src)
  ELSE \A S \in SUBSET Places : c[1] \in S /\ (\A x \in S : Parents(x) \subseteq S) => owner.body[i].src \in S
StoppedOK == \A c \in stopped : \E i \in At("stop") : i < pc /\ StoppedBy(i, c)

VerdictOK ==
  /\ verdict # "open" => stack = <<>> /\ \A q \in Needs : memo[q].known
  /\ verdict = "late" => Late

ExecutionOK == PointsOK /\ HoldsOK /\ SourcesCover /\ DerivedOK /\ StoppedOK

LEMMA NoneApart == None \notin Locations /\ None \notin Pointers \X (0 .. Len(owner.body))
BY PlacesAssumption DEF None, Locations, Places, Holders

LEMMA RunningTyped ==
  ASSUME OwnerOK, StoreOK, Running
  PROVE  /\ pc \in DOMAIN owner.body /\ Op(pc) = Stmt.op
         /\ pc \in 1 .. Len(owner.body) /\ pc \in 0 .. Len(owner.body) /\ pc - 1 \in 0 .. Len(owner.body)
         /\ pc + 1 \in 1 .. Len(owner.body) + 1 /\ (pc + 1) - 1 = pc
         /\ UpTo[pc - 1] \in Index /\ UpTo[pc] \in Index /\ UpTo[pc] = Seed(UpTo[pc - 1], Stmt)
         /\ \A x \in Places : UpTo[pc - 1][x] \subseteq UpTo[pc][x]
<1>1. Len(owner.body) \in Nat /\ DOMAIN owner.body = 1 .. Len(owner.body)
  BY DEF OwnerOK
<1>2. pc \in Nat /\ 1 <= pc /\ pc <= Len(owner.body)
  BY <1>1 DEF StoreOK, Running
<1>3. /\ pc \in DOMAIN owner.body /\ pc \in 1 .. Len(owner.body) /\ pc \in 0 .. Len(owner.body)
      /\ pc - 1 \in 0 .. Len(owner.body) /\ pc + 1 \in 1 .. Len(owner.body) + 1 /\ (pc + 1) - 1 = pc
  BY <1>1, <1>2
<1>4. UpTo[pc - 1] \in Index /\ UpTo[pc] \in Index /\ UpTo[pc] = Seed(UpTo[pc - 1], Stmt)
  BY <1>3, IndexThere DEF Stmt
<1>5. \A x \in Places : UpTo[pc - 1][x] \subseteq UpTo[pc][x]
  BY <1>3, <1>4, SeedGrows DEF Stmt
<1> QED BY <1>3, <1>4, <1>5 DEF Op, Stmt

LEMMA NamedGrows ==
  ASSUME NEW index, NEW more, \A x \in Places : index[x] \subseteq more[x],
         NEW place \in Places, NEW v, Named(index, place, v)
  PROVE  Named(more, place, v)
<1>1. CanonicalBase(place) \in Places
  BY BaseTyped
<1> QED BY <1>1 DEF Named

LEMMA NamedAlike ==
  ASSUME NEW index, NEW p, NEW q, CanonicalBase(p) = CanonicalBase(q), p \in Vars \/ q \in Vars => p = q,
         NEW v, Named(index, p, v)
  PROVE  Named(index, q, v)
BY DEF Named

LEMMA NamedIsSource ==
  ASSUME OwnerOK, Followed, NEW m \in 0 .. Len(owner.body), NEW place \in Places, NEW v, Named(UpTo[m], place, v)
  PROVE  v[1] \in SourcesFor(UpTo[m], place)
<1> DEFINE base == CanonicalBase(place)
<1>1. CASE owner.kind = "channel" /\ v[1] \in UpTo[m][base]
  BY <1>1 DEF SourcesFor, ChannelSources
<1>2. CASE owner.kind = "channel" /\ v[1] \notin UpTo[m][base]
  <2>1. base \in owner.params /\ v[1] = base
    BY <1>2 DEF Named
  <2>2. UpTo[m][base] = {}
    BY <1>2, <2>1, ParamsUnknown
  <2> QED BY <1>2, <2>1, <2>2 DEF SourcesFor, ChannelSources
<1>3. CASE owner.kind # "channel"
  BY <1>3 DEF Named, SourcesFor, ContextSources
<1> QED BY <1>1, <1>2, <1>3

LEMMA NamedInSources ==
  ASSUME OwnerOK, Followed, NEW m \in 0 .. Len(owner.body), NEW place \in Places, NEW v, Named(UpTo[m], place, v)
  PROVE  v[1] \in Sources(place)
<1> DEFINE N == Len(owner.body)
<1>1. N \in 0 .. N /\ SourceIndex = UpTo[N]
  <2>1. N \in Nat
    BY DEF OwnerOK
  <2> QED BY <2>1, IndexThere
<1>2. \A x \in Places : UpTo[m][x] \subseteq UpTo[N][x]
  BY <1>1, IndexGrows
<1>3. Named(UpTo[N], place, v)
  <2> HIDE DEF N
  <2> QED BY <1>2, NamedGrows
<1>4. v[1] \in SourcesFor(UpTo[N], place)
  BY <1>1, <1>3, NamedIsSource
<1> QED BY <1>1, <1>4 DEF Sources

LEMMA LocationTyped ==
  ASSUME OwnerOK, StoreOK, NEW place \in Places, Location(place) # None
  PROVE  /\ Location(place) \in Locations
         /\ place \in Pointers => Location(place) = points[place] /\ Location(place)[1] \in Pointers
         /\ place \notin Pointers => Location(place)[1] = place
<1>1. 0 \in 0 .. Len(owner.body) /\ Pointers \subseteq Places
  BY DEF OwnerOK, Places, Holders
<1>2. CASE place \in Pointers
  <2>1. Location(place) = points[place] /\ points[place] \in Pointers \X (0 .. Len(owner.body))
    BY <1>2 DEF Location, StoreOK
  <2> QED BY <1>1, <1>2, <2>1 DEF Locations
<1>3. CASE place \notin Pointers
  <2>1. Location(place) = <<place, 0>>
    BY <1>3 DEF Location
  <2> QED BY <1>1, <1>3, <2>1 DEF Locations
<1> QED BY <1>2, <1>3

LEMMA LocationNamed ==
  ASSUME OwnerOK, StoreOK, PointsOK, NEW place \in Places, Location(place) # None
  PROVE  /\ CanonicalBase(Location(place)[1]) = CanonicalBase(place)
         /\ Location(place)[1] \in Vars \/ place \in Vars => Location(place)[1] = place
<1>1. CASE place \in Pointers
  BY <1>1, LocationTyped, PlacesAssumption DEF PointsOK, Holders
<1>2. CASE place \notin Pointers
  BY <1>2, LocationTyped
<1> QED BY <1>1, <1>2

LEMMA ValueTyped ==
  ASSUME OwnerOK, StoreOK, NEW place \in Places
  PROVE  Value(place) \in Locations \cup {None}
<1>1. CASE Location(place) = None
  BY <1>1 DEF Value
<1>2. CASE Location(place) # None
  <2>1. Location(place) \in Locations
    BY <1>2, LocationTyped
  <2> QED BY <1>2, <2>1 DEF Value, StoreOK
<1> QED BY <1>1, <1>2

LEMMA ValueNamed ==
  ASSUME OwnerOK, StoreOK, PointsOK, HoldsOK, NEW place \in Places, Value(place) # None
  PROVE  Named(UpTo[pc - 1], place, Value(place))
<1>1. Location(place) # None /\ Value(place) = holds[Location(place)]
  BY DEF Value
<1>2. Location(place) \in Locations
  BY <1>1, LocationTyped
<1>3. Named(UpTo[pc - 1], Location(place)[1], Value(place))
  BY <1>1, <1>2 DEF HoldsOK
<1> QED BY <1>1, <1>3, LocationNamed, NamedAlike

\* What a statement writes, the index learns.

LEMMA SeedMakes ==
  ASSUME OwnerOK, StoreOK, Followed, Running, Stmt.op \in {"make", "derive"}
  PROVE  Stmt.dst \in Places /\ Made \in Locations /\ Named(UpTo[pc], Stmt.dst, Made)
<1>1. pc \in DOMAIN owner.body /\ Op(pc) = Stmt.op /\ pc \in 0 .. Len(owner.body) /\ Made[1] = Stmt.dst
  BY RunningTyped DEF Made
<1>2. Stmt.dst \in Places /\ (Stmt.op = "derive" => owner.kind = "context" /\ Stmt.dst \in Vars)
  BY <1>1, StatementsTyped DEF Stmt, Places
<1>3. Made \in Locations
  BY <1>1, <1>2 DEF Made, Locations
<1>4. CASE owner.kind = "channel"
  <2>1. UpTo[pc] = Add(UpTo[pc - 1], Stmt.dst, {Stmt.dst}) /\ UpTo[pc - 1] \in Index
    BY <1>2, <1>4, RunningTyped, SeedIs
  <2>2. Stmt.dst \in UpTo[pc][CanonicalBase(Stmt.dst)]
    BY <1>2, <2>1, AddTyped
  <2> QED BY <1>1, <1>2, <1>3, <1>4, <2>2 DEF Named
<1>5. CASE owner.kind = "context"
  <2>1. Stmt.dst \in Vars
    BY <1>1, <1>2, <1>5 DEF Followed, At, Stmt
  <2> QED BY <1>1, <1>2, <1>3, <1>5, <2>1 DEF Named
<1> QED BY <1>4, <1>5 DEF OwnerOK

LEMMA SeedStores ==
  ASSUME OwnerOK, StoreOK, Followed, Running, Stmt.op \in {"store", "build"},
         NEW v, v # None => Named(UpTo[pc - 1], Stmt.src, v)
  PROVE  /\ Stmt.dst \in Places /\ Stmt.src \in Places /\ (Stmt.op = "build" => Stmt.dst \in Holders)
         /\ v # None => Named(UpTo[pc], Stmt.dst, v)
<1>1. pc \in DOMAIN owner.body /\ Op(pc) = Stmt.op /\ pc - 1 \in 0 .. Len(owner.body)
  BY RunningTyped
<1>2. Stmt.dst \in Places /\ Stmt.src \in Places /\ (Stmt.op = "build" => Stmt.dst \in Holders)
  BY <1>1, StatementsTyped DEF Stmt, Places
<1>3. ASSUME v # None PROVE Named(UpTo[pc], Stmt.dst, v)
  <2>1. v[1] \in SourcesFor(UpTo[pc - 1], Stmt.src)
    BY <1>1, <1>2, <1>3, NamedIsSource
  <2>2. /\ ChannelSources(UpTo[pc - 1], Stmt.src) \in SUBSET Places
        /\ ContextSources(UpTo[pc - 1], Stmt.src) \in SUBSET Places
    BY <1>2, RunningTyped, SourcesTyped
  <2>3. UpTo[pc] = Seed(UpTo[pc - 1], Stmt) /\ UpTo[pc - 1] \in Index
    BY RunningTyped
  <2>4. CASE owner.kind = "channel"
    <3>1. UpTo[pc] = Add(UpTo[pc - 1], Stmt.dst, ChannelSources(UpTo[pc - 1], Stmt.src))
      BY <2>3, <2>4, SeedIs
    <3>2. v[1] \in ChannelSources(UpTo[pc - 1], Stmt.src)
      BY <2>1, <2>4 DEF SourcesFor
    <3>3. v[1] \in UpTo[pc][CanonicalBase(Stmt.dst)]
      BY <1>2, <2>2, <2>3, <3>1, <3>2, AddTyped
    <3> QED BY <2>4, <3>3 DEF Named
  <2>5. CASE owner.kind = "context"
    <3>1. Stmt.dst \in Holders /\ Stmt.dst \notin Vars
      BY <1>1, <1>2, <2>5, PlacesAssumption DEF Followed, At, Stmt
    <3>2. UpTo[pc] = Add(UpTo[pc - 1], Stmt.dst, ContextSources(UpTo[pc - 1], Stmt.src))
      BY <2>3, <2>5, <3>1, SeedIs
    <3>3. v[1] \in ContextSources(UpTo[pc - 1], Stmt.src)
      BY <2>1, <2>5 DEF SourcesFor
    <3>4. v[1] \in UpTo[pc][CanonicalBase(Stmt.dst)]
      BY <1>2, <2>2, <2>3, <3>2, <3>3, AddTyped
    <3> QED BY <2>5, <3>1, <3>4 DEF Named
  <2> QED BY <2>4, <2>5 DEF OwnerOK
<1> QED BY <1>2, <1>3

LEMMA SeedCopies ==
  ASSUME OwnerOK, StoreOK, Followed, Running, Stmt.op = "alias", Stmt.dst \notin Pointers,
         NEW v, v # None => Named(UpTo[pc - 1], Stmt.src, v)
  PROVE  /\ Stmt.dst \in Places /\ Stmt.src \in Places
         /\ v # None => Named(UpTo[pc], Stmt.dst, v)
<1>1. pc \in DOMAIN owner.body /\ Op(pc) = Stmt.op /\ pc \in At("alias")
  BY RunningTyped DEF At
<1>2. Stmt.dst \in Structs /\ Stmt.src \in Structs
  BY <1>1, StatementsTyped DEF Stmt
<1>3. /\ Stmt.dst \in Places /\ Stmt.src \in Places
      /\ Stmt.dst \notin Vars /\ Stmt.src \notin Vars /\ Stmt.src \notin Pointers
  BY <1>2, PlacesAssumption DEF Places, Holders
<1>4. ASSUME v # None PROVE Named(UpTo[pc], Stmt.dst, v)
  <2>1. UpTo[pc] = Add(UpTo[pc - 1], Stmt.dst, UpTo[pc - 1][CanonicalBase(Stmt.src)]) /\ UpTo[pc - 1] \in Index
    BY RunningTyped, SeedIs
  <2>2. CanonicalBase(Stmt.src) = Stmt.src
    BY <1>3, BaseTyped
  <2>3. v[1] \in UpTo[pc - 1][CanonicalBase(Stmt.src)]
    <3>1. owner.kind = "channel" => Stmt.src \notin owner.params
      BY <1>1, <1>2 DEF Followed, Stmt
    <3> QED BY <1>3, <1>4, <2>2, <3>1 DEF Named
  <2>4. UpTo[pc - 1][CanonicalBase(Stmt.src)] \in SUBSET Places
    BY <1>3, <2>1, <2>2 DEF Index
  <2>5. v[1] \in UpTo[pc][CanonicalBase(Stmt.dst)]
    BY <1>3, <2>1, <2>3, <2>4, AddTyped
  <2> QED BY <1>3, <2>5 DEF Named
<1> QED BY <1>3, <1>4

-----------------------------------------------------------------------------
\* What stays when the execution goes on

LEMMA NamedStays ==
  ASSUME owner' = owner
  PROVE  \A index, place, v : Named(index, place, v)' <=> Named(index, place, v)
BY BasesStay DEF Named

LEMMA AdvanceKeeps ==
  ASSUME OwnerOK, StoreOK, Followed, ExecutionOK, Running, Advance
  PROVE  /\ points' = points => PointsOK'
         /\ holds' = holds => HoldsOK'
         /\ workers' = workers => SourcesCover'
         /\ derived' = derived => DerivedOK'
         /\ stopped' = stopped => StoppedOK'
<1>1. owner' = owner /\ pc' = pc + 1 /\ helpers' = helpers
  BY DEF Advance, summaryVars
<1>2. pc' - 1 = pc /\ pc \in Nat
  BY <1>1, RunningTyped
<1>3. Locations' = Locations
  BY <1>1 DEF Locations
<1>4. ASSUME points' = points PROVE PointsOK'
  BY <1>1, <1>4, BasesStay DEF ExecutionOK, PointsOK, None
<1>5. ASSUME holds' = holds PROVE HoldsOK'
  <2>1. ASSUME NEW l \in Locations, holds[l] # None PROVE Named(UpTo[pc], l[1], holds[l])
    <3>1. Named(UpTo[pc - 1], l[1], holds[l])
      BY <2>1 DEF ExecutionOK, HoldsOK
    <3>2. l[1] \in Places
      BY DEF Locations
    <3> QED BY <3>1, <3>2, RunningTyped, NamedGrows
  <2>2. \A index, l, v : Named(index, l, v)' <=> Named(index, l, v)
    BY <1>1, NamedStays
  <2>3. UpTo' = UpTo
    BY <1>1, IndexStays
  <2> QED BY <1>2, <1>3, <1>5, <2>1, <2>2, <2>3 DEF HoldsOK, None
<1>6. ASSUME workers' = workers PROVE SourcesCover'
  BY <1>1, <1>6, IndexStays DEF ExecutionOK, SourcesCover, None
<1>7. ASSUME derived' = derived PROVE DerivedOK'
  BY <1>1, <1>7, TextStays DEF ExecutionOK, DerivedOK, None
<1>8. ASSUME stopped' = stopped PROVE StoppedOK'
  <2>1. \A i, c : StoppedBy(i, c)' <=> StoppedBy(i, c)
    BY <1>1, HelpersStay, TextStays, IndexStays DEF StoppedBy
  <2>2. \A i \in At("stop") : i \in Nat
    BY DEF At, OwnerOK
  <2>3. \A i \in Nat : i < pc => i < pc'
    BY <1>1, <1>2
  <2> QED BY <1>1, <1>8, <2>1, <2>2, <2>3, TextStays DEF ExecutionOK, StoppedOK
<1> QED BY <1>4, <1>5, <1>6, <1>7, <1>8

LEMMA StoreStays ==
  ASSUME OwnerOK, StoreOK, Running, Advance,
         holds' \in [Locations -> Locations \cup {None}],
         points' \in [Pointers -> (Pointers \X (0 .. Len(owner.body))) \cup {None}],
         derived' \subseteq (Locations \cup {None}) \X Locations,
         stopped' \subseteq Locations,
         \A w \in workers' : w.at \in At("spawn") /\ w.on \in Locations \cup {None}
  PROVE  StoreOK'
<1>1. owner' = owner /\ pc' = pc + 1
  BY DEF Advance
<1>2. pc' \in 1 .. Len(owner.body) + 1
  BY <1>1, RunningTyped
<1>3. Locations' = Locations
  BY <1>1 DEF Locations
<1> QED BY <1>1, <1>2, <1>3, TextStays DEF StoreOK, None

LEMMA WriteStep ==
  ASSUME OwnerOK, StoreOK, Followed, ExecutionOK, Running, Advance,
         NEW dst \in Places, NEW v \in Locations \cup {None}, v # None => Named(UpTo[pc], dst, v), Write(dst, v)
  PROVE  /\ holds' \in [Locations -> Locations \cup {None}] /\ HoldsOK'
         /\ points' = points
<1> DEFINE at == Location(dst)
<1>1. at # None /\ holds' = [holds EXCEPT ![at] = v] /\ points' = points
  BY DEF Write
<1>2. at \in Locations
  BY <1>1, LocationTyped
<1>3. holds \in [Locations -> Locations \cup {None}]
  BY DEF StoreOK
<1> HIDE DEF at
<1>4. holds' \in [Locations -> Locations \cup {None}]
  BY <1>1, <1>2, <1>3
<1>5. ASSUME NEW l \in Locations, holds'[l] # None PROVE Named(UpTo[pc], l[1], holds'[l])
  <2>1. CASE l = at
    <3>1. holds'[l] = v
      BY <1>1, <1>2, <1>3, <2>1
    <3>2. Named(UpTo[pc], dst, v)
      BY <1>5, <3>1
    <3> QED BY <1>1, <2>1, <3>1, <3>2, LocationNamed, NamedAlike DEF ExecutionOK, at
  <2>2. CASE l # at
    <3>1. holds'[l] = holds[l]
      BY <1>1, <1>3, <2>2
    <3>2. Named(UpTo[pc - 1], l[1], holds[l]) /\ l[1] \in Places
      BY <1>5, <3>1 DEF ExecutionOK, HoldsOK, Locations
    <3> QED BY <3>1, <3>2, RunningTyped, NamedGrows
  <2> QED BY <2>1, <2>2
<1>6. HoldsOK'
  <2>1. owner' = owner /\ pc' = pc + 1
    BY DEF Advance
  <2>2. Locations' = Locations /\ pc' - 1 = pc
    BY <2>1, RunningTyped DEF Locations
  <2>3. UpTo' = UpTo /\ \A index, l, w : Named(index, l, w)' <=> Named(index, l, w)
    BY <2>1, IndexStays, NamedStays
  <2> QED BY <1>5, <2>2, <2>3 DEF HoldsOK, None
<1> QED BY <1>1, <1>4, <1>6

LEMMA NothingStep ==
  ASSUME OwnerOK, StoreOK, Followed, ExecutionOK, Running, Advance,
         UNCHANGED <<holds, points, derived, stopped, workers>>
  PROVE  StoreOK' /\ ExecutionOK'
<1>1. StoreOK'
  BY StoreStays DEF StoreOK
<1> QED BY <1>1, AdvanceKeeps DEF ExecutionOK

\* What the statement has in hand.
LEMMA InHand ==
  ASSUME OwnerOK, StoreOK, ExecutionOK, Stmt.src \in Places
  PROVE  /\ Value(Stmt.src) \in Locations \cup {None}
         /\ Value(Stmt.src) # None => Named(UpTo[pc - 1], Stmt.src, Value(Stmt.src))
BY ValueTyped, ValueNamed DEF ExecutionOK

LEMMA MakeStep ==
  ASSUME OwnerOK, StoreOK, Followed, ExecutionOK, RunMake
  PROVE  StoreOK' /\ ExecutionOK'
<1>1. Running /\ Advance /\ Stmt.op = "make" /\ Write(Stmt.dst, Made) /\ UNCHANGED <<derived, stopped, workers>>
  BY DEF RunMake
<1>2. Stmt.dst \in Places /\ Made \in Locations /\ Named(UpTo[pc], Stmt.dst, Made)
  BY <1>1, SeedMakes
<1>3. holds' \in [Locations -> Locations \cup {None}] /\ HoldsOK' /\ points' = points
  BY <1>1, <1>2, WriteStep
<1>4. StoreOK'
  BY <1>1, <1>3, StoreStays DEF StoreOK
<1> QED BY <1>1, <1>3, <1>4, AdvanceKeeps DEF ExecutionOK

LEMMA StoreStep ==
  ASSUME OwnerOK, StoreOK, Followed, ExecutionOK, RunStore
  PROVE  StoreOK' /\ ExecutionOK'
<1> DEFINE v == Value(Stmt.src)
<1>1. Running /\ Advance /\ Stmt.op = "store" /\ Write(Stmt.dst, v) /\ UNCHANGED <<derived, stopped, workers>>
  BY DEF RunStore
<1>2. Stmt.src \in Places
  BY <1>1, RunningTyped, StatementsTyped DEF Stmt
<1>3. v \in Locations \cup {None} /\ (v # None => Named(UpTo[pc - 1], Stmt.src, v))
  BY <1>2, InHand
<1> HIDE DEF v
<1>4. Stmt.dst \in Places /\ (v # None => Named(UpTo[pc], Stmt.dst, v))
  BY <1>1, <1>3, SeedStores
<1>5. holds' \in [Locations -> Locations \cup {None}] /\ HoldsOK' /\ points' = points
  BY <1>1, <1>3, <1>4, WriteStep
<1>6. StoreOK'
  BY <1>1, <1>5, StoreStays DEF StoreOK
<1> QED BY <1>1, <1>5, <1>6, AdvanceKeeps DEF ExecutionOK

\* In the order of contexts, the text goes as far as the execution.
LEMMA DerivedFrom ==
  ASSUME OwnerOK, StoreOK, Followed, ExecutionOK, RunDerive, Value(Stmt.src) # None
  PROVE  Value(Stmt.src)[1] \in Parents(Stmt.dst)
<1>1. Running /\ Op(pc) = "derive" /\ pc \in DOMAIN owner.body
  BY RunningTyped DEF RunDerive
<1>2. owner.kind = "context" /\ Stmt.src \in Places /\ pc \in At("derive")
  BY <1>1, StatementsTyped DEF Stmt, At
<1>3. Stmt.src \in Vars
  BY <1>2 DEF Followed, Stmt
<1>4. Value(Stmt.src)[1] = Stmt.src
  BY <1>2, <1>3, InHand DEF Named
<1> QED BY <1>2, <1>4 DEF Parents, Stmt

LEMMA DeriveStep ==
  ASSUME OwnerOK, StoreOK, Followed, ExecutionOK, RunDerive
  PROVE  StoreOK' /\ ExecutionOK'
<1> DEFINE v == Value(Stmt.src)
<1>1. /\ Running /\ Advance /\ Stmt.op = "derive" /\ Write(Stmt.dst, Made) /\ workers' = workers
      /\ derived' = derived \cup {<<v, Made>>} /\ stopped' = Downward(Made)
  BY DEF RunDerive
<1>2. owner' = owner /\ pc' = pc + 1 /\ helpers' = helpers
  BY <1>1 DEF Advance, summaryVars
<1>3. Stmt.dst \in Places /\ Made \in Locations /\ Named(UpTo[pc], Stmt.dst, Made) /\ Made[1] = Stmt.dst
  BY <1>1, SeedMakes DEF Made
<1>4. owner.kind = "context" /\ Stmt.src \in Places /\ v \in Locations \cup {None}
  BY <1>1, RunningTyped, StatementsTyped, ValueTyped DEF Stmt
<1>5. v # None => v[1] \in Parents(Stmt.dst)
  BY DerivedFrom
<1>6. stopped' = IF v \in stopped THEN stopped \cup {Made} ELSE stopped
  BY <1>1 DEF Downward
<1>7. holds' \in [Locations -> Locations \cup {None}] /\ HoldsOK' /\ points' = points
  BY <1>1, <1>3, WriteStep
<1> HIDE DEF v
<1>8. StoreOK'
  BY <1>1, <1>3, <1>4, <1>6, <1>7, StoreStays DEF StoreOK
<1>9. DerivedOK'
  <2>1. ASSUME NEW d \in derived', d[1] # None PROVE d[1][1] \in Parents(d[2][1])
    <3>1. CASE d \in derived
      BY <2>1, <3>1 DEF ExecutionOK, DerivedOK
    <3>2. CASE d = <<v, Made>>
      BY <1>3, <1>5, <2>1, <3>2
    <3> QED BY <1>1, <3>1, <3>2
  <2> QED BY <1>2, <1>4, <2>1, TextStays DEF DerivedOK, None
<1>10. StoppedOK'
  <2>1. ASSUME NEW c \in stopped' PROVE \E i \in At("stop") : i < pc /\ StoppedBy(i, c)
    <3>1. CASE c \in stopped
      BY <3>1 DEF ExecutionOK, StoppedOK
    <3>2. CASE c = Made /\ v \in stopped
      <4>1. PICK i \in At("stop") : i < pc /\ StoppedBy(i, v)
        BY <3>2 DEF ExecutionOK, StoppedOK
      <4>2. v # None
        BY <3>2, NoneApart DEF StoreOK
      <4>3. ASSUME NEW S \in SUBSET Places, c[1] \in S, \A x \in S : Parents(x) \subseteq S PROVE owner.body[i].src \in S
        <5>1. v[1] \in S
          BY <1>3, <1>5, <3>2, <4>2, <4>3
        <5> QED BY <1>4, <4>1, <4>3, <5>1 DEF StoppedBy
      <4>4. StoppedBy(i, c)
        BY <1>4, <4>3 DEF StoppedBy
      <4> QED BY <4>1, <4>4
    <3> QED BY <1>6, <3>1, <3>2
  <2>2. \A i, c : StoppedBy(i, c)' <=> StoppedBy(i, c)
    BY <1>2, HelpersStay, TextStays, IndexStays DEF StoppedBy
  <2>3. \A i \in At("stop") : i < pc => i < pc'
    BY <1>2, RunningTyped, <1>1 DEF At, OwnerOK
  <2> QED BY <1>2, <2>1, <2>2, <2>3, TextStays DEF StoppedOK
<1> QED BY <1>1, <1>7, <1>8, <1>9, <1>10, AdvanceKeeps DEF ExecutionOK

\* A pointer to a new holder is no alias.
LEMMA BuiltRooted ==
  ASSUME OwnerOK, Followed, NEW i \in At("build"), owner.body[i].dst \in Pointers
  PROVE  Anchors(owner.body[i].dst) # {} /\ CanonicalBase(owner.body[i].dst) = owner.body[i].dst
<1> DEFINE p == owner.body[i].dst
<1>1. i \in Writes(p) /\ AliasWrites(p) \subseteq Writes(p) /\ Stable(p)
  BY DEF Writes, AliasWrites, Followed
<1>2. i \notin AliasWrites(p)
  BY DEF AliasWrites, At
<1> HIDE DEF p
<1>3. AliasWrites(p) = {}
  BY <1>1, <1>2, WrittenOnce
<1>4. p \in Pointers
  BY DEF p
<1> QED BY <1>3, <1>4, BaseOfItself DEF p

LEMMA BuildStep ==
  ASSUME OwnerOK, StoreOK, Followed, ExecutionOK, RunBuild
  PROVE  StoreOK' /\ ExecutionOK'
<1> DEFINE v == Value(Stmt.src)
           dst == Stmt.dst
<1>1. Running /\ Advance /\ Stmt.op = "build" /\ UNCHANGED <<derived, stopped, workers>>
  BY DEF RunBuild
<1>2. IF dst \in Pointers
      THEN points' = [points EXCEPT ![dst] = Made] /\ holds' = [holds EXCEPT ![Made] = v]
      ELSE Write(dst, v)
  BY DEF RunBuild
<1>3. pc \in At("build") /\ Stmt.src \in Places /\ dst \in Places
  BY <1>1, RunningTyped, StatementsTyped DEF Stmt, At, Places
<1>4. v \in Locations \cup {None} /\ (v # None => Named(UpTo[pc - 1], Stmt.src, v))
  BY <1>3, InHand
<1>5. dst = owner.body[pc].dst
  BY DEF Stmt
<1>6. Made = <<dst, pc>> /\ pc \in 0 .. Len(owner.body)
  BY <1>1, RunningTyped DEF Made
<1> HIDE DEF v
<1>7. v # None => Named(UpTo[pc], dst, v)
  BY <1>1, <1>4, SeedStores
<1> HIDE DEF dst
<1>8. CASE dst \notin Pointers
  <2>1. holds' \in [Locations -> Locations \cup {None}] /\ HoldsOK' /\ points' = points
    BY <1>1, <1>2, <1>3, <1>4, <1>7, <1>8, WriteStep
  <2>2. StoreOK'
    BY <1>1, <2>1, StoreStays DEF StoreOK
  <2> QED BY <1>1, <2>1, <2>2, AdvanceKeeps DEF ExecutionOK
<1>9. CASE dst \in Pointers
  <2>1. points' = [points EXCEPT ![dst] = Made] /\ holds' = [holds EXCEPT ![Made] = v]
    BY <1>2, <1>9
  <2>2. Made \in Pointers \X (0 .. Len(owner.body)) /\ Made \in Locations /\ Made[1] = dst
    BY <1>3, <1>6, <1>9 DEF Locations
  <2>3. owner' = owner /\ pc' = pc + 1
    BY <1>1 DEF Advance
  <2>4. /\ points \in [Pointers -> (Pointers \X (0 .. Len(owner.body))) \cup {None}]
        /\ holds \in [Locations -> Locations \cup {None}]
    BY DEF StoreOK
  <2>5. StoreOK'
    <3>1. points' \in [Pointers -> (Pointers \X (0 .. Len(owner.body))) \cup {None}]
      BY <2>1, <2>2, <2>4
    <3>2. holds' \in [Locations -> Locations \cup {None}]
      BY <1>4, <2>1, <2>2, <2>4
    <3> QED BY <1>1, <3>1, <3>2, StoreStays DEF StoreOK
  <2>6. Anchors(dst) # {} /\ CanonicalBase(dst) = dst
    BY <1>3, <1>5, <1>9, BuiltRooted
  <2>7. PointsOK'
    <3>1. ASSUME NEW p \in Pointers, points'[p] # None
          PROVE  Anchors(p) # {} /\ CanonicalBase(points'[p][1]) = CanonicalBase(p)
      <4>1. CASE p = dst
        BY <2>1, <2>2, <2>4, <2>6, <4>1
      <4>2. CASE p # dst
        BY <2>1, <2>4, <3>1, <4>2 DEF ExecutionOK, PointsOK
      <4> QED BY <4>1, <4>2
    <3> QED BY <2>3, <3>1, BasesStay DEF PointsOK, None
  <2>8. HoldsOK'
    <3>1. ASSUME NEW l \in Locations, holds'[l] # None PROVE Named(UpTo[pc], l[1], holds'[l])
      <4>1. CASE l = Made
        <5>1. holds'[l] = v
          BY <2>1, <2>2, <2>4, <4>1
        <5> QED BY <1>7, <2>2, <3>1, <4>1, <5>1
      <4>2. CASE l # Made
        <5>1. holds'[l] = holds[l]
          BY <2>1, <2>4, <4>2
        <5>2. Named(UpTo[pc - 1], l[1], holds[l]) /\ l[1] \in Places
          BY <3>1, <5>1 DEF ExecutionOK, HoldsOK, Locations
        <5> QED BY <1>1, <5>1, <5>2, RunningTyped, NamedGrows
      <4> QED BY <4>1, <4>2
    <3>2. Locations' = Locations /\ pc' - 1 = pc
      BY <1>1, <2>3, RunningTyped DEF Locations
    <3>3. UpTo' = UpTo /\ \A index, l, w : Named(index, l, w)' <=> Named(index, l, w)
      BY <2>3, IndexStays, NamedStays
    <3> QED BY <3>1, <3>2, <3>3 DEF HoldsOK, None
  <2> QED BY <1>1, <2>5, <2>7, <2>8, AdvanceKeeps DEF ExecutionOK
<1> QED BY <1>8, <1>9

LEMMA AliasStep ==
  ASSUME OwnerOK, StoreOK, Followed, ExecutionOK, RunAlias
  PROVE  StoreOK' /\ ExecutionOK'
<1> DEFINE v == Value(Stmt.src)
           dst == Stmt.dst
           src == Stmt.src
<1>1. Running /\ Advance /\ Stmt.op = "alias" /\ UNCHANGED <<derived, stopped, workers>>
  BY DEF RunAlias
<1>2. IF dst \in Pointers THEN points' = [points EXCEPT ![dst] = points[src]] /\ holds' = holds ELSE Write(dst, v)
  BY DEF RunAlias
<1>3. pc \in At("alias") /\ src \in Places /\ dst \in Places
  BY <1>1, RunningTyped, StatementsTyped DEF Stmt, At, Places, Holders
<1>4. CASE dst \notin Pointers
  <2>1. v \in Locations \cup {None} /\ (v # None => Named(UpTo[pc - 1], Stmt.src, v))
    BY <1>3, InHand
  <2> HIDE DEF v
  <2>2. v # None => Named(UpTo[pc], dst, v)
    BY <1>1, <1>4, <2>1, SeedCopies
  <2> HIDE DEF dst
  <2>3. holds' \in [Locations -> Locations \cup {None}] /\ HoldsOK' /\ points' = points
    BY <1>1, <1>2, <1>3, <1>4, <2>1, <2>2, WriteStep
  <2>4. StoreOK'
    BY <1>1, <2>3, StoreStays DEF StoreOK
  <2> QED BY <1>1, <2>3, <2>4, AdvanceKeeps DEF ExecutionOK
<1>5. CASE dst \in Pointers
  <2>1. points' = [points EXCEPT ![dst] = points[src]] /\ holds' = holds
    BY <1>2, <1>5
  <2>2. owner' = owner
    BY <1>1 DEF Advance
  <2>3. src \in Pointers /\ AliasOf(dst) = src
    BY <1>3, <1>5, AliasIs DEF Followed, Stmt
  <2> HIDE DEF dst, src
  <2>4. points \in [Pointers -> (Pointers \X (0 .. Len(owner.body))) \cup {None}]
    BY DEF StoreOK
  <2>5. points' \in [Pointers -> (Pointers \X (0 .. Len(owner.body))) \cup {None}]
    BY <2>1, <2>3, <2>4
  <2>6. StoreOK'
    BY <1>1, <2>1, <2>5, StoreStays DEF StoreOK
  <2>7. PointsOK'
    <3>1. ASSUME NEW p \in Pointers, points'[p] # None
          PROVE  Anchors(p) # {} /\ CanonicalBase(points'[p][1]) = CanonicalBase(p)
      <4>1. CASE p = dst
        <5>1. points'[p] = points[src]
          BY <2>1, <2>4, <4>1
        <5>2. Anchors(src) # {} /\ CanonicalBase(points[src][1]) = CanonicalBase(src)
          BY <2>3, <3>1, <5>1 DEF ExecutionOK, PointsOK
        <5>3. Anchors(dst) # {} /\ CanonicalBase(dst) = CanonicalBase(src)
          BY <1>5, <2>3, <5>2, BaseOfAlias
        <5> QED BY <4>1, <5>1, <5>2, <5>3
      <4>2. CASE p # dst
        BY <2>1, <2>4, <3>1, <4>2 DEF ExecutionOK, PointsOK
      <4> QED BY <4>1, <4>2
    <3> QED BY <2>2, <3>1, BasesStay DEF PointsOK, None
  <2> QED BY <1>1, <2>1, <2>6, <2>7, AdvanceKeeps DEF ExecutionOK
<1> QED BY <1>4, <1>5

LEMMA SpawnStep ==
  ASSUME OwnerOK, StoreOK, Followed, ExecutionOK, RunSpawn
  PROVE  StoreOK' /\ ExecutionOK'
<1> DEFINE v == Value(Stmt.src)
<1>1. /\ Running /\ Advance /\ Stmt.op = "spawn" /\ UNCHANGED <<holds, points, derived, stopped>>
      /\ workers' = workers \cup {[at |-> pc, on |-> v]}
  BY DEF RunSpawn
<1>2. pc \in At("spawn") /\ pc - 1 \in 0 .. Len(owner.body) /\ owner' = owner
  BY <1>1, RunningTyped DEF At, Advance
<1>3. Stmt.src \in Places
  BY <1>1, RunningTyped, StatementsTyped DEF Stmt
<1>4. v \in Locations \cup {None} /\ (v # None => Named(UpTo[pc - 1], Stmt.src, v))
  BY <1>3, InHand
<1> HIDE DEF v
<1>5. StoreOK'
  <2>1. \A w \in workers' : w.at \in At("spawn") /\ w.on \in Locations \cup {None}
    BY <1>1, <1>2, <1>4 DEF StoreOK
  <2> QED BY <1>1, <2>1, StoreStays DEF StoreOK
<1>6. SourcesCover'
  <2>1. ASSUME NEW w \in workers', w.on # None PROVE w.on[1] \in Sources(owner.body[w.at].src)
    <3>1. CASE w \in workers
      BY <2>1, <3>1 DEF ExecutionOK, SourcesCover
    <3>2. CASE w = [at |-> pc, on |-> v]
      <4>1. v[1] \in Sources(Stmt.src)
        BY <1>2, <1>3, <1>4, <2>1, <3>2, NamedInSources
      <4> QED BY <3>2, <4>1 DEF Stmt
    <3> QED BY <1>1, <3>1, <3>2
  <2> QED BY <1>2, <2>1, IndexStays DEF SourcesCover, None
<1> QED BY <1>1, <1>5, <1>6, AdvanceKeeps DEF ExecutionOK

\* The contexts under one that is cancelled are made from it by name.
LEMMA UnderStopped ==
  ASSUME OwnerOK, StoreOK, DerivedOK, NEW v \in Locations, NEW i, StoppedBy(i, v), NEW c \in Under(v)
  PROVE  c \in Locations /\ StoppedBy(i, c)
<1> DEFINE contexts == {v} \cup {d[2] : d \in derived}
           Closed(S) == v \in S /\ \A d \in derived : d[1] \in S => d[2] \in S
           T == {y \in contexts : StoppedBy(i, y)}
<1>1. c \in contexts /\ \A S \in SUBSET contexts : Closed(S) => c \in S
  BY DEF Under
<1>2. \A d \in derived : d[2] \in Locations
  BY DEF StoreOK
<1>3. contexts \subseteq Locations
  BY <1>2
<1>4. Closed(T)
  <2>1. v \in T
    OBVIOUS
  <2>2. ASSUME NEW d \in derived, d[1] \in T PROVE d[2] \in T
    <3>1. owner.kind = "context"
      BY <2>2 DEF DerivedOK, OwnerOK
    <3>2. d[1] # None /\ StoppedBy(i, d[1])
      BY <1>3, <2>2, NoneApart
    <3>3. d[1][1] \in Parents(d[2][1])
      BY <2>2, <3>2 DEF DerivedOK
    <3>4. ASSUME NEW S \in SUBSET Places, d[2][1] \in S, \A x \in S : Parents(x) \subseteq S
          PROVE  owner.body[i].src \in S
      <4>1. d[1][1] \in S
        BY <3>3, <3>4
      <4> QED BY <3>1, <3>2, <3>4, <4>1 DEF StoppedBy
    <3>5. StoppedBy(i, d[2])
      BY <3>1, <3>4 DEF StoppedBy
    <3> QED BY <2>2, <3>5
  <2> HIDE DEF T
  <2> QED BY <2>1, <2>2
<1>5. T \in SUBSET contexts
  OBVIOUS
<1>6. c \in T
  <2> HIDE DEF T, contexts, Closed
  <2> QED BY <1>1, <1>4, <1>5
<1> QED BY <1>1, <1>3, <1>6

LEMMA StopStep ==
  ASSUME OwnerOK, StoreOK, Followed, ExecutionOK, RunStop
  PROVE  StoreOK' /\ ExecutionOK'
<1> DEFINE v == Value(Stmt.src)
<1>1. Running /\ Advance /\ Stmt.op = "stop" /\ UNCHANGED <<holds, points, derived, workers>>
  BY DEF RunStop
<1>2. \/ stopped' = stopped
      \/ /\ v # None /\ stopped' = stopped \cup Under(v)
         /\ owner.kind = "channel" => Stmt.in = "none" \/ MustClose(Stmt.in)
  BY DEF RunStop
<1>3. pc \in At("stop") /\ pc - 1 \in 0 .. Len(owner.body) /\ Stmt.src \in Places
  BY <1>1, RunningTyped, StatementsTyped DEF At, Stmt
<1>4. v \in Locations \cup {None} /\ (v # None => Named(UpTo[pc - 1], Stmt.src, v))
  BY <1>3, InHand
<1> HIDE DEF v
<1>5. CASE stopped' = stopped
  BY <1>1, <1>5, NothingStep
<1>6. CASE stopped' # stopped
  <2>1. v \in Locations /\ v # None /\ stopped' = stopped \cup Under(v)
    BY <1>2, <1>4, <1>6
  <2>2. StoppedBy(pc, v)
    <3>1. CASE owner.kind = "channel"
      <4>1. v[1] \in Sources(Stmt.src)
        BY <1>3, <1>4, <2>1, NamedInSources
      <4>2. Stmt.in = "none" \/ MustClose(Stmt.in)
        BY <1>2, <1>6, <3>1
      <4> QED BY <3>1, <4>1, <4>2 DEF StoppedBy, Stmt
    <3>2. CASE owner.kind = "context"
      <4>1. Stmt.src \in Vars
        BY <1>3, <3>2 DEF Followed, Stmt
      <4>2. v[1] = Stmt.src
        BY <1>4, <2>1, <3>2, <4>1 DEF Named
      <4> QED BY <3>2, <4>2 DEF StoppedBy, Stmt
    <3> QED BY <3>1, <3>2 DEF OwnerOK
  <2>3. DerivedOK
    BY DEF ExecutionOK
  <2>4. \A c \in Under(v) : c \in Locations /\ StoppedBy(pc, c)
    BY <2>1, <2>2, <2>3, UnderStopped
  <2>5. StoreOK'
    <3>1. stopped' \subseteq Locations
      BY <2>1, <2>4 DEF StoreOK
    <3> QED BY <1>1, <3>1, StoreStays DEF StoreOK
  <2>6. owner' = owner /\ pc' = pc + 1 /\ helpers' = helpers /\ pc \in Nat
    BY <1>1, RunningTyped DEF Advance, summaryVars, OwnerOK
  <2>7. StoppedOK'
    <3>1. ASSUME NEW c \in stopped' PROVE \E i \in At("stop") : i < pc + 1 /\ StoppedBy(i, c)
      <4>1. CASE c \in stopped
        <5>1. PICK i \in At("stop") : i < pc /\ StoppedBy(i, c)
          BY <4>1 DEF ExecutionOK, StoppedOK
        <5>2. i \in Nat
          BY DEF At, OwnerOK
        <5> QED BY <2>6, <5>1, <5>2
      <4>2. CASE c \in Under(v)
        BY <1>3, <2>4, <2>6, <4>2
      <4> QED BY <2>1, <3>1, <4>1, <4>2
    <3>2. \A i, c : StoppedBy(i, c)' <=> StoppedBy(i, c)
      BY <2>6, HelpersStay, TextStays, IndexStays DEF StoppedBy
    <3> QED BY <2>6, <3>1, <3>2, TextStays DEF StoppedOK
  <2> QED BY <1>1, <2>5, <2>7, AdvanceKeeps DEF ExecutionOK
<1> QED BY <1>5, <1>6

-----------------------------------------------------------------------------
\* The specification once more, with its executions

LEMMA ExecutionStarts ==
  ASSUME Init, OwnerOK, Followed
  PROVE  StoreOK /\ ExecutionOK
<1>1. /\ pc = 1 /\ derived = {} /\ stopped = {} /\ workers = {}
      /\ holds = [l \in Locations |-> IF l[2] = 0 /\ l[1] \in owner.params THEN l ELSE None]
      /\ points = [p \in Pointers |-> IF p \in owner.params THEN <<p, 0>> ELSE None]
  BY DEF Init
<1>2. Len(owner.body) \in Nat /\ 0 \in 0 .. Len(owner.body) /\ 1 \in 1 .. Len(owner.body) + 1
  BY DEF OwnerOK
<1>3. holds \in [Locations -> Locations \cup {None}]
  BY <1>1
<1>4. points \in [Pointers -> (Pointers \X (0 .. Len(owner.body))) \cup {None}]
  <2>1. \A p \in Pointers : <<p, 0>> \in Pointers \X (0 .. Len(owner.body))
    BY <1>2
  <2> QED BY <1>1, <2>1
<1>5. StoreOK
  BY <1>1, <1>2, <1>3, <1>4 DEF StoreOK
<1>6. PointsOK
  <2>1. ASSUME NEW p \in Pointers, points[p] # None
        PROVE  Anchors(p) # {} /\ CanonicalBase(points[p][1]) = CanonicalBase(p)
    <3>1. p \in owner.params /\ points[p] = <<p, 0>>
      BY <1>1, <2>1
    <3> QED BY <3>1, ParamsRooted
  <2> QED BY <2>1 DEF PointsOK
<1>7. HoldsOK
  <2>1. ASSUME NEW l \in Locations, holds[l] # None PROVE Named(UpTo[0], l[1], holds[l])
    <3>1. l[1] \in owner.params /\ holds[l] = l /\ l[1] \in Places
      BY <1>1, <2>1 DEF Locations
    <3>2. CASE owner.kind = "channel"
      <4>1. CanonicalBase(l[1]) = l[1]
        BY <3>1, BaseTyped, ParamsRooted
      <4> QED BY <3>1, <3>2, <4>1 DEF Named
    <3>3. CASE owner.kind = "context"
      <4>1. l[1] \in Vars
        BY <3>1, <3>3 DEF Followed
      <4> QED BY <3>1, <3>3, <4>1 DEF Named
    <3> QED BY <3>2, <3>3 DEF OwnerOK
  <2>2. pc - 1 = 0
    BY <1>1
  <2> QED BY <2>1, <2>2 DEF HoldsOK
<1>8. SourcesCover /\ DerivedOK /\ StoppedOK
  BY <1>1 DEF SourcesCover, DerivedOK, StoppedOK
<1> QED BY <1>5, <1>6, <1>7, <1>8 DEF ExecutionOK

\* What is asked and judged leaves the execution alone.
LEMMA NothingRuns ==
  ASSUME helpers' = helpers, UNCHANGED <<owner, pc, holds, points, derived, stopped, workers>>,
         StoreOK, ExecutionOK
  PROVE  StoreOK' /\ ExecutionOK'
<1>1. Locations' = Locations
  BY DEF Locations
<1>2. StoreOK'
  BY <1>1, TextStays DEF StoreOK, None
<1>3. PointsOK'
  BY BasesStay DEF ExecutionOK, PointsOK, None
<1>4. HoldsOK'
  BY <1>1, IndexStays, NamedStays DEF ExecutionOK, HoldsOK, None
<1>5. SourcesCover'
  BY IndexStays DEF ExecutionOK, SourcesCover, None
<1>6. DerivedOK'
  BY TextStays DEF ExecutionOK, DerivedOK, None
<1>7. StoppedOK'
  <2>1. \A i, c : StoppedBy(i, c)' <=> StoppedBy(i, c)
    BY HelpersStay, TextStays, IndexStays DEF StoppedBy
  <2> QED BY <2>1, TextStays DEF ExecutionOK, StoppedOK
<1> QED BY <1>2, <1>3, <1>4, <1>5, <1>6, <1>7 DEF ExecutionOK

LEMMA ExecutionStep ==
  ASSUME OwnerOK, StoreOK, Followed, ExecutionOK, [Next]_vars
  PROVE  StoreOK' /\ ExecutionOK'
<1>1. CASE AskSome
  BY <1>1, NothingRuns DEF AskSome, Ask, ownerVars
<1>2. CASE SearchSome
  BY <1>2, NothingRuns DEF SearchSome, Search, SearchDirect, SearchAnswered, SearchDeeper, Answer, ownerVars
<1>3. CASE Judge
  BY <1>3, NothingRuns DEF Judge, summaryVars
<1>4. CASE Skip
  BY <1>4, NothingStep DEF Skip
<1>5. CASE RunWait
  BY <1>5, NothingStep DEF RunWait
<1>6. CASE UNCHANGED vars
  BY <1>6, NothingRuns DEF vars, ownerVars, summaryVars
<1> QED BY <1>1, <1>2, <1>3, <1>4, <1>5, <1>6, MakeStep, DeriveStep, StoreStep, BuildStep, AliasStep, SpawnStep, StopStep
        DEF Next

LEMMA VerdictStep ==
  ASSUME VerdictOK, [Next]_vars
  PROVE  VerdictOK'
<1>1. CASE AskSome
  BY <1>1 DEF AskSome, ownerVars, VerdictOK
<1>2. CASE SearchSome
  <2>1. stack # <<>> /\ verdict' = verdict
    BY <1>2 DEF SearchSome, Search, SearchDirect, SearchAnswered, SearchDeeper, Answer, ownerVars
  <2> QED BY <2>1 DEF VerdictOK
<1>3. CASE Judge
  <2>1. /\ owner' = owner /\ memo' = memo /\ stack' = <<>> /\ (verdict' = "late" => Late)
        /\ \A q \in Needs : memo[q].known
    BY <1>3 DEF Judge, summaryVars
  <2> QED BY <2>1, LateStays, TextStays DEF VerdictOK
<1>4. CASE UNCHANGED summaryVars /\ owner' = owner /\ verdict' = verdict
  <2>1. memo' = memo /\ stack' = stack
    BY <1>4 DEF summaryVars
  <2> QED BY <1>4, <2>1, LateStays, TextStays DEF VerdictOK
<1>5. CASE Advance
  BY <1>4, <1>5 DEF Advance
<1>6. CASE UNCHANGED vars
  BY <1>4, <1>6 DEF vars, ownerVars
<1> QED BY <1>1, <1>2, <1>3, <1>5, <1>6 DEF Next, Skip, RunMake, RunDerive, RunStore, RunBuild, RunAlias,
        RunSpawn, RunStop, RunWait

SignalsInv ==
  /\ OwnerOK /\ SearchesInv /\ VerdictOK
  /\ Followed => StoreOK /\ ExecutionOK

LEMMA SignalsInvariant == Spec => []SignalsInv
<1>1. Init => SignalsInv
  <2> SUFFICES ASSUME Init PROVE SignalsInv
    OBVIOUS
  <2>1. OwnerOK /\ SearchesInv
    BY InvStarts
  <2>2. VerdictOK
    BY DEF Init, VerdictOK
  <2> QED BY <2>1, <2>2, ExecutionStarts DEF SignalsInv
<1>2. SignalsInv /\ [Next]_vars => SignalsInv'
  <2> SUFFICES ASSUME SignalsInv, [Next]_vars PROVE SignalsInv'
    OBVIOUS
  <2>1. OwnerOK' /\ SearchesInv'
    BY InvStep DEF SignalsInv
  <2>2. VerdictOK'
    BY VerdictStep DEF SignalsInv
  <2>3. owner' = owner
    BY DEF Next, AskSome, SearchSome, Judge, Skip, RunMake, RunDerive, RunStore, RunBuild, RunAlias,
        RunSpawn, RunStop, RunWait, Advance, vars, ownerVars
  <2>4. Followed' => StoreOK' /\ ExecutionOK'
    BY <2>3, ExecutionStep, TextStays DEF SignalsInv
  <2> QED BY <2>1, <2>2, <2>4 DEF SignalsInv
<1> QED BY <1>1, <1>2, PTL DEF Spec

\* Of every owner that the indices are made for, however its statements alias, copy and
\* store, and whichever of its conditions hold: what a worker is on is among the sources
\* that the text gives for it (channelSourceIndex, contextSourceIndex, sourcesForExpr).
THEOREM SourcesCorrect == Spec => [](Followed => SourcesCover)
<1>1. SignalsInv => (Followed => SourcesCover)
  BY DEF SignalsInv, ExecutionOK
<1> QED BY <1>1, SignalsInvariant, PTL

LEMMA StopIsSignal ==
  ASSUME SignalsInv, Followed, ClosersEnd, verdict = "late", NEW w \in workers, DependsOn(w.at), w.on \in stopped,
         NEW i \in At("stop"), StoppedBy(i, w.on)
  PROVE  i \in StopSignalsFor
<1>1. OwnerOK /\ MemoOK(memo) /\ VerdictOK /\ StoreOK /\ SourcesCover
  BY DEF SignalsInv, SearchesInv, ExecutionOK
<1>2. w.at \in At("spawn") /\ w.on # None
  BY <1>1, NoneApart DEF StoreOK
<1>3. w.on[1] \in WorkerStops
  BY <1>1, <1>2 DEF WorkerStops, SourcesCover
<1>4. CASE owner.kind = "channel"
  <2>1. (owner.body[i].in = "none" \/ MustClose(owner.body[i].in)) /\ w.on[1] \in Sources(owner.body[i].src)
    BY <1>4 DEF StoppedBy
  <2>2. Closes(i)
    <3> SUFFICES ASSUME owner.body[i].in # "none" PROVE UsedByParam("closed", owner.body[i].in)
      BY DEF Closes
    <3>1. owner.body[i].in \in Helpers /\ Terminating(owner.body[i].in)
      BY <1>1, <1>4, StatementsTyped DEF At, ClosersEnd
    <3>2. [kind |-> "closed", of |-> owner.body[i].in] \in Needs
      BY DEF Needs
    <3>3. memo[[kind |-> "closed", of |-> owner.body[i].in]].known
      BY <1>1, <3>2 DEF VerdictOK
    <3> QED BY <1>1, <2>1, <3>1, <3>3 DEF MemoOK, UsedByParam
  <2> QED BY <1>3, <1>4, <2>1, <2>2 DEF StopSignalsFor, ChannelSignals
<1>5. CASE owner.kind # "channel"
  <2>1. DerivesFromAny(WorkerStops, owner.body[i].src)
    BY <1>3, <1>5 DEF DerivesFromAny, StoppedBy
  <2> QED BY <1>5, <2>1 DEF StopSignalsFor, ContextSignals
<1> QED BY <1>4, <1>5

\* Where a wait is reported, none of the workers it speaks of has been stopped when the
\* owner comes to it: every stop that reaches a worker is among the signals judged
\* (stopSignalsFor, computeStopOrdering).
THEOREM LateCorrect == Spec => [](Followed /\ ClosersEnd => LateIsReal)
<1>1. ASSUME SignalsInv, Followed, ClosersEnd PROVE LateIsReal
  <2> SUFFICES ASSUME verdict = "late", pc = WaitAt, NEW w \in workers, DependsOn(w.at), w.on \in stopped
               PROVE  FALSE
    BY DEF LateIsReal
  <2>1. PICK i \in At("stop") : i < pc /\ StoppedBy(i, w.on)
    BY <1>1 DEF SignalsInv, ExecutionOK, StoppedOK
  <2>2. i \in StopSignalsFor
    BY <1>1, <2>1, StopIsSignal
  <2>3. i > WaitAt
    BY <1>1, <2>2 DEF SignalsInv, VerdictOK, Late
  <2>4. i \in Nat /\ pc \in Nat
    BY <1>1 DEF SignalsInv, StoreOK, OwnerOK, At
  <2> QED BY <2>1, <2>3, <2>4
<1> QED BY <1>1, SignalsInvariant, PTL
=============================================================================
