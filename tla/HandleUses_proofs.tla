-------------------------- MODULE HandleUses_proofs --------------------------
(***************************************************************************)
(* Proofs about HandleUses, for every program, every bound on the depth    *)
(* and every recursion.                                                    *)
(***************************************************************************)
EXTENDS HandleUses, WellFoundedInduction, SequenceTheorems, TLAPS

-----------------------------------------------------------------------------
(* Least and largest numbers.                                              *)

LEMMA MinIsLeast ==
  ASSUME NEW S \in SUBSET Nat, S # {}
  PROVE  Min(S) \in S /\ \A x \in S : Min(S) <= x
<1>1. PICK m \in S : \A x \in S : ~(<<x, m>> \in OpToRel(<, Nat))
  BY NatLessThanWellFounded, WFMin
<1>2. ASSUME NEW x \in S PROVE m <= x
  <2>1. x \in Nat /\ m \in Nat
    OBVIOUS
  <2>2. ~(x < m)
    BY <1>1, <2>1 DEF OpToRel
  <2> QED BY <2>1, <2>2
<1> QED BY <1>1, <1>2 DEF Min

LEMMA MaxIsLargest ==
  ASSUME NEW n \in Nat, NEW S \in SUBSET (0 .. n), S # {}
  PROVE  Max(S) \in S /\ \A x \in S : x <= Max(S)
<1> DEFINE R == {n - x : x \in S}
<1>1. R \in SUBSET Nat /\ R # {}
  <2>1. ASSUME NEW x \in S PROVE n - x \in Nat
    <3>1. x \in 0 .. n
      OBVIOUS
    <3> QED BY <3>1
  <2> QED BY <2>1
<1>2. PICK m \in R : \A y \in R : m <= y
  <2> HIDE DEF R
  <2> QED BY <1>1, MinIsLeast
<1>3. PICK z \in S : m = n - z
  BY <1>2
<1>4. \A x \in S : z >= x
  <2> TAKE x \in S
  <2>1. n - x \in R
    OBVIOUS
  <2>2. m <= n - x
    BY <1>2, <2>1
  <2>3. x \in Int /\ z \in Int /\ n \in Int
    OBVIOUS
  <2> QED BY <1>3, <2>2, <2>3
<1>5. Max(S) \in S /\ \A x \in S : Max(S) >= x
  BY <1>3, <1>4 DEF Max
<1> QED BY <1>5

LEMMA MinOfTwo ==
  ASSUME NEW i \in Nat, NEW j \in Nat
  PROVE  /\ Min({i, j}) \in {i, j}
         /\ Min({i, j}) <= i /\ Min({i, j}) <= j
BY MinIsLeast

-----------------------------------------------------------------------------
(* What may be done to a variable, as deeds, and sets that keep from one.  *)

Kinds == {"called", "waited", "touched", "handled", "lost"}
Deed == [kind: Kinds, field: Fields \cup {Opaque}]

AtOnce(d) == d.kind \in {"called", "waited"}

\* The use does it by itself.
Does(u, d) ==
  \/ d.kind = "called" /\ u.op = "call" /\ ~u.async /\ u.field = d.field
  \/ d.kind = "waited" /\ u.op = "wait" /\ ~u.async /\ u.field = d.field
  \/ d.kind = "touched" /\ u.op = "touch" /\ u.field = d.field
  \/ d.kind = "handled" /\ u.op \in {"call", "touch"} /\ u.field = d.field
  \/ d.kind = "lost" /\ (u.op = "lose" \/ (u.op = "pass" /\ u.to = Opaque))

\* The use hands the variable to another that may do it.
Follows(u, d) == u.op = "pass" /\ u.to # Opaque /\ (AtOnce(d) => ~u.async)

\* A summary says that it is done.
Says(s, d) ==
  \/ d.kind = "called" /\ d.field \in s.called
  \/ d.kind = "waited" /\ d.field \in s.waited
  \/ d.kind = "touched" /\ d.field \in s.touched
  \/ d.kind = "handled" /\ d.field \in s.touched \cup s.called
  \/ d.kind = "lost" /\ s.escapes

\* No variable of T does it, and what they are passed to is in T or among A.
Aloof(T, A, d) ==
  \A v \in T : \A j \in DOMAIN Uses(v) :
    ~Does(Uses(v)[j], d) /\ (Follows(Uses(v)[j], d) => Uses(v)[j].to \in T \cup A)

Never(v, d) == \E T \in SUBSET Selves : v \in T /\ Aloof(T, {}, d)

\* What a body says when its summary is exact.
Exact(s, v) ==
  \A d \in Deed : /\ Says(s, d) \/ Never(v, d)
                  /\ d.kind # "touched" => ~(Says(s, d) /\ Never(v, d))

ProgramTyped ==
  /\ \A v \in Selves : Uses(v) \in Seq(UseOf(Ops))
  /\ Body \in Seq(UseOf(Ops \cup {"store", "return"}))
  /\ \A v \in Selves : \A j \in DOMAIN Uses(v) : Uses(v)[j].op = "wait" => Uses(v)[j].field \in GroupFields

LEMMA ProgramIsTyped ==
  ASSUME NEW i \in DOMAIN Programs, program \in Programs[i]
  PROVE  ProgramTyped
BY ProgramsAssumption DEF ProgramTyped, Uses, Body

LEMMA UseTyped ==
  ASSUME ProgramTyped, NEW v \in Selves, NEW j \in DOMAIN Uses(v)
  PROVE  /\ Uses(v)[j] \in UseOf(Ops)
         /\ Uses(v)[j].op \in Ops /\ Uses(v)[j].field \in Fields /\ Uses(v)[j].async \in BOOLEAN
         /\ Uses(v)[j].to \in Selves \cup {Opaque}
<1>1. Uses(v)[j] \in UseOf(Ops)
  BY DEF ProgramTyped
<1> QED BY <1>1 DEF UseOf

LEMMA BodyTyped ==
  ASSUME ProgramTyped, NEW p \in DOMAIN Body
  PROVE  /\ Body[p].op \in Ops \cup {"store", "return"} /\ Body[p].field \in Fields
         /\ Body[p].async \in BOOLEAN /\ Body[p].if \in BOOLEAN /\ Body[p].tracked \in BOOLEAN
         /\ Body[p].to \in Selves \cup {Opaque}
<1>1. Body[p] \in UseOf(Ops \cup {"store", "return"})
  BY DEF ProgramTyped
<1> QED BY <1>1 DEF UseOf

\* Two sets that keep from it do so together.
LEMMA AloofTogether ==
  ASSUME NEW d, NEW S, NEW T, NEW A, NEW B, NEW C, Aloof(S, A, d), Aloof(T, B, d),
         A \subseteq C, B \subseteq C
  PROVE  Aloof(S \cup T, C, d)
BY DEF Aloof

LEMMA DoneByItself ==
  ASSUME NEW v, NEW d, NEW j \in DOMAIN Uses(v), Does(Uses(v)[j], d)
  PROVE  ~Never(v, d)
BY DEF Never, Aloof

LEMMA DoneByAnother ==
  ASSUME NEW v, NEW d, NEW j \in DOMAIN Uses(v), Follows(Uses(v)[j], d), ~Never(Uses(v)[j].to, d)
  PROVE  ~Never(v, d)
BY DEF Never, Aloof

-----------------------------------------------------------------------------
(* What the calls can do, in the words of the model.                       *)

Around(d) == IF AtOnce(d) THEN ClosedAtOnce ELSE Closed
Whom(v, d) == IF AtOnce(d) THEN ReachAtOnce(v) ELSE Reach(v)

LEMMA AroundIs ==
  ASSUME NEW d, NEW S \in SUBSET Selves
  PROVE  S \in Around(d) <=>
           \A v \in S : \A j \in DOMAIN Uses(v) : Follows(Uses(v)[j], d) => Uses(v)[j].to \in S
<1>1. CASE AtOnce(d)
  BY <1>1 DEF Around, ClosedAtOnce, Passes, Follows
<1>2. CASE ~AtOnce(d)
  BY <1>2 DEF Around, Closed, Passes, Follows
<1> QED BY <1>1, <1>2

LEMMA CoreIs ==
  ASSUME ProgramTyped, NEW d, NEW v \in Selves
  PROVE  /\ Whom(v, d) \in SUBSET Selves /\ v \in Whom(v, d)
         /\ Whom(v, d) \in Around(d)
         /\ \A S \in Around(d) : v \in S => Whom(v, d) \subseteq S
<1>1. Whom(v, d) = {w \in Selves : \A S \in Around(d) : v \in S => w \in S}
  BY HandlesAssumption DEF Whom, Around, Reach, ReachAtOnce, Core
<1>2. Around(d) \subseteq SUBSET Selves
  BY DEF Around, Closed, ClosedAtOnce
<1> DEFINE W == Whom(v, d)
<1>3. W \in SUBSET Selves /\ v \in W /\ \A S \in Around(d) : v \in S => W \subseteq S
  BY <1>1
<1>4. ASSUME NEW x \in W, NEW j \in DOMAIN Uses(x), Follows(Uses(x)[j], d)
      PROVE  Uses(x)[j].to \in W
  <2>1. Uses(x)[j].to \in Selves
    BY <1>3, <1>4, UseTyped DEF Follows
  <2>2. \A S \in Around(d) : v \in S => Uses(x)[j].to \in S
    BY <1>2, <1>3, <1>4, AroundIs
  <2> QED BY <1>1, <2>1, <2>2
<1> QED BY <1>3, <1>4, AroundIs

LEMMA NeverIs ==
  ASSUME ProgramTyped, NEW d, NEW v \in Selves
  PROVE  Never(v, d) <=> \A x \in Whom(v, d) : \A j \in DOMAIN Uses(x) : ~Does(Uses(x)[j], d)
<1> DEFINE W == Whom(v, d)
<1>1. ASSUME NEW T \in SUBSET Selves, v \in T, Aloof(T, {}, d) PROVE W \subseteq T
  <2>1. T \in Around(d)
    BY <1>1, AroundIs DEF Aloof
  <2> QED BY <1>1, <2>1, CoreIs
<1>2. \A x \in W : \A j \in DOMAIN Uses(x) : Follows(Uses(x)[j], d) => Uses(x)[j].to \in W
  BY CoreIs, AroundIs
<1> QED BY <1>1, <1>2, CoreIs DEF Never, Aloof
The(kind, f) == [kind |-> kind, field |-> f]

LEMMA CallsAtOnceHas ==
  ASSUME ProgramTyped, NEW v \in Selves, NEW f
  PROVE  f \in CallsAtOnce(v) <=>
           \E x \in ReachAtOnce(v) : \E j \in DOMAIN Uses(x) :
             Uses(x)[j].op = "call" /\ ~Uses(x)[j].async /\ Uses(x)[j].field = f
<1>1. \A x \in Selves : \A j \in DOMAIN Uses(x) : Uses(x)[j].async \in BOOLEAN
  BY UseTyped
<1>2. \A w : Reach(w) \subseteq Selves /\ ReachAtOnce(w) \subseteq Selves
  BY DEF Reach, ReachAtOnce, Core
<1> QED BY <1>1, <1>2 DEF CallsAtOnce, FieldsIn, UsesIn

LEMMA WaitsAtOnceHas ==
  ASSUME ProgramTyped, NEW v \in Selves, NEW f
  PROVE  f \in WaitsAtOnce(v) <=>
           \E x \in ReachAtOnce(v) : \E j \in DOMAIN Uses(x) :
             Uses(x)[j].op = "wait" /\ ~Uses(x)[j].async /\ Uses(x)[j].field = f
<1>1. \A x \in Selves : \A j \in DOMAIN Uses(x) : Uses(x)[j].async \in BOOLEAN
  BY UseTyped
<1>2. \A w : Reach(w) \subseteq Selves /\ ReachAtOnce(w) \subseteq Selves
  BY DEF Reach, ReachAtOnce, Core
<1> QED BY <1>1, <1>2 DEF WaitsAtOnce, FieldsIn, UsesIn

LEMMA TouchesHas ==
  ASSUME ProgramTyped, NEW v \in Selves, NEW f
  PROVE  f \in Touches(v) <=>
           \E x \in Reach(v) : \E j \in DOMAIN Uses(x) :
             Uses(x)[j].op = "touch" /\ Uses(x)[j].field = f
<1>1. \A x \in Selves : \A j \in DOMAIN Uses(x) : Uses(x)[j].async \in BOOLEAN
  BY UseTyped
<1>2. \A w : Reach(w) \subseteq Selves /\ ReachAtOnce(w) \subseteq Selves
  BY DEF Reach, ReachAtOnce, Core
<1> QED BY <1>1, <1>2 DEF Touches, FieldsIn, UsesIn

LEMMA CallsLaterHas ==
  ASSUME ProgramTyped, NEW v \in Selves, NEW f
  PROVE  f \in CallsLater(v) <=>
           \/ \E x \in Reach(v) : \E j \in DOMAIN Uses(x) :
                Uses(x)[j].op = "call" /\ Uses(x)[j].async /\ Uses(x)[j].field = f
           \/ \E y \in Reach(v) : \E u \in Passes(y) : u.async /\
                \E x \in Reach(u.to) : \E j \in DOMAIN Uses(x) :
                  Uses(x)[j].op = "call" /\ ~Uses(x)[j].async /\ Uses(x)[j].field = f
<1> DEFINE Ws == UNION {{u.to : u \in {p \in Passes(x) : p.async}} : x \in Reach(v)}
           Some(w) == FieldsIn(Reach(w), "call", FALSE)
           Async == FieldsIn(Reach(v), "call", TRUE)
<1>6. \A x \in Selves : \A j \in DOMAIN Uses(x) : Uses(x)[j].async \in BOOLEAN
  BY UseTyped
<1>7. \A w : Reach(w) \subseteq Selves /\ ReachAtOnce(w) \subseteq Selves
  BY DEF Reach, ReachAtOnce, Core
<1>1. \A w : w \in Ws <=> \E y \in Reach(v) : \E u \in Passes(y) : u.async /\ w = u.to
  OBVIOUS
<1>2. CallsLater(v) = Async \cup UNION {Some(w) : w \in Ws}
  BY DEF CallsLater
<1>3. \A w : f \in Some(w) <=> \E x \in Reach(w) : \E j \in DOMAIN Uses(x) :
                Uses(x)[j].op = "call" /\ ~Uses(x)[j].async /\ Uses(x)[j].field = f
  BY <1>6, <1>7 DEF FieldsIn, UsesIn
<1>4. f \in Async <=> \E x \in Reach(v) : \E j \in DOMAIN Uses(x) :
                Uses(x)[j].op = "call" /\ Uses(x)[j].async /\ Uses(x)[j].field = f
  BY <1>6, <1>7 DEF FieldsIn, UsesIn
<1> HIDE DEF Ws, Some, Async
<1>5. f \in CallsLater(v) <=> f \in Async \/ \E w \in Ws : f \in Some(w)
  BY <1>2
<1> QED BY <1>1, <1>3, <1>4, <1>5

LEMMA CalledIs ==
  ASSUME ProgramTyped, NEW v \in Selves, NEW f \in Fields
  PROVE  ~Never(v, The("called", f)) <=> f \in CallsAtOnce(v)
<1> DEFINE d == The("called", f)
<1>1. d.kind = "called" /\ d.field = f /\ AtOnce(d) /\ Whom(v, d) = ReachAtOnce(v)
  BY DEF The, AtOnce, Whom
<1>2. \A x \in Selves : \A j \in DOMAIN Uses(x) : Uses(x)[j].async \in BOOLEAN
  BY UseTyped
<1> HIDE DEF d
<1>3. Whom(v, d) \in SUBSET Selves
  BY CoreIs
<1>4. ~Never(v, d) <=> \E x \in Whom(v, d) : \E j \in DOMAIN Uses(x) : Does(Uses(x)[j], d)
  BY NeverIs
<1> QED BY <1>1, <1>2, <1>3, <1>4, CallsAtOnceHas DEF d, Does

LEMMA WaitedIs ==
  ASSUME ProgramTyped, NEW v \in Selves, NEW f \in Fields
  PROVE  ~Never(v, The("waited", f)) <=> f \in WaitsAtOnce(v)
<1> DEFINE d == The("waited", f)
<1>1. d.kind = "waited" /\ d.field = f /\ AtOnce(d) /\ Whom(v, d) = ReachAtOnce(v)
  BY DEF The, AtOnce, Whom
<1>2. \A x \in Selves : \A j \in DOMAIN Uses(x) : Uses(x)[j].async \in BOOLEAN
  BY UseTyped
<1> HIDE DEF d
<1>3. Whom(v, d) \in SUBSET Selves
  BY CoreIs
<1>4. ~Never(v, d) <=> \E x \in Whom(v, d) : \E j \in DOMAIN Uses(x) : Does(Uses(x)[j], d)
  BY NeverIs
<1> QED BY <1>1, <1>2, <1>3, <1>4, WaitsAtOnceHas DEF d, Does

LEMMA TouchedIs ==
  ASSUME ProgramTyped, NEW v \in Selves, NEW f \in Fields
  PROVE  ~Never(v, The("touched", f)) <=> f \in Touches(v)
<1> DEFINE d == The("touched", f)
<1>1. d.kind = "touched" /\ d.field = f /\ ~AtOnce(d) /\ Whom(v, d) = Reach(v)
  BY DEF The, AtOnce, Whom
<1>2. \A x \in Selves : \A j \in DOMAIN Uses(x) : Uses(x)[j].async \in BOOLEAN
  BY UseTyped
<1> HIDE DEF d
<1>3. Whom(v, d) \in SUBSET Selves
  BY CoreIs
<1>4. ~Never(v, d) <=> \E x \in Whom(v, d) : \E j \in DOMAIN Uses(x) : Does(Uses(x)[j], d)
  BY NeverIs
<1> QED BY <1>1, <1>2, <1>3, <1>4, TouchesHas DEF d, Does

LEMMA LostIs ==
  ASSUME ProgramTyped, NEW v \in Selves, NEW f
  PROVE  ~Never(v, The("lost", f)) <=> Loses(v)
<1> DEFINE d == The("lost", f)
<1>1. d.kind = "lost" /\ ~AtOnce(d) /\ Whom(v, d) = Reach(v)
  BY DEF The, AtOnce, Whom
<1> HIDE DEF d
<1>2. ~Never(v, d) <=> \E x \in Whom(v, d) : \E j \in DOMAIN Uses(x) : Does(Uses(x)[j], d)
  BY NeverIs
<1>3. v # Opaque
  BY HandlesAssumption
<1> QED BY <1>1, <1>2, <1>3 DEF d, Loses, UsesIn, Does

\* What somebody calls is called at once or later.
LEMMA HandledIs ==
  ASSUME ProgramTyped, NEW v \in Selves, NEW f \in Fields
  PROVE  ~Never(v, The("handled", f)) <=> f \in Touches(v) \cup CallsLater(v) \cup CallsAtOnce(v)
<1> DEFINE d == The("handled", f)
           soon == The("called", f)
<1>1. /\ d.kind = "handled" /\ d.field = f /\ ~AtOnce(d) /\ Around(d) = Closed
      /\ AtOnce(soon) /\ Around(soon) = ClosedAtOnce
      /\ \A w : Whom(w, d) = Reach(w) /\ Whom(w, soon) = ReachAtOnce(w)
  BY DEF The, AtOnce, Whom, Around
<1>2. \A x \in Selves : \A j \in DOMAIN Uses(x) : /\ Uses(x)[j].async \in BOOLEAN
                                                  /\ Uses(x)[j].to \in Selves \cup {Opaque}
  BY UseTyped
<1> HIDE DEF d, soon
<1>3. \A w \in Selves : /\ Reach(w) \in SUBSET Selves /\ w \in Reach(w) /\ Reach(w) \in Closed
                        /\ ReachAtOnce(w) \in SUBSET Selves /\ ReachAtOnce(w) \in ClosedAtOnce
                        /\ w \in ReachAtOnce(w)
                        /\ \A S \in Closed : w \in S => Reach(w) \subseteq S
                        /\ \A S \in ClosedAtOnce : w \in S => ReachAtOnce(w) \subseteq S
  <2> TAKE w \in Selves
  <2>1. /\ Whom(w, d) \in SUBSET Selves /\ w \in Whom(w, d) /\ Whom(w, d) \in Around(d)
        /\ \A S \in Around(d) : w \in S => Whom(w, d) \subseteq S
    BY CoreIs
  <2>2. /\ Whom(w, soon) \in SUBSET Selves /\ w \in Whom(w, soon) /\ Whom(w, soon) \in Around(soon)
        /\ \A S \in Around(soon) : w \in S => Whom(w, soon) \subseteq S
    BY CoreIs
  <2> QED BY <1>1, <2>1, <2>2
<1>4. Reach(Opaque) = {}
  <2>1. {} \in Closed
    BY DEF Closed
  <2> QED BY <2>1 DEF Reach, Core
<1>5. ~Never(v, d) <=> \E x \in Reach(v) : \E j \in DOMAIN Uses(x) :
                         Uses(x)[j].op \in {"call", "touch"} /\ Uses(x)[j].field = f
  <2>1. ~Never(v, d) <=> \E x \in Whom(v, d) : \E j \in DOMAIN Uses(x) : Does(Uses(x)[j], d)
    BY NeverIs
  <2> QED BY <1>1, <2>1 DEF Does
<1> DEFINE Later(x) == \E y \in Reach(v) : \E u \in Passes(y) : u.async /\ x \in Reach(u.to)
<1>8. \A x \in Selves : \A u \in Passes(x) : /\ u.to \in Selves \cup {Opaque} /\ u.async \in BOOLEAN
                                              /\ \E j \in DOMAIN Uses(x) : u = Uses(x)[j]
  BY <1>2 DEF Passes
<1>9. \A S \in Closed : S \subseteq Selves /\ \A x \in S : \A u \in Passes(x) : u.to \in S \cup {Opaque}
  BY DEF Closed
<1>10. \A S \in ClosedAtOnce : \A x \in S : \A u \in Passes(x) : u.async \/ u.to \in S \cup {Opaque}
  BY DEF ClosedAtOnce
<1>11. Closed \subseteq ClosedAtOnce
  BY DEF Closed, ClosedAtOnce
<1>12. ReachAtOnce(v) \subseteq Reach(v)
  BY <1>3, <1>11
<1>13. ASSUME NEW x, Later(x) PROVE x \in Reach(v) /\ x \in Selves
  <2>1. PICK y \in Reach(v) : \E u \in Passes(y) : u.async /\ x \in Reach(u.to)
    BY <1>13
  <2>2. PICK u \in Passes(y) : x \in Reach(u.to)
    BY <2>1
  <2>3. u.to \in Reach(v)
    BY <1>3, <1>4, <1>8, <1>9, <2>2
  <2>4. u.to \in Selves /\ Reach(u.to) \subseteq Reach(v)
    BY <1>3, <2>3
  <2> QED BY <1>3, <2>2, <2>4
<1>14. \A x \in Reach(v) : x \in ReachAtOnce(v) \/ Later(x)
  <2> DEFINE S == {x \in Selves : x \in ReachAtOnce(v) \/ Later(x)}
  <2>1. ASSUME NEW x \in S, NEW u \in Passes(x), u.to # Opaque PROVE u.to \in S
    <3>1. u.to \in Selves /\ u.async \in BOOLEAN /\ u.to \in Reach(u.to)
      BY <1>3, <1>8, <2>1
    <3>2. CASE x \in ReachAtOnce(v)
      <4>1. CASE u.async
        <5>1. x \in Reach(v)
          BY <1>12, <3>2
        <5> QED BY <3>1, <4>1, <5>1
      <4>2. CASE ~u.async
        BY <1>3, <1>10, <2>1, <3>1, <3>2, <4>2
      <4> QED BY <4>1, <4>2
    <3>3. CASE Later(x)
      <4>1. PICK y \in Reach(v) : \E w \in Passes(y) : w.async /\ x \in Reach(w.to)
        BY <3>3
      <4>2. PICK w \in Passes(y) : w.async /\ x \in Reach(w.to)
        BY <4>1
      <4>3. w.to \in Selves
        BY <1>3, <1>4, <1>8, <4>2
      <4>4. u.to \in Reach(w.to)
        BY <1>3, <1>9, <2>1, <4>2, <4>3
      <4>5. Later(u.to)
        BY <4>2, <4>4
      <4> HIDE DEF Later
      <4> QED BY <3>1, <4>5
    <3> HIDE DEF Later
    <3> QED BY <3>2, <3>3
  <2> HIDE DEF Later
  <2>2. S \in Closed
    BY <2>1 DEF Closed
  <2>3. v \in S
    BY <1>3
  <2>4. Reach(v) \subseteq S
    <3> HIDE DEF S
    <3> QED BY <1>3, <2>2, <2>3
  <2> QED BY <2>4
<1>15. ASSUME NEW x \in Reach(v), NEW j \in DOMAIN Uses(x), Uses(x)[j].op = "call", Uses(x)[j].field = f
       PROVE  f \in CallsLater(v) \cup CallsAtOnce(v)
  <2>1. Uses(x)[j].async \in BOOLEAN
    BY <1>2, <1>3
  <2>2. CASE Uses(x)[j].async
    BY <1>15, <2>1, <2>2, CallsLaterHas
  <2>3. CASE ~Uses(x)[j].async /\ x \in ReachAtOnce(v)
    BY <1>15, <2>1, <2>3, CallsAtOnceHas
  <2>4. CASE ~Uses(x)[j].async /\ Later(x)
    <3>1. PICK y \in Reach(v) : \E u \in Passes(y) : u.async /\ x \in Reach(u.to)
      BY <2>4
    <3>2. PICK u \in Passes(y) : u.async /\ x \in Reach(u.to)
      BY <3>1
    <3> QED BY <1>15, <2>1, <2>4, <3>2, CallsLaterHas
  <2> HIDE DEF Later
  <2> QED BY <1>14, <2>1, <2>2, <2>3, <2>4
<1>16. ASSUME f \in CallsLater(v)
       PROVE  \E x \in Reach(v) : \E j \in DOMAIN Uses(x) : Uses(x)[j].op = "call" /\ Uses(x)[j].field = f
  <2>1. ASSUME NEW y \in Reach(v), NEW u \in Passes(y), u.async, NEW x \in Reach(u.to) PROVE x \in Reach(v)
    <3>1. Later(x)
      BY <2>1
    <3> HIDE DEF Later
    <3> QED BY <1>13, <3>1
  <2> QED BY <1>16, <2>1, CallsLaterHas
<1>17. ASSUME f \in CallsAtOnce(v)
       PROVE  \E x \in Reach(v) : \E j \in DOMAIN Uses(x) : Uses(x)[j].op = "call" /\ Uses(x)[j].field = f
  BY <1>12, <1>17, CallsAtOnceHas
<1>18. f \in Touches(v) <=>
         \E x \in Reach(v) : \E j \in DOMAIN Uses(x) : Uses(x)[j].op = "touch" /\ Uses(x)[j].field = f
  BY <1>2, <1>3, TouchesHas
<1> QED BY <1>5, <1>15, <1>16, <1>17, <1>18 DEF d

\* An exact summary, in the words of SummariesExact.
LEMMA ExactMeans ==
  ASSUME ProgramTyped, NEW v \in Selves, NEW sum \in Summary, Exact(sum, v)
  PROVE  /\ sum.called = CallsAtOnce(v)
         /\ sum.waited = WaitsAtOnce(v)
         /\ sum.touched \cup sum.called = Touches(v) \cup CallsLater(v) \cup CallsAtOnce(v)
         /\ sum.escapes = Loses(v)
<1>1. \A kind \in Kinds : \A f \in Fields \cup {Opaque} :
        The(kind, f) \in Deed /\ The(kind, f).kind = kind /\ The(kind, f).field = f
  BY DEF The, Deed
<1>2. \A kind \in Kinds : \A f \in Fields \cup {Opaque} :
        kind # "touched" => (Says(sum, The(kind, f)) <=> ~Never(v, The(kind, f)))
  BY <1>1 DEF Exact
<1>3. sum.called \subseteq Fields /\ sum.waited \subseteq Fields /\ sum.touched \subseteq Fields
      /\ sum.escapes \in BOOLEAN
  BY DEF Summary
<1>4. /\ CallsAtOnce(v) \subseteq Fields /\ WaitsAtOnce(v) \subseteq Fields
      /\ Touches(v) \subseteq Fields /\ CallsLater(v) \subseteq Fields
  <2>1. \A w \in Selves : Reach(w) \subseteq Selves /\ ReachAtOnce(w) \subseteq Selves
    BY DEF Reach, ReachAtOnce, Core
  <2>2. \A w : Reach(w) \subseteq Selves
    BY DEF Reach, Core
  <2>3. \A x \in Selves : \A j \in DOMAIN Uses(x) : Uses(x)[j].field \in Fields
    BY UseTyped
  <2>4. CallsAtOnce(v) \subseteq Fields
    BY <2>1, <2>3, CallsAtOnceHas
  <2>5. WaitsAtOnce(v) \subseteq Fields
    BY <2>1, <2>3, WaitsAtOnceHas
  <2>6. Touches(v) \subseteq Fields
    BY <2>1, <2>3, TouchesHas
  <2>7. CallsLater(v) \subseteq Fields
    BY <2>2, <2>3, CallsLaterHas
  <2> QED BY <2>4, <2>5, <2>6, <2>7
<1>5. \A f \in Fields : f \in sum.called <=> f \in CallsAtOnce(v)
  <2> TAKE f \in Fields
  <2>1. Says(sum, The("called", f)) <=> f \in sum.called
    BY <1>1 DEF Says, Kinds
  <2> QED BY <1>2, <2>1, CalledIs DEF Kinds
<1>6. \A f \in Fields : f \in sum.waited <=> f \in WaitsAtOnce(v)
  <2> TAKE f \in Fields
  <2>1. Says(sum, The("waited", f)) <=> f \in sum.waited
    BY <1>1 DEF Says, Kinds
  <2> QED BY <1>2, <2>1, WaitedIs DEF Kinds
<1>7. \A f \in Fields : f \in sum.touched \cup sum.called <=>
                           f \in Touches(v) \cup CallsLater(v) \cup CallsAtOnce(v)
  <2> TAKE f \in Fields
  <2>1. Says(sum, The("handled", f)) <=> f \in sum.touched \cup sum.called
    BY <1>1 DEF Says, Kinds
  <2> QED BY <1>2, <2>1, HandledIs DEF Kinds
<1>8. sum.escapes <=> Loses(v)
  <2>1. Says(sum, The("lost", Opaque)) <=> sum.escapes
    BY <1>1 DEF Says, Kinds
  <2> QED BY <1>2, <2>1, LostIs DEF Kinds
<1>9. sum.escapes = Loses(v)
  <2>1. Loses(v) \in BOOLEAN
    BY DEF Loses
  <2> QED BY <1>3, <1>8, <2>1
<1> QED BY <1>3, <1>4, <1>5, <1>6, <1>7, <1>9

-----------------------------------------------------------------------------
(* How a summary grows.                                                    *)

LEMMA ClassifySays ==
  ASSUME NEW s \in Summary, NEW u \in UseOf(Ops), u.op # "pass", NEW d \in Deed
  PROVE  /\ Classify(s, u) \in Summary
         /\ Says(s, d) \/ Does(u, d) => Says(Classify(s, u), d)
         /\ d.kind # "touched" /\ Says(Classify(s, u), d) => Says(s, d) \/ Does(u, d)
<1>1. u.field \in Fields /\ u.op \in Ops
  BY DEF UseOf
<1>2. CASE u.op = "call"
  <2>1. CASE u.async
    BY <1>1, <1>2, <2>1 DEF Classify, Summary, Says, Does, Deed, Kinds
  <2>2. CASE ~u.async
    BY <1>1, <1>2, <2>2 DEF Classify, Summary, Says, Does, Deed, Kinds
  <2> QED BY <2>1, <2>2
<1>3. CASE u.op = "wait"
  <2>1. CASE u.async
    BY <1>1, <1>3, <2>1 DEF Classify, Summary, Says, Does, Deed, Kinds
  <2>2. CASE ~u.async
    BY <1>1, <1>3, <2>2 DEF Classify, Summary, Says, Does, Deed, Kinds
  <2> QED BY <2>1, <2>2
<1>4. CASE u.op = "start"
  BY <1>1, <1>4 DEF Classify, Summary, Says, Does, Deed, Kinds
<1>5. CASE u.op = "touch"
  BY <1>1, <1>5 DEF Classify, Summary, Says, Does, Deed, Kinds
<1>6. CASE u.op = "lose"
  BY <1>1, <1>6 DEF Classify, Summary, Says, Does, Deed, Kinds
<1> QED BY <1>1, <1>2, <1>3, <1>4, <1>5, <1>6 DEF Ops

LEMMA MergeSays ==
  ASSUME NEW s \in Summary, NEW t \in Summary, NEW async \in BOOLEAN, NEW d \in Deed
  PROVE  /\ Merge(s, t, async) \in Summary
         /\ Says(s, d) \/ (Says(t, d) /\ (AtOnce(d) => ~async)) => Says(Merge(s, t, async), d)
         /\ d.kind # "touched" /\ Says(Merge(s, t, async), d) =>
              Says(s, d) \/ (Says(t, d) /\ (AtOnce(d) => ~async))
<1>1. CASE async
  BY <1>1 DEF Merge, Summary, Says, AtOnce, Deed, Kinds
<1>2. CASE ~async
  BY <1>2 DEF Merge, Summary, Says, AtOnce, Deed, Kinds
<1> QED BY <1>1, <1>2

LEMMA NothingSaysNothing ==
  ASSUME NEW d \in Deed
  PROVE  ~Says(Nothing, d) /\ Nothing \in Summary
BY DEF Nothing, Says, Summary

-----------------------------------------------------------------------------
(* Frames.  What a frame has not found yet is kept from by a set that      *)
(* leads out only to the variables of the stack where a recursion was cut. *)

Cut(st, k, low) == {st[j].self : j \in {i \in 1 .. k : i >= low}}

FrameComplete(st, k, fr) ==
  /\ fr.low = 0 => fr.sum.escapes
  /\ \A d \in Deed :
       \/ Says(fr.sum, d) \/ fr.low = 0
       \/ \E T \in SUBSET Selves :
            /\ Aloof(T, Cut(st, k, fr.low), d)
            /\ \A j \in DOMAIN Uses(fr.self) : j < fr.next =>
                 /\ ~Does(Uses(fr.self)[j], d)
                 /\ Follows(Uses(fr.self)[j], d) => Uses(fr.self)[j].to \in T \cup Cut(st, k, fr.low)

FrameSound(fr) ==
  \A d \in Deed : d.kind # "touched" /\ Says(fr.sum, d) =>
    ~Never(fr.self, d) \/ (d.kind = "lost" /\ fr.low = 0)

\* An answer about w to the frame k of a stack, or to the owner when k is 0.
AnswerComplete(st, k, w, ans) ==
  /\ ~ans.ok => ans.sum = Nothing /\ (w = Opaque \/ ans.low = 0)
  /\ ans.ok /\ ans.low = 0 => ans.sum.escapes
  /\ \A d \in Deed :
       \/ ~ans.ok \/ Says(ans.sum, d) \/ ans.low = 0
       \/ \E T \in SUBSET Selves : /\ Aloof(T, Cut(st, k, ans.low), d)
                                   /\ w \in T \cup Cut(st, k, ans.low)

AnswerSound(w, ans) ==
  ans.ok =>
    /\ w # Opaque
    /\ \A d \in Deed : d.kind # "touched" /\ Says(ans.sum, d) =>
         ~Never(w, d) \/ (d.kind = "lost" /\ ans.low = 0)

FrameRecord == [self: Selves, next: Nat \ {0}, sum: Summary, low: Index]
AnswerRecord == [ok: BOOLEAN, sum: Summary, low: Index]

LEMMA CutGrows ==
  ASSUME NEW st, NEW k, NEW i \in Nat, NEW j \in Nat, j <= i
  PROVE  Cut(st, k, i) \subseteq Cut(st, k, j)
BY DEF Cut

\* A use that calls nothing is looked at.
LEMMA RecordKeeps ==
  ASSUME ProgramTyped, NEW st, NEW k, NEW fr \in FrameRecord, fr.next \in DOMAIN Uses(fr.self),
         NEW u, u = Uses(fr.self)[fr.next], u.op # "pass",
         NEW new, new = TakeNote(fr), FrameComplete(st, k, fr), FrameSound(fr)
  PROVE  FrameComplete(st, k, new) /\ FrameSound(new) /\ new \in FrameRecord
<1>1. u \in UseOf(Ops) /\ fr.self \in Selves /\ fr.sum \in Summary /\ fr.next \in Nat \ {0}
  BY UseTyped DEF FrameRecord
<1>0. new = [self |-> fr.self, next |-> fr.next + 1, sum |-> Classify(fr.sum, u), low |-> fr.low]
  BY DEF TakeNote, FrameRecord
<1>2. new.self = fr.self /\ new.low = fr.low /\ new.next = fr.next + 1 /\ new.sum = Classify(fr.sum, u)
  BY <1>0
<1>3. new \in FrameRecord
  <2>1. Classify(fr.sum, u) \in Summary
    <3>1. [kind |-> "lost", field |-> Opaque] \in Deed
      BY DEF Deed, Kinds
    <3> QED BY <1>1, <3>1, ClassifySays
  <2>3. fr.low \in Index /\ fr.next + 1 \in Nat \ {0}
    BY <1>1 DEF FrameRecord
  <2> QED BY <1>0, <1>1, <2>1, <2>3 DEF FrameRecord
<1>4. \A d \in Deed : /\ Says(fr.sum, d) \/ Does(u, d) => Says(new.sum, d)
                      /\ d.kind # "touched" /\ Says(new.sum, d) => Says(fr.sum, d) \/ Does(u, d)
  BY <1>1, <1>2, ClassifySays
<1>5. new.low = 0 => new.sum.escapes
  <2>1. [kind |-> "lost", field |-> Opaque] \in Deed
    BY DEF Deed, Kinds
  <2> QED BY <1>2, <1>4, <2>1 DEF FrameComplete, Says
<1>6. FrameSound(new)
  <2> SUFFICES ASSUME NEW d \in Deed, d.kind # "touched", Says(new.sum, d)
               PROVE  ~Never(fr.self, d) \/ (d.kind = "lost" /\ fr.low = 0)
    BY <1>2 DEF FrameSound
  <2> QED BY <1>4, DoneByItself DEF FrameSound
<1>7. ASSUME NEW d \in Deed, ~Says(new.sum, d), new.low # 0
      PROVE  \E T \in SUBSET Selves :
               /\ Aloof(T, Cut(st, k, new.low), d)
               /\ \A j \in DOMAIN Uses(new.self) : j < new.next =>
                    /\ ~Does(Uses(new.self)[j], d)
                    /\ Follows(Uses(new.self)[j], d) => Uses(new.self)[j].to \in T \cup Cut(st, k, new.low)
  <2>1. ~Says(fr.sum, d) /\ ~Does(u, d) /\ fr.low # 0
    BY <1>2, <1>4, <1>7
  <2>2. PICK T \in SUBSET Selves :
            /\ Aloof(T, Cut(st, k, fr.low), d)
            /\ \A j \in DOMAIN Uses(fr.self) : j < fr.next =>
                 /\ ~Does(Uses(fr.self)[j], d)
                 /\ Follows(Uses(fr.self)[j], d) => Uses(fr.self)[j].to \in T \cup Cut(st, k, fr.low)
    BY <2>1 DEF FrameComplete
  <2>3. ~Follows(u, d)
    BY DEF Follows
  <2>4. \A j \in DOMAIN Uses(fr.self) : j < fr.next + 1 => j < fr.next \/ j = fr.next
    BY <1>1 DEF ProgramTyped
  <2> QED BY <1>2, <2>1, <2>2, <2>3, <2>4
<1> QED BY <1>3, <1>5, <1>6, <1>7 DEF FrameComplete

\* The answer for a use that passes the variable on is taken in.
LEMMA TakeInKeeps ==
  ASSUME ProgramTyped, NEW st, NEW k, NEW fr \in FrameRecord, fr.next \in DOMAIN Uses(fr.self),
         NEW u, u = Uses(fr.self)[fr.next], u.op = "pass", NEW ans \in AnswerRecord,
         AnswerComplete(st, k, u.to, ans), AnswerSound(u.to, ans),
         NEW new, new = TakeIn(fr, ans), FrameComplete(st, k, fr), FrameSound(fr)
  PROVE  FrameComplete(st, k, new) /\ FrameSound(new) /\ new \in FrameRecord
<1> DEFINE low == Min({fr.low, ans.low})
           sum == IF ans.ok THEN Merge(fr.sum, ans.sum, u.async) ELSE [fr.sum EXCEPT !.escapes = TRUE]
<1>1. /\ u \in UseOf(Ops) /\ u.async \in BOOLEAN /\ u.to \in Selves \cup {Opaque}
      /\ fr.self \in Selves /\ fr.sum \in Summary /\ fr.next \in Nat \ {0} /\ fr.low \in Index
      /\ ans.sum \in Summary /\ ans.low \in Index /\ ans.ok \in BOOLEAN
  BY UseTyped DEF FrameRecord, AnswerRecord
<1>2. new = [self |-> fr.self, next |-> fr.next + 1, sum |-> sum, low |-> low]
  BY DEF TakeIn, FrameRecord
<1>3. Index \subseteq Nat /\ 0 \in Index
  BY HandlesAssumption DEF Index, NoReceiverCycle
<1>4. /\ low \in {fr.low, ans.low} /\ low <= fr.low /\ low <= ans.low
      /\ fr.low \in Nat /\ ans.low \in Nat /\ low \in Nat
      /\ fr.low = 0 \/ ans.low = 0 <=> low = 0
  <2>1. fr.low \in Nat /\ ans.low \in Nat
    BY <1>1, <1>3
  <2>2. low \in {fr.low, ans.low} /\ low <= fr.low /\ low <= ans.low
    BY <2>1, MinOfTwo
  <2> HIDE DEF low
  <2> QED BY <2>1, <2>2
<1>5. [kind |-> "lost", field |-> Opaque] \in Deed
  BY DEF Deed, Kinds
<1>6. sum \in Summary
  <2>1. CASE ans.ok
    BY <1>1, <1>5, <2>1, MergeSays
  <2>2. CASE ~ans.ok
    BY <1>1, <2>2 DEF Summary
  <2> QED BY <1>1, <2>1, <2>2
<1>7. /\ new.self = fr.self /\ new.next = fr.next + 1 /\ new.sum = sum /\ new.low = low
      /\ new \in FrameRecord
  <2>1. fr.next + 1 \in Nat \ {0} /\ low \in Index
    BY <1>1, <1>4
  <2> HIDE DEF sum, low
  <2> QED BY <1>1, <1>2, <1>6, <2>1 DEF FrameRecord
<1>8. \A d \in Deed : ans.ok =>
        /\ Says(fr.sum, d) \/ (Says(ans.sum, d) /\ (AtOnce(d) => ~u.async)) => Says(sum, d)
        /\ d.kind # "touched" /\ Says(sum, d) => Says(fr.sum, d) \/ (Says(ans.sum, d) /\ (AtOnce(d) => ~u.async))
  <2> SUFFICES ASSUME NEW d \in Deed, ans.ok
               PROVE  /\ Says(fr.sum, d) \/ (Says(ans.sum, d) /\ (AtOnce(d) => ~u.async)) => Says(sum, d)
                      /\ d.kind # "touched" /\ Says(sum, d) =>
                           Says(fr.sum, d) \/ (Says(ans.sum, d) /\ (AtOnce(d) => ~u.async))
    OBVIOUS
  <2>1. sum = Merge(fr.sum, ans.sum, u.async)
    OBVIOUS
  <2> HIDE DEF sum
  <2> QED BY <1>1, <2>1, MergeSays
<1>9. \A d \in Deed : ~ans.ok =>
        /\ Says(fr.sum, d) \/ d.kind = "lost" => Says(sum, d)
        /\ Says(sum, d) => Says(fr.sum, d) \/ d.kind = "lost"
  <2> SUFFICES ASSUME NEW d \in Deed, ~ans.ok
               PROVE  /\ Says(fr.sum, d) \/ d.kind = "lost" => Says(sum, d)
                      /\ Says(sum, d) => Says(fr.sum, d) \/ d.kind = "lost"
    OBVIOUS
  <2>1. sum = [fr.sum EXCEPT !.escapes = TRUE]
    OBVIOUS
  <2>2. /\ sum.called = fr.sum.called /\ sum.waited = fr.sum.waited
        /\ sum.touched = fr.sum.touched /\ sum.escapes = TRUE
    BY <1>1, <2>1 DEF Summary
  <2> HIDE DEF sum
  <2> QED BY <2>2 DEF Says
<1> HIDE DEF sum, low
<1>10. new.low = 0 => new.sum.escapes
  <2> SUFFICES ASSUME low = 0 PROVE Says(sum, [kind |-> "lost", field |-> Opaque])
    BY <1>7 DEF Says
  <2> DEFINE lost == [kind |-> "lost", field |-> Opaque]
  <2>1. ~ans.ok \/ Says(fr.sum, lost) \/ Says(ans.sum, lost)
    BY <1>4 DEF FrameComplete, AnswerComplete, Says
  <2>2. lost.kind = "lost" /\ ~AtOnce(lost)
    BY DEF AtOnce
  <2> HIDE DEF lost
  <2> QED BY <1>5, <1>8, <1>9, <2>1, <2>2 DEF lost
<1>11. FrameSound(new)
  <2> SUFFICES ASSUME NEW d \in Deed, d.kind # "touched", Says(sum, d)
               PROVE  ~Never(fr.self, d) \/ (d.kind = "lost" /\ low = 0)
    BY <1>7 DEF FrameSound
  <2>1. CASE Says(fr.sum, d)
    <3>1. fr.low = 0 => low = 0
      BY <1>1, <1>3, <1>4
    <3> QED BY <2>1, <3>1 DEF FrameSound
  <2>2. CASE ans.ok /\ Says(ans.sum, d) /\ (AtOnce(d) => ~u.async)
    <3>1. Follows(u, d)
      BY <2>2 DEF AnswerSound, Follows
    <3>2. ~Never(u.to, d) \/ (d.kind = "lost" /\ ans.low = 0)
      BY <2>2 DEF AnswerSound
    <3>3. ans.low = 0 => low = 0
      BY <1>1, <1>3, <1>4
    <3> QED BY <3>1, <3>2, <3>3, DoneByAnother
  <2>3. CASE ~ans.ok /\ d.kind = "lost"
    <3>1. u.to = Opaque \/ ans.low = 0
      BY <2>3 DEF AnswerComplete
    <3>2. CASE u.to = Opaque
      <4>1. Does(u, d)
        BY <2>3, <3>2 DEF Does
      <4> QED BY <4>1, DoneByItself
    <3>3. ans.low = 0 => low = 0
      BY <1>1, <1>3, <1>4
    <3> QED BY <2>3, <3>1, <3>2, <3>3
  <2> QED BY <1>1, <1>8, <1>9, <2>1, <2>2, <2>3
<1>12. ASSUME NEW d \in Deed, ~Says(sum, d), low # 0
      PROVE  \E T \in SUBSET Selves :
               /\ Aloof(T, Cut(st, k, low), d)
               /\ \A j \in DOMAIN Uses(fr.self) : j < fr.next + 1 =>
                    /\ ~Does(Uses(fr.self)[j], d)
                    /\ Follows(Uses(fr.self)[j], d) => Uses(fr.self)[j].to \in T \cup Cut(st, k, low)
  <2>1. ~Says(fr.sum, d) /\ fr.low # 0 /\ ans.low # 0
    BY <1>1, <1>3, <1>4, <1>8, <1>9, <1>12
  <2>2. PICK T \in SUBSET Selves :
            /\ Aloof(T, Cut(st, k, fr.low), d)
            /\ \A j \in DOMAIN Uses(fr.self) : j < fr.next =>
                 /\ ~Does(Uses(fr.self)[j], d)
                 /\ Follows(Uses(fr.self)[j], d) => Uses(fr.self)[j].to \in T \cup Cut(st, k, fr.low)
    BY <2>1 DEF FrameComplete
  <2>3. PICK R \in SUBSET Selves : /\ Aloof(R, Cut(st, k, ans.low), d)
                                   /\ Follows(u, d) => u.to \in R \cup Cut(st, k, ans.low)
    <3>1. CASE ~Follows(u, d)
      <4>1. Aloof({}, Cut(st, k, ans.low), d)
        BY DEF Aloof
      <4> QED BY <3>1, <4>1
    <3>2. CASE Follows(u, d)
      <4>1. ans.ok
        BY <2>1, <3>2 DEF AnswerComplete, Follows
      <4>2. ~Says(ans.sum, d)
        BY <1>8, <1>12, <3>2, <4>1 DEF Follows
      <4> QED BY <2>1, <4>1, <4>2 DEF AnswerComplete
    <3> QED BY <3>1, <3>2
  <2>4. ~Does(u, d)
    <3> SUFFICES ASSUME d.kind = "lost", u.to = Opaque PROVE FALSE
      BY DEF Does
    <3>1. ~ans.ok
      BY DEF AnswerSound
    <3> QED BY <1>9, <1>12, <3>1
  <2>5. Cut(st, k, fr.low) \subseteq Cut(st, k, low) /\ Cut(st, k, ans.low) \subseteq Cut(st, k, low)
    BY <1>1, <1>3, <1>4, CutGrows
  <2>6. Aloof(T \cup R, Cut(st, k, low), d)
    BY <2>2, <2>3, <2>5, AloofTogether
  <2>7. \A j \in DOMAIN Uses(fr.self) : j < fr.next + 1 => j < fr.next \/ j = fr.next
    BY <1>1 DEF ProgramTyped
  <2>8. T \cup R \in SUBSET Selves
    OBVIOUS
  <2>9. ASSUME NEW j \in DOMAIN Uses(fr.self), j < fr.next + 1
        PROVE  /\ ~Does(Uses(fr.self)[j], d)
               /\ Follows(Uses(fr.self)[j], d) => Uses(fr.self)[j].to \in (T \cup R) \cup Cut(st, k, low)
    BY <2>2, <2>3, <2>4, <2>5, <2>7, <2>9
  <2> QED BY <2>6, <2>8, <2>9
<1> QED BY <1>7, <1>10, <1>11, <1>12 DEF FrameComplete

\* A frame that saw all of its body is exact if nothing was cut off below it ...
LEMMA WholeIsExact ==
  ASSUME ProgramTyped, NEW st, NEW k \in Nat \ {0}, NEW fr \in FrameRecord, fr = st[k],
         fr.next > Len(Uses(fr.self)), FrameComplete(st, k, fr), FrameSound(fr), Complete(fr, k)
  PROVE  Exact(fr.sum, fr.self)
<1>1. fr.low \in Nat /\ fr.low >= k /\ fr.self \in Selves /\ fr.next \in Nat
  BY HandlesAssumption DEF FrameRecord, Index, NoReceiverCycle, Complete
<1>2. fr.low # 0
  BY <1>1
<1>3. Cut(st, k, fr.low) \subseteq {fr.self}
  <2>1. \A i \in 1 .. k : i >= fr.low => i = k
    BY <1>1
  <2> QED BY <2>1 DEF Cut
<1>4. \A j \in DOMAIN Uses(fr.self) : j < fr.next
  BY <1>1 DEF ProgramTyped
<1>5. ASSUME NEW d \in Deed, ~Says(fr.sum, d) PROVE Never(fr.self, d)
  <2>1. PICK T \in SUBSET Selves :
            /\ Aloof(T, Cut(st, k, fr.low), d)
            /\ \A j \in DOMAIN Uses(fr.self) : j < fr.next =>
                 /\ ~Does(Uses(fr.self)[j], d)
                 /\ Follows(Uses(fr.self)[j], d) => Uses(fr.self)[j].to \in T \cup Cut(st, k, fr.low)
    BY <1>2, <1>5 DEF FrameComplete
  <2>2. Aloof(T \cup {fr.self}, {}, d)
    BY <1>3, <1>4, <2>1 DEF Aloof
  <2> QED BY <1>1, <2>2 DEF Never
<1> QED BY <1>2, <1>5 DEF Exact, FrameSound

\* ... and otherwise its summary is an answer for the frame below.
LEMMA PartAnswers ==
  ASSUME ProgramTyped, NEW st, NEW k \in Nat \ {0}, NEW fr \in FrameRecord, fr = st[k],
         fr.next > Len(Uses(fr.self)), FrameComplete(st, k, fr), FrameSound(fr),
         NEW ans, ans = Resolved(fr.sum, fr.low), ~Complete(fr, k)
  PROVE  AnswerComplete(st, k - 1, fr.self, ans) /\ AnswerSound(fr.self, ans)
<1>1. fr.low \in Nat /\ fr.low < k /\ fr.self \in Selves /\ fr.next \in Nat
  BY HandlesAssumption DEF FrameRecord, Index, NoReceiverCycle, Complete
<1>2. ans.ok /\ ans.sum = fr.sum /\ ans.low = fr.low
  BY DEF Resolved
<1>3. Cut(st, k, fr.low) \subseteq Cut(st, k - 1, fr.low) \cup {fr.self}
  <2>1. \A i \in 1 .. k : i \in 1 .. k - 1 \/ i = k
    OBVIOUS
  <2> QED BY <2>1 DEF Cut
<1>4. \A j \in DOMAIN Uses(fr.self) : j < fr.next
  BY <1>1 DEF ProgramTyped
<1>5. ASSUME NEW d \in Deed, ~Says(fr.sum, d), fr.low # 0
      PROVE  \E T \in SUBSET Selves : /\ Aloof(T, Cut(st, k - 1, fr.low), d)
                                      /\ fr.self \in T \cup Cut(st, k - 1, fr.low)
  <2>1. PICK T \in SUBSET Selves :
            /\ Aloof(T, Cut(st, k, fr.low), d)
            /\ \A j \in DOMAIN Uses(fr.self) : j < fr.next =>
                 /\ ~Does(Uses(fr.self)[j], d)
                 /\ Follows(Uses(fr.self)[j], d) => Uses(fr.self)[j].to \in T \cup Cut(st, k, fr.low)
    BY <1>5 DEF FrameComplete
  <2>2. Aloof(T \cup {fr.self}, Cut(st, k - 1, fr.low), d)
    BY <1>3, <1>4, <2>1 DEF Aloof
  <2> QED BY <1>1, <2>2
<1>6. fr.self # Opaque
  BY <1>1, HandlesAssumption
<1> QED BY <1>2, <1>5, <1>6 DEF AnswerComplete, AnswerSound, FrameComplete, FrameSound

\* An exact summary answers whoever asks.
LEMMA ExactAnswers ==
  ASSUME NEW st, NEW k, NEW w \in Selves, NEW sum, Exact(sum, w),
         NEW ans, ans = Resolved(sum, NoReceiverCycle)
  PROVE  AnswerComplete(st, k, w, ans) /\ AnswerSound(w, ans)
<1>1. ans.ok /\ ans.sum = sum /\ ans.low = NoReceiverCycle /\ ans.low # 0 /\ w # Opaque
  BY HandlesAssumption DEF Resolved, NoReceiverCycle
<1>2. \A d \in Deed : Says(sum, d) \/ Never(w, d)
  BY DEF Exact
<1>3. ASSUME NEW d \in Deed, ~Says(sum, d)
      PROVE  \E T \in SUBSET Selves : /\ Aloof(T, Cut(st, k, ans.low), d)
                                      /\ w \in T \cup Cut(st, k, ans.low)
  BY <1>2, <1>3 DEF Never, Aloof
<1> QED BY <1>1, <1>3 DEF AnswerComplete, AnswerSound, Exact

-----------------------------------------------------------------------------
(* The stack.                                                              *)

Stacks == Seq(FrameRecord)

StackOK(st) == \A k \in 1 .. Len(st) : FrameComplete(st, k, st[k]) /\ FrameSound(st[k])

\* The frame is at a use that passes its variable on as w.
Waiting(fr, w) == /\ fr.next \in DOMAIN Uses(fr.self)
                  /\ Uses(fr.self)[fr.next].op = "pass" /\ Uses(fr.self)[fr.next].to = w

LinksOK(st, a) ==
  /\ \A k \in 1 .. Len(st) : k > 1 => Waiting(st[k - 1], st[k].self)
  /\ st # <<>> => a \in DOMAIN Body /\ Body[a].op = "pass" /\ Body[a].to = st[1].self

MemoOK(m) == \A v \in DOMAIN m : Exact(m[v], v)

\* The stack with the frame of another variable pushed, or with another frame on top.
Pushes(new, st, w) == new = Append(st, Frame(w))
Replaces(new, st, fr) == st # <<>> /\ new = [st EXCEPT ![Len(st)] = fr]

LEMMA CutSame ==
  ASSUME NEW st, NEW new, NEW k \in Nat, \A j \in 1 .. k : new[j].self = st[j].self
  PROVE  /\ \A low : Cut(new, k, low) = Cut(st, k, low)
         /\ \A fr : FrameComplete(st, k, fr) => FrameComplete(new, k, fr)
<1>1. \A low : Cut(new, k, low) = Cut(st, k, low)
  BY DEF Cut
<1> QED BY <1>1 DEF FrameComplete

LEMMA PushKeeps ==
  ASSUME ProgramTyped, NEW st \in Stacks, StackOK(st), NEW w \in Selves,
         NEW new, Pushes(new, st, w)
  PROVE  /\ new \in Stacks /\ StackOK(new) /\ Len(new) = Len(st) + 1
         /\ new[Len(new)] = Frame(w) /\ \A k \in 1 .. Len(st) : new[k] = st[k]
<1>1. Frame(w) = [self |-> w, next |-> 1, sum |-> Nothing, low |-> NoReceiverCycle]
  BY DEF Frame
<1>2. Frame(w) \in FrameRecord
  BY <1>1, HandlesAssumption DEF FrameRecord, Nothing, Summary, Index, NoReceiverCycle
<1>3. /\ new \in Stacks /\ Len(new) = Len(st) + 1 /\ Len(st) \in Nat
      /\ new[Len(new)] = Frame(w) /\ \A k \in 1 .. Len(st) : new[k] = st[k]
  BY <1>2 DEF Stacks, Pushes
<1>4. ASSUME NEW k \in 1 .. Len(st) PROVE FrameComplete(new, k, new[k]) /\ FrameSound(new[k])
  <2>1. k \in Nat /\ \A j \in 1 .. k : new[j].self = st[j].self
    BY <1>3
  <2>2. \A g : FrameComplete(st, k, g) => FrameComplete(new, k, g)
    BY <2>1, CutSame
  <2> QED BY <1>3, <2>2 DEF StackOK
<1>5. FrameSound(Frame(w))
  BY <1>1, NothingSaysNothing DEF FrameSound
<1>6. ASSUME NEW k, NEW d \in Deed
      PROVE  \E T \in SUBSET Selves :
              /\ Aloof(T, Cut(new, k, NoReceiverCycle), d)
              /\ \A j \in DOMAIN Uses(w) : j < 1 =>
                   /\ ~Does(Uses(w)[j], d)
                   /\ Follows(Uses(w)[j], d) => Uses(w)[j].to \in T \cup Cut(new, k, NoReceiverCycle)
  <2>1. Aloof({}, Cut(new, k, NoReceiverCycle), d)
    BY DEF Aloof
  <2>2. \A j \in DOMAIN Uses(w) : ~(j < 1)
    BY DEF ProgramTyped
  <2> QED BY <2>1, <2>2
<1>7. FrameComplete(new, Len(new), Frame(w))
  <2>1. NoReceiverCycle # 0
    BY HandlesAssumption DEF NoReceiverCycle
  <2>2. /\ Frame(w).self = w /\ Frame(w).next = 1 /\ Frame(w).low = NoReceiverCycle
    BY <1>1
  <2> QED BY <1>6, <2>1, <2>2 DEF FrameComplete
<1>8. \A k \in 1 .. Len(new) : k \in 1 .. Len(st) \/ k = Len(new)
  BY <1>3
<1> QED BY <1>3, <1>4, <1>5, <1>7, <1>8 DEF StackOK

LEMMA Replaced ==
  ASSUME NEW st \in Stacks, NEW new, NEW fr \in FrameRecord, Replaces(new, st, fr)
  PROVE  /\ new \in Stacks /\ Len(new) = Len(st) /\ new[Len(st)] = fr
         /\ Len(st) \in Nat \ {0} /\ Len(st) \in 1 .. Len(st)
         /\ \A k \in 1 .. Len(st) : k # Len(st) => new[k] = st[k]
BY DEF Stacks, Replaces

LEMMA ReplaceKeeps ==
  ASSUME NEW st \in Stacks, NEW new, NEW fr \in FrameRecord, Replaces(new, st, fr),
         StackOK(st), fr.self = st[Len(st)].self, FrameComplete(st, Len(st), fr), FrameSound(fr)
  PROVE  StackOK(new)
<1> DEFINE n == Len(st)
<1>1. /\ n \in Nat /\ n \in 1 .. n /\ Len(new) = n /\ new[n] = fr
      /\ \A k \in 1 .. n : k # n => new[k] = st[k]
  BY Replaced
<1>2. FrameComplete(st, n, fr) /\ fr.self = st[n].self
  OBVIOUS
<1>6. n = Len(st)
  OBVIOUS
<1> HIDE DEF n
<1>3. \A k \in 1 .. n : new[k].self = st[k].self
  BY <1>1, <1>2
<1>4. ASSUME NEW k \in 1 .. n PROVE FrameComplete(new, k, new[k]) /\ FrameSound(new[k])
  <2>1. k \in Nat /\ \A j \in 1 .. k : j \in 1 .. n
    BY <1>1
  <2>2. \A g : FrameComplete(st, k, g) => FrameComplete(new, k, g)
    BY <1>3, <2>1, CutSame
  <2>3. CASE k = n
    BY <1>1, <1>2, <2>2, <2>3
  <2>4. CASE k # n
    BY <1>1, <1>6, <2>2, <2>4 DEF StackOK
  <2> QED BY <2>3, <2>4
<1> QED BY <1>1, <1>4 DEF StackOK

LEMMA PopKeeps ==
  ASSUME NEW st \in Stacks, StackOK(st), st # <<>>, NEW new, new = SubSeq(st, 1, Len(st) - 1)
  PROVE  /\ new \in Stacks /\ StackOK(new) /\ Len(new) = Len(st) - 1
         /\ \A k \in 1 .. Len(new) : new[k] = st[k]
<1>1. Len(st) \in Nat \ {0}
  BY DEF Stacks
<1>2. /\ new \in Stacks /\ Len(new) = Len(st) - 1 /\ \A k \in 1 .. Len(new) : new[k] = st[k]
  <2> DEFINE m == Len(st) - 1
  <2>1. /\ st \in Seq(FrameRecord) /\ 1 \in 1 .. Len(st) + 1 /\ m \in 1 - 1 .. Len(st) /\ m \in Nat
    BY <1>1 DEF Stacks
  <2> HIDE DEF m
  <2>2. /\ SubSeq(st, 1, m) \in Seq(FrameRecord)
        /\ Len(SubSeq(st, 1, m)) = IF 1 <= m THEN m - 1 + 1 ELSE 0
        /\ \A i \in 1 .. m - 1 + 1 : SubSeq(st, 1, m)[i] = st[1 + i - 1]
    BY <2>1, SubSeqProperties
  <2>3. /\ Len(SubSeq(st, 1, m)) = m
        /\ \A i \in 1 .. m : SubSeq(st, 1, m)[i] = st[i]
    BY <2>1, <2>2
  <2>4. new = SubSeq(st, 1, m)
    BY DEF m
  <2> QED BY <2>2, <2>3, <2>4 DEF Stacks, m
<1>3. ASSUME NEW k \in 1 .. Len(new) PROVE FrameComplete(new, k, new[k]) /\ FrameSound(new[k])
  <2>1. k \in Nat /\ k \in 1 .. Len(st) /\ \A j \in 1 .. k : j \in 1 .. Len(new)
    BY <1>1, <1>2
  <2>2. \A g : FrameComplete(st, k, g) => FrameComplete(new, k, g)
    BY <1>2, <2>1, CutSame
  <2> QED BY <1>2, <2>1, <2>2 DEF StackOK
<1> QED BY <1>2, <1>3 DEF StackOK

\* What is at hand is an answer for the frame on top, or for the owner.
LEMMA AtHandAnswers ==
  ASSUME ProgramTyped, TypeOK, MemoOK(memo), NEW w \in Selves \cup {Opaque}, NEW ans \in Answers(w)
  PROVE  /\ ans \in AnswerRecord
         /\ AnswerComplete(stack, Len(stack), w, ans) /\ AnswerSound(w, ans)
<1>1. /\ 0 \in Index /\ NoReceiverCycle \in Index /\ NoReceiverCycle # 0
      /\ \A i \in 1 .. Len(stack) : i \in Index /\ i # 0
  BY HandlesAssumption DEF TypeOK, Index, NoReceiverCycle
<1>2. Nothing \in Summary /\ \A d \in Deed : ~Says(Nothing, d)
  BY NothingSaysNothing DEF Nothing, Summary
<1>3. ASSUME NEW low \in Index, ans = Unresolved(low), w = Opaque \/ low = 0
      PROVE  /\ ans \in AnswerRecord
             /\ AnswerComplete(stack, Len(stack), w, ans) /\ AnswerSound(w, ans)
  BY <1>2, <1>3 DEF Unresolved, AnswerRecord, AnswerComplete, AnswerSound
<1>4. CASE w = Opaque
  BY <1>1, <1>3, <1>4 DEF Answers
<1>5. CASE w # Opaque /\ w \in DOMAIN memo
  <2>1. ans = Resolved(memo[w], NoReceiverCycle)
    BY <1>5 DEF Answers
  <2>2. memo[w] \in Summary /\ Exact(memo[w], w)
    BY <1>5 DEF TypeOK, MemoOK
  <2>3. ans \in AnswerRecord
    BY <1>1, <2>1, <2>2 DEF Resolved, AnswerRecord
  <2> QED BY <1>5, <2>1, <2>2, <2>3, ExactAnswers
<1>6. CASE w # Opaque /\ w \notin DOMAIN memo /\ Active(w) # {}
  <2>1. PICK i \in Active(w) : ans = Resolved(Nothing, i)
    BY <1>6 DEF Answers
  <2>2. i \in 1 .. Len(stack) /\ stack[i].self = w
    BY DEF Active, TypeOK
  <2>3. ans.ok /\ ans.sum = Nothing /\ ans.low = i
    BY <2>1 DEF Resolved
  <2>4. ans \in AnswerRecord
    BY <1>1, <1>2, <2>1, <2>2 DEF Resolved, AnswerRecord
  <2>5. w \in Cut(stack, Len(stack), i)
    BY <2>2 DEF Cut
  <2>6. \A d : Aloof({}, Cut(stack, Len(stack), i), d)
    BY DEF Aloof
  <2>7. AnswerComplete(stack, Len(stack), w, ans)
    <3>1. ASSUME NEW d \in Deed
          PROVE \E T \in SUBSET Selves : /\ Aloof(T, Cut(stack, Len(stack), ans.low), d)
                                          /\ w \in T \cup Cut(stack, Len(stack), ans.low)
      BY <2>3, <2>5, <2>6
    <3> QED BY <1>1, <2>2, <2>3, <3>1 DEF AnswerComplete
  <2> QED BY <1>2, <1>6, <2>3, <2>4, <2>7 DEF AnswerSound
<1>7. CASE w # Opaque /\ w \notin DOMAIN memo /\ Active(w) = {}
  <2>1. ans = Unresolved(0)
    BY <1>7 DEF Answers
  <2> QED BY <1>1, <1>3, <2>1
<1> QED BY <1>4, <1>5, <1>6, <1>7

-----------------------------------------------------------------------------
(* The owner.                                                              *)

\* What is credited is done somewhere, and what was looked at is heeded.
Credited(cs) == \A c \in cs : \E p \in DOMAIN Body : Discharged(p, c.field)
Heeded(p, cs) ==
  \A c \in Captures : c.from <= p /\ p < c.until /\ MayDischarge(p, c.field) => c \in cs
HeededTo(a, cs) == \A p \in DOMAIN Body : p < a => Heeded(p, cs)

OwnerOK == /\ Credited(credited)
           /\ otherUse \/ returned \/ HeededTo(at, credited)

LEMMA CapturesTyped ==
  ASSUME ProgramTyped, NEW c \in Captures
  PROVE  c.field \in Fields
<1>1. \A i \in DOMAIN Body : Body[i].field \in Fields
  BY BodyTyped
<1>2. CASE \E f \in Fields : c = [field |-> f, value |-> 0, from |-> 1, until |-> Until(f, 1)]
  BY <1>2
<1>3. CASE \E i \in DOMAIN Body : c = [field |-> Body[i].field, value |-> i, from |-> i + 1,
                                      until |-> Until(Body[i].field, i + 1)]
  BY <1>1, <1>3
<1> QED BY <1>2, <1>3 DEF Captures

LEMMA HeededMore ==
  ASSUME ProgramTyped, NEW a \in Nat, NEW cs, NEW more, cs \subseteq more, HeededTo(a, cs), Heeded(a, more)
  PROVE  HeededTo(a + 1, more)
<1> SUFFICES ASSUME NEW p \in DOMAIN Body, p < a + 1 PROVE Heeded(p, more)
  BY DEF HeededTo
<1>1. p < a \/ p = a
  BY DEF ProgramTyped
<1>2. CASE p < a
  BY <1>2 DEF HeededTo, Heeded
<1> QED BY <1>1, <1>2

\* What an answer to the owner means.
LEMMA OwnerHears ==
  ASSUME ProgramTyped, NEW st, NEW w \in Selves \cup {Opaque}, NEW ans \in AnswerRecord,
         AnswerComplete(st, 0, w, ans), AnswerSound(w, ans), ans.ok
  PROVE  /\ w \in Selves
         /\ ans.sum.called \subseteq CallsAtOnce(w) /\ ans.sum.waited \subseteq WaitsAtOnce(w)
         /\ ~ans.sum.escapes =>
              /\ ~Loses(w) /\ Touches(w) \cap Fields \subseteq ans.sum.touched
              /\ (CallsAtOnce(w) \cup CallsLater(w)) \cap Fields \subseteq ans.sum.touched \cup ans.sum.called
              /\ WaitsAtOnce(w) \cap Fields \subseteq ans.sum.waited
<1>1. w \in Selves
  BY DEF AnswerSound
<1>2. \A kind \in Kinds : \A f \in Fields \cup {Opaque} :
        The(kind, f) \in Deed /\ The(kind, f).kind = kind /\ The(kind, f).field = f
  BY DEF The, Deed
<1>3. ans.sum.called \subseteq Fields /\ ans.sum.waited \subseteq Fields
  BY DEF AnswerRecord, Summary
<1>4. \A kind \in Kinds : \A f \in Fields \cup {Opaque} :
        kind \in {"called", "waited", "handled"} /\ Says(ans.sum, The(kind, f)) => ~Never(w, The(kind, f))
  BY <1>2 DEF AnswerSound
<1>5. ASSUME NEW f \in ans.sum.called PROVE f \in CallsAtOnce(w)
  <2>1. Says(ans.sum, The("called", f))
    BY <1>2, <1>3 DEF Says, Kinds
  <2> QED BY <1>1, <1>3, <1>4, <2>1, CalledIs DEF Kinds
<1>6. ASSUME NEW f \in ans.sum.waited PROVE f \in WaitsAtOnce(w)
  <2>1. Says(ans.sum, The("waited", f))
    BY <1>2, <1>3 DEF Says, Kinds
  <2> QED BY <1>1, <1>3, <1>4, <2>1, WaitedIs DEF Kinds
<1>7. ASSUME ~ans.sum.escapes
      PROVE  /\ ~Loses(w) /\ Touches(w) \cap Fields \subseteq ans.sum.touched
             /\ (CallsAtOnce(w) \cup CallsLater(w)) \cap Fields \subseteq ans.sum.touched \cup ans.sum.called
             /\ WaitsAtOnce(w) \cap Fields \subseteq ans.sum.waited
  <2>1. ans.low # 0
    BY <1>7 DEF AnswerComplete
  <2>2. Cut(st, 0, ans.low) = {}
    BY DEF Cut
  <2>3. \A d \in Deed : Says(ans.sum, d) \/ Never(w, d)
    BY <2>1, <2>2 DEF AnswerComplete, Never
  <2>4. \A kind \in Kinds : \A f \in Fields \cup {Opaque} :
          Says(ans.sum, The(kind, f)) \/ Never(w, The(kind, f))
    BY <1>2, <2>3
  <2>5. ~Loses(w)
    <3>1. ~Says(ans.sum, The("lost", Opaque))
      BY <1>2, <1>7 DEF Says, Kinds
    <3> QED BY <1>1, <2>4, <3>1, LostIs DEF Kinds
  <2>6. ASSUME NEW f \in Fields, f \in Touches(w) PROVE f \in ans.sum.touched
    <3>1. Says(ans.sum, The("touched", f))
      BY <1>1, <2>4, <2>6, TouchedIs DEF Kinds
    <3> QED BY <1>2, <3>1 DEF Says, Kinds
  <2>7. ASSUME NEW f \in Fields, f \in CallsAtOnce(w) \cup CallsLater(w)
        PROVE  f \in ans.sum.touched \cup ans.sum.called
    <3>1. Says(ans.sum, The("handled", f))
      BY <1>1, <2>4, <2>7, HandledIs DEF Kinds
    <3> QED BY <1>2, <3>1 DEF Says, Kinds
  <2>8. ASSUME NEW f \in Fields, f \in WaitsAtOnce(w) PROVE f \in ans.sum.waited
    <3>1. Says(ans.sum, The("waited", f))
      BY <1>1, <2>4, <2>8, WaitedIs DEF Kinds
    <3> QED BY <1>2, <3>1 DEF Says, Kinds
  <2> QED BY <2>5, <2>6, <2>7, <2>8
<1> QED BY <1>1, <1>5, <1>6, <1>7

LEMMA WaitsOnGroups ==
  ASSUME ProgramTyped, NEW v \in Selves, NEW f \in WaitsAtOnce(v)
  PROVE  f \in GroupFields
<1>1. PICK x \in ReachAtOnce(v) : \E j \in DOMAIN Uses(x) :
             Uses(x)[j].op = "wait" /\ ~Uses(x)[j].async /\ Uses(x)[j].field = f
  BY WaitsAtOnceHas
<1>2. x \in Selves
  BY DEF ReachAtOnce, Core
<1> QED BY <1>1, <1>2 DEF ProgramTyped

LEMMA JudgeKeeps ==
  ASSUME ProgramTyped, TypeOK, OwnerOK, at \in DOMAIN Body, Body[at].op = "pass",
         NEW st, NEW ans \in AnswerRecord, AnswerComplete(st, 0, Body[at].to, ans),
         AnswerSound(Body[at].to, ans), Judge(ans), returned' = returned
  PROVE  /\ Credited(credited') /\ (otherUse' \/ returned' \/ HeededTo(at', credited'))
         /\ credited' \subseteq Captures /\ moved' \subseteq credited'
         /\ otherUse' \in BOOLEAN /\ at' \in 1 .. Len(Body) + 1
<1> DEFINE w == Body[at].to
           use == Body[at]
           settled == CreditedBy(ans.sum, use.async)
<1>1. /\ w \in Selves \cup {Opaque} /\ use.async \in BOOLEAN /\ at \in Nat /\ at \in 1 .. Len(Body)
      /\ Len(Body) \in Nat /\ use.op = "pass"
  BY BodyTyped DEF ProgramTyped
<1>2. /\ credited' = credited \cup settled
      /\ moved' = moved \cup (IF use.async THEN settled ELSE {})
      /\ otherUse' = (\/ otherUse \/ ~ans.ok \/ ans.sum.escapes
                      \/ \E c \in Captures \ credited' : c.field \in ans.sum.touched)
      /\ at' = at + 1
  BY DEF Judge
<1>3. \A c : c \in settled <=>
        /\ c \in Captures
        /\ \/ c.field \in CancelFields /\ c.field \in ans.sum.called
           \/ ~use.async /\ c.field \in GroupFields /\ c.field \in ans.sum.waited
  BY DEF CreditedBy
<1>4. settled \subseteq Captures
  BY <1>3
<1>5. ans.ok =>
        /\ w \in Selves
        /\ ans.sum.called \subseteq CallsAtOnce(w) /\ ans.sum.waited \subseteq WaitsAtOnce(w)
        /\ ~ans.sum.escapes =>
             /\ ~Loses(w) /\ Touches(w) \cap Fields \subseteq ans.sum.touched
             /\ (CallsAtOnce(w) \cup CallsLater(w)) \cap Fields \subseteq ans.sum.touched \cup ans.sum.called
             /\ WaitsAtOnce(w) \cap Fields \subseteq ans.sum.waited
  BY <1>1, OwnerHears
<1> HIDE DEF settled
<1>6. ASSUME NEW c \in settled, ans.ok PROVE Discharged(at, c.field)
  <2>1. \/ c.field \in CancelFields \cap CallsAtOnce(w)
        \/ ~use.async /\ c.field \in WaitsAtOnce(w)
    BY <1>3, <1>5, <1>6
  <2> QED BY <1>1, <2>1 DEF Discharged
<1>7. ~ans.ok => settled = {}
  BY <1>3 DEF AnswerComplete, Nothing
<1>8. Credited(credited')
  BY <1>2, <1>6, <1>7 DEF Credited, OwnerOK
<1>9. ASSUME ~otherUse', ~returned' PROVE HeededTo(at', credited')
  <2>1. ~otherUse /\ ~returned /\ ans.ok /\ ~ans.sum.escapes
        /\ \A c \in Captures \ credited' : c.field \notin ans.sum.touched
    BY <1>2, <1>9
  <2>2. HeededTo(at, credited)
    BY <2>1 DEF OwnerOK
  <2>3. ASSUME NEW c \in Captures, MayDischarge(at, c.field) PROVE c \in credited'
    <3>1. c.field \in Fields
      BY CapturesTyped
    <3>2. \/ Loses(w) \/ c.field \in Touches(w)
          \/ c.field \in CancelFields \cap (CallsAtOnce(w) \cup CallsLater(w))
          \/ ~use.async /\ c.field \in WaitsAtOnce(w)
      BY <1>1, <2>3 DEF MayDischarge
    <3>3. c.field \in WaitsAtOnce(w) => c.field \in GroupFields
      BY <1>5, <2>1, WaitsOnGroups
    <3>4. \/ c.field \in ans.sum.touched
          \/ c.field \in CancelFields /\ c.field \in ans.sum.called
          \/ ~use.async /\ c.field \in GroupFields /\ c.field \in ans.sum.waited
      BY <1>5, <2>1, <3>1, <3>2, <3>3
    <3> QED BY <1>2, <1>3, <2>1, <2>3, <3>4
  <2>4. Heeded(at, credited')
    BY <2>3 DEF Heeded
  <2>5. credited \subseteq credited'
    BY <1>2
  <2> QED BY <1>1, <1>2, <2>2, <2>4, <2>5, HeededMore
<1>10. credited' \subseteq Captures /\ moved' \subseteq credited'
  BY <1>2, <1>4 DEF TypeOK
<1>11. otherUse' \in BOOLEAN
  BY <1>2 DEF TypeOK
<1>12. at' \in 1 .. Len(Body) + 1
  BY <1>1, <1>2
<1> QED BY <1>8, <1>9, <1>10, <1>11, <1>12

LEMMA SeeKeeps ==
  ASSUME ProgramTyped, TypeOK, OwnerOK, See
  PROVE  /\ Credited(credited') /\ (otherUse' \/ returned' \/ HeededTo(at', credited'))
         /\ credited' \subseteq Captures /\ moved' \subseteq credited'
         /\ otherUse' \in BOOLEAN /\ returned' \in BOOLEAN /\ at' \in 1 .. Len(Body) + 1
<1> DEFINE use == Body[at]
           settled == Consumed(use)
<1>1. /\ at \in 1 .. Len(Body) /\ at \in DOMAIN Body /\ at \in Nat /\ Len(Body) \in Nat
      /\ use.op \in (Ops \cup {"store", "return"}) \ {"pass"} /\ use.async \in BOOLEAN
  <2>1. at \in DOMAIN Body /\ at \in 1 .. Len(Body) /\ Len(Body) \in Nat
    BY DEF See, TypeOK, ProgramTyped
  <2> QED BY <2>1, BodyTyped DEF See
<1>2. /\ credited' = credited \cup settled
      /\ moved' = moved \cup (IF use.async THEN settled ELSE {})
      /\ otherUse' = (otherUse \/ use.op = "lose" \/ (use.op = "touch" /\ Live(use.field) # {}))
      /\ returned' = (returned \/ use.op = "return")
      /\ at' = at + 1
  BY DEF See
<1>3. \A f, c : c \in Live(f) <=> c \in Captures /\ c.field = f /\ c.from <= at /\ at < c.until
  BY DEF Live, Of
<1>4. \A c : c \in settled <=>
        /\ use.op = "call" \/ (use.op = "wait" /\ ~use.async)
        /\ c \in Live(use.field)
  BY <1>1 DEF Consumed, Ops
<1> HIDE DEF settled
<1>5. Credited(credited')
  <2>1. ASSUME NEW c \in settled PROVE Discharged(at, c.field)
    BY <1>3, <1>4, <2>1 DEF Discharged
  <2> QED BY <1>1, <1>2, <2>1 DEF Credited, OwnerOK
<1>6. ASSUME ~otherUse', ~returned' PROVE HeededTo(at', credited')
  <2>1. ~otherUse /\ ~returned /\ use.op # "lose" /\ use.op # "return"
        /\ (use.op = "touch" => Live(use.field) = {})
    BY <1>2, <1>6
  <2>2. HeededTo(at, credited)
    BY <2>1 DEF OwnerOK
  <2>3. ASSUME NEW c \in Captures, c.from <= at, at < c.until, MayDischarge(at, c.field) PROVE c \in credited'
    <3>1. /\ use.op \in {"call", "wait", "touch"} /\ use.field = c.field
          /\ use.op = "wait" => ~use.async
      BY <1>1, <2>1, <2>3 DEF MayDischarge, Ops
    <3>2. c \in Live(use.field)
      BY <1>3, <2>3, <3>1
    <3> QED BY <1>2, <1>4, <2>1, <3>1, <3>2
  <2>4. Heeded(at, credited')
    BY <2>3 DEF Heeded
  <2>5. credited \subseteq credited'
    BY <1>2
  <2> QED BY <1>1, <1>2, <2>2, <2>4, <2>5, HeededMore
<1>7. credited' \subseteq Captures /\ moved' \subseteq credited'
  BY <1>2, <1>3, <1>4 DEF TypeOK
<1>8. otherUse' \in BOOLEAN /\ returned' \in BOOLEAN
  BY <1>2 DEF TypeOK
<1>9. at' \in 1 .. Len(Body) + 1
  BY <1>1, <1>2
<1> QED BY <1>5, <1>6, <1>7, <1>8, <1>9

-----------------------------------------------------------------------------
(* The invariant.                                                          *)

Inv == TypeOK /\ StackOK(stack) /\ LinksOK(stack, at) /\ MemoOK(memo) /\ OwnerOK

\* What a step leaves, said of the program before it.
StackStep == /\ stack' \in Stacks /\ Len(stack') <= MaxReceiverDepth
             /\ StackOK(stack') /\ LinksOK(stack', at')
MemoStep == memo' \in [DOMAIN memo' -> Summary] /\ DOMAIN memo' \subseteq Selves /\ MemoOK(memo')
OwnerStep == /\ Credited(credited') /\ (otherUse' \/ returned' \/ HeededTo(at', credited'))
             /\ credited' \subseteq Captures /\ moved' \subseteq credited'
             /\ otherUse' \in BOOLEAN /\ returned' \in BOOLEAN /\ at' \in 1 .. Len(Body) + 1

LEMMA InvTyped ==
  ASSUME Inv
  PROVE  /\ ProgramTyped /\ stack \in Stacks /\ Len(stack) \in Nat
         /\ Len(stack) <= MaxReceiverDepth /\ MaxReceiverDepth \in Nat
         /\ \A k \in 1 .. Len(stack) : stack[k] \in FrameRecord
<1>1. ProgramTyped
  BY ProgramIsTyped DEF Inv, TypeOK
<1>2. stack \in Stacks
  BY DEF Inv, TypeOK, Stacks, FrameRecord
<1> QED BY <1>1, <1>2, HandlesAssumption DEF Stacks, Inv, TypeOK

LEMMA OwnerStays ==
  ASSUME Inv, UNCHANGED <<at, credited, moved, otherUse, returned>>
  PROVE  OwnerStep
BY DEF Inv, TypeOK, OwnerOK, OwnerStep

LEMMA MemoStays ==
  ASSUME Inv, memo' = memo
  PROVE  MemoStep
BY DEF Inv, TypeOK, MemoStep

LEMMA TopLinks ==
  ASSUME NEW st \in Stacks, NEW new, NEW fr \in FrameRecord, Replaces(new, st, fr),
         fr.self = st[Len(st)].self, NEW a, LinksOK(st, a)
  PROVE  LinksOK(new, a)
<1> DEFINE n == Len(st)
<1>1. /\ n \in Nat \ {0} /\ n \in 1 .. n /\ Len(new) = n /\ new[n] = fr /\ new \in Stacks
      /\ \A k \in 1 .. n : k # n => new[k] = st[k]
  BY Replaced
<1>2. fr.self = st[n].self
  OBVIOUS
<1>3. n = Len(st)
  OBVIOUS
<1> HIDE DEF n
<1>4. ASSUME NEW k \in 1 .. Len(new), k > 1 PROVE Waiting(new[k - 1], new[k].self)
  <2>1. k - 1 \in 1 .. n /\ k - 1 # n /\ k \in 1 .. n
    BY <1>1, <1>4
  <2>2. new[k - 1] = st[k - 1] /\ new[k].self = st[k].self
    BY <1>1, <1>2, <2>1
  <2> QED BY <1>3, <1>4, <2>1, <2>2 DEF LinksOK
<1>5. new[1].self = st[1].self
  BY <1>1, <1>2
<1>6. st # <<>>
  BY DEF Replaces
<1> QED BY <1>1, <1>4, <1>5, <1>6 DEF LinksOK

LEMMA RecordStep ==
  ASSUME Inv, Record
  PROVE  StackStep
<1> DEFINE n == Len(stack)
           new == TakeNote(Top)
<1>1. /\ ProgramTyped /\ stack \in Stacks /\ n \in Nat /\ n # 0 /\ n \in 1 .. n /\ Top = stack[n]
      /\ Top \in FrameRecord /\ stack # <<>>
  BY InvTyped DEF Record, Walking, Top, Stacks
<1>2. Top.next \in DOMAIN Uses(Top.self) /\ TopUse.op # "pass" /\ TopUse = Uses(Top.self)[Top.next]
  <2>1. Top.next \in Nat \ {0} /\ Top.self \in Selves
    BY <1>1 DEF FrameRecord
  <2> QED BY <1>1, <2>1 DEF Record, Walking, TopUse, ProgramTyped
<1>3. Replaces(stack', stack, new) /\ at' = at
  BY <1>1 DEF Record, Replaces
<1>4. FrameComplete(stack, n, Top) /\ FrameSound(Top)
  BY <1>1 DEF Inv, StackOK
<1>5. new.self = Top.self /\ new = TakeNote(Top)
  BY <1>1 DEF TakeNote, FrameRecord
<1> HIDE DEF new, n
<1>6. FrameComplete(stack, n, new) /\ FrameSound(new) /\ new \in FrameRecord
  BY <1>1, <1>2, <1>4, <1>5, RecordKeeps
<1>7. stack' \in Stacks /\ Len(stack') = Len(stack)
  BY <1>1, <1>3, <1>6, Replaced
<1>8. StackOK(stack')
  BY <1>1, <1>3, <1>5, <1>6, ReplaceKeeps DEF Inv, n
<1>9. LinksOK(stack', at')
  BY <1>1, <1>3, <1>5, <1>6, TopLinks DEF Inv, n
<1> QED BY <1>7, <1>8, <1>9, InvTyped DEF StackStep

\* The frame on top, or the owner, is at a use that passes to PassedTo.
LEMMA PassingIs ==
  ASSUME Inv, Passing
  PROVE  /\ PassedTo \in Selves \cup {Opaque}
         /\ stack = <<>> => /\ Len(stack) = 0 /\ at \in DOMAIN Body /\ Body[at].op = "pass"
                            /\ PassedTo = Body[at].to
         /\ stack # <<>> => /\ Len(stack) \in 1 .. Len(stack) /\ Top = stack[Len(stack)] /\ Top \in FrameRecord
                            /\ Waiting(Top, PassedTo)
<1>1. CASE stack = <<>>
  <2>1. at \in DOMAIN Body
    BY <1>1, InvTyped DEF Passing, Inv, TypeOK, ProgramTyped
  <2> QED BY <1>1, <2>1, InvTyped, BodyTyped DEF Passing, PassedTo
<1>2. CASE stack # <<>>
  <2>1. Len(stack) \in 1 .. Len(stack) /\ Top = stack[Len(stack)] /\ Top \in FrameRecord
    BY <1>2, InvTyped DEF Top, Stacks
  <2>2. Top.next \in Nat \ {0} /\ Top.self \in Selves
    BY <2>1 DEF FrameRecord
  <2>3. Top.next \in DOMAIN Uses(Top.self)
    BY <1>2, <2>2, InvTyped DEF Passing, Walking, ProgramTyped
  <2>4. Waiting(Top, PassedTo)
    BY <1>2, <2>3 DEF Waiting, Passing, PassedTo, TopUse
  <2>5. PassedTo \in Selves \cup {Opaque}
    BY <2>2, <2>3, <2>4, InvTyped, UseTyped DEF Waiting
  <2> QED BY <1>2, <2>1, <2>4, <2>5
<1> QED BY <1>1, <1>2

\* The frame on top, which waits for w, takes an answer in.
TakesIn(new, st, ans) == Replaces(new, st, TakeIn(st[Len(st)], ans))

LEMMA TakenIn ==
  ASSUME ProgramTyped, NEW st \in Stacks, StackOK(st), NEW a, LinksOK(st, a),
         NEW w, Waiting(st[Len(st)], w), NEW ans \in AnswerRecord,
         AnswerComplete(st, Len(st), w, ans), AnswerSound(w, ans),
         NEW new, TakesIn(new, st, ans)
  PROVE  new \in Stacks /\ StackOK(new) /\ LinksOK(new, a) /\ Len(new) = Len(st)
<1> DEFINE n == Len(st)
           fr == TakeIn(st[n], ans)
<1>1. n \in Nat /\ n # 0 /\ n \in 1 .. n /\ st[n] \in FrameRecord
  BY DEF Stacks, TakesIn, Replaces
<1>2. FrameComplete(st, n, st[n]) /\ FrameSound(st[n])
  BY <1>1 DEF StackOK
<1>3. FrameComplete(st, n, fr) /\ FrameSound(fr) /\ fr \in FrameRecord
  BY <1>1, <1>2, TakeInKeeps DEF Waiting
<1>4. fr.self = st[n].self
  BY <1>1 DEF TakeIn, FrameRecord
<1>5. Replaces(new, st, fr)
  BY DEF TakesIn
<1> HIDE DEF fr
<1>6. new \in Stacks /\ Len(new) = Len(st)
  BY <1>3, <1>5, Replaced
<1>7. StackOK(new)
  BY <1>3, <1>4, <1>5, ReplaceKeeps
<1>8. LinksOK(new, a)
  BY <1>3, <1>4, <1>5, TopLinks
<1> QED BY <1>6, <1>7, <1>8

LEMMA AnswerStep ==
  ASSUME Inv, Answer
  PROVE  StackStep /\ OwnerStep
<1>1. PICK ans \in Answers(PassedTo) :
       IF stack = <<>>
       THEN Judge(ans) /\ UNCHANGED stack
       ELSE /\ stack' = [stack EXCEPT ![Len(stack)] = TakeIn(@, ans)]
            /\ UNCHANGED <<at, credited, moved, otherUse>>
  BY DEF Answer
<1>2. Passing /\ returned' = returned
  BY DEF Answer
<1>3. /\ ans \in AnswerRecord
      /\ AnswerComplete(stack, Len(stack), PassedTo, ans) /\ AnswerSound(PassedTo, ans)
  BY <1>2, InvTyped, PassingIs, AtHandAnswers DEF Inv
<1>4. CASE stack = <<>>
  <2>1. Len(stack) = 0 /\ at \in DOMAIN Body /\ Body[at].op = "pass" /\ PassedTo = Body[at].to
    BY <1>2, <1>4, PassingIs
  <2>2. Judge(ans) /\ stack' = stack
    BY <1>1, <1>4
  <2>3. OwnerStep
    <3>1. AnswerComplete(stack, 0, Body[at].to, ans) /\ AnswerSound(Body[at].to, ans)
      BY <1>3, <2>1
    <3>2. returned' \in BOOLEAN
      BY <1>2 DEF Inv, TypeOK
    <3> QED BY <1>2, <1>3, <2>1, <2>2, <3>1, <3>2, InvTyped, JudgeKeeps DEF Inv, OwnerStep
  <2>4. StackStep
    BY <1>4, <2>2, InvTyped DEF Inv, StackStep, LinksOK
  <2> QED BY <2>3, <2>4
<1>5. CASE stack # <<>>
  <2>1. /\ stack' = [stack EXCEPT ![Len(stack)] = TakeIn(stack[Len(stack)], ans)]
        /\ at' = at /\ UNCHANGED <<at, credited, moved, otherUse>>
    BY <1>1, <1>5
  <2>2. Waiting(stack[Len(stack)], PassedTo)
    BY <1>2, <1>5, PassingIs
  <2>3. stack' \in Stacks /\ StackOK(stack') /\ LinksOK(stack', at) /\ Len(stack') = Len(stack)
    <3>1. TakesIn(stack', stack, ans)
      BY <1>5, <2>1 DEF TakesIn, Replaces
    <3>2. ProgramTyped /\ stack \in Stacks /\ StackOK(stack) /\ LinksOK(stack, at)
      BY InvTyped DEF Inv
    <3> QED BY <1>3, <2>2, <3>1, <3>2, TakenIn
  <2>4. StackStep
    BY <2>1, <2>3, InvTyped DEF StackStep
  <2> QED BY <1>2, <2>1, <2>4, OwnerStays
<1> QED BY <1>4, <1>5

LEMMA EnterStep ==
  ASSUME Inv, Enter
  PROVE  StackStep
<1> DEFINE w == PassedTo
           n == Len(stack)
<1>1. /\ stack' = Append(stack, Frame(w)) /\ at' = at /\ Passing /\ Answers(w) = {}
      /\ n \in Nat /\ stack \in Stacks /\ ProgramTyped
  BY InvTyped DEF Enter
<1>2. w \in Selves /\ ~(n >= MaxReceiverDepth)
  BY <1>1, PassingIs DEF Answers
<1> HIDE DEF w, n
<1>3. /\ stack' \in Stacks /\ StackOK(stack') /\ Len(stack') = n + 1
      /\ stack'[Len(stack')] = Frame(w) /\ \A k \in 1 .. n : stack'[k] = stack[k]
  <2>1. Pushes(stack', stack, w) /\ StackOK(stack)
    BY <1>1 DEF Pushes, Inv
  <2> QED BY <1>1, <1>2, <2>1, PushKeeps DEF n
<1>4. Frame(w).self = w
  BY DEF Frame
<1>5. ASSUME NEW k \in 1 .. Len(stack'), k > 1 PROVE Waiting(stack'[k - 1], stack'[k].self)
  <2>1. k - 1 \in 1 .. n /\ (k \in 1 .. n \/ k = n + 1)
    BY <1>1, <1>3, <1>5
  <2>2. stack'[k - 1] = stack[k - 1]
    BY <1>3, <2>1
  <2>3. CASE k \in 1 .. n
    <3>1. stack'[k] = stack[k]
      BY <1>3, <2>3
    <3> QED BY <1>5, <2>2, <2>3, <3>1 DEF Inv, LinksOK, n
  <2>4. CASE k = n + 1
    <3>1. stack # <<>> /\ k - 1 = n
      BY <1>1, <2>1, <2>4 DEF n
    <3>2. Waiting(stack[n], w)
      BY <1>1, <3>1, PassingIs DEF n, w
    <3> QED BY <1>3, <1>4, <2>2, <2>4, <3>1, <3>2
  <2> QED BY <2>1, <2>3, <2>4
<1>6. at \in DOMAIN Body /\ Body[at].op = "pass" /\ Body[at].to = stack'[1].self
  <2>1. CASE stack = <<>>
    <3>1. n = 0 /\ at \in DOMAIN Body /\ Body[at].op = "pass" /\ w = Body[at].to
      BY <1>1, <2>1, PassingIs DEF n, w
    <3> QED BY <1>3, <1>4, <3>1
  <2>2. CASE stack # <<>>
    <3>1. 1 \in 1 .. n
      BY <1>1, <2>2 DEF n, Stacks
    <3> QED BY <1>3, <2>2, <3>1 DEF Inv, LinksOK
  <2> QED BY <2>1, <2>2
<1>7. LinksOK(stack', at')
  BY <1>1, <1>5, <1>6 DEF LinksOK
<1>8. Len(stack') <= MaxReceiverDepth
  BY <1>1, <1>2, <1>3, InvTyped
<1> QED BY <1>3, <1>7, <1>8 DEF StackStep

\* An answer of a frame that is left, for the frame below or the owner.
Given == Resolved(Top.sum, IF Complete(Top, Len(stack)) THEN NoReceiverCycle ELSE Top.low)

LEMMA GivenAnswers ==
  ASSUME Inv, Leave
  PROVE  /\ MemoStep /\ Given \in AnswerRecord
         /\ AnswerComplete(stack, Len(stack) - 1, Top.self, Given) /\ AnswerSound(Top.self, Given)
<1> DEFINE n == Len(stack)
<1>1. /\ ProgramTyped /\ stack \in Stacks /\ n \in Nat \ {0} /\ n \in 1 .. n
      /\ Top = stack[n] /\ Top \in FrameRecord /\ Top.next > Len(Uses(Top.self))
  BY InvTyped DEF Leave, Top, Stacks
<1>2. FrameComplete(stack, n, Top) /\ FrameSound(Top)
  BY <1>1 DEF Inv, StackOK
<1>3. Top.self \in Selves /\ Top.sum \in Summary /\ Top.low \in Index
  BY <1>1 DEF FrameRecord
<1>4. memo' = IF Complete(Top, n) THEN Keep(Top.self, Top.sum) ELSE memo
  BY DEF Leave
<1>5. NoReceiverCycle \in Index
  BY HandlesAssumption DEF Index, NoReceiverCycle
<1>6. Given \in AnswerRecord
  BY <1>3, <1>5 DEF Given, Resolved, AnswerRecord
<1> HIDE DEF n
<1>7. CASE Complete(Top, n)
  <2>1. Exact(Top.sum, Top.self)
    BY <1>1, <1>2, <1>7, WholeIsExact
  <2>2. Given = Resolved(Top.sum, NoReceiverCycle)
    BY <1>7 DEF Given, n
  <2>3. AnswerComplete(stack, n - 1, Top.self, Given) /\ AnswerSound(Top.self, Given)
    BY <1>3, <2>1, <2>2, ExactAnswers
  <2>4. memo' = Keep(Top.self, Top.sum)
    BY <1>4, <1>7
  <2>5. memo' = [v \in DOMAIN memo \cup {Top.self} |-> IF v = Top.self THEN Top.sum ELSE memo[v]]
    BY <2>4 DEF Keep
  <2>6. memo' = [v \in DOMAIN memo' |-> memo'[v]]
    BY <2>5
  <2>7. \A v \in DOMAIN memo : memo[v] \in Summary /\ v \in Selves /\ Exact(memo[v], v)
    BY DEF Inv, TypeOK, MemoOK
  <2>8. \A v \in DOMAIN memo' : memo'[v] \in Summary /\ v \in Selves /\ Exact(memo'[v], v)
    BY <1>3, <2>1, <2>5, <2>7
  <2>9. MemoStep
    BY <2>6, <2>8 DEF MemoStep, MemoOK
  <2> QED BY <1>6, <2>3, <2>9 DEF n
<1>8. CASE ~Complete(Top, n)
  <2>1. Given = Resolved(Top.sum, Top.low)
    BY <1>8 DEF Given, n
  <2>2. AnswerComplete(stack, n - 1, Top.self, Given) /\ AnswerSound(Top.self, Given)
    BY <1>1, <1>2, <1>8, <2>1, PartAnswers
  <2>3. MemoStep
    BY <1>4, <1>8, MemoStays
  <2> QED BY <1>6, <2>2, <2>3 DEF n
<1> QED BY <1>7, <1>8

LEMMA LeaveStep ==
  ASSUME Inv, Leave
  PROVE  StackStep /\ MemoStep /\ OwnerStep
<1> DEFINE below == SubSeq(stack, 1, Len(stack) - 1)
           w == Top.self
<1>1. /\ ProgramTyped /\ stack \in Stacks /\ Len(stack) \in Nat \ {0} /\ stack # <<>>
      /\ Top = stack[Len(stack)]
  BY InvTyped DEF Leave, Top, Stacks
<1>2. /\ MemoStep /\ Given \in AnswerRecord
      /\ AnswerComplete(stack, Len(stack) - 1, w, Given) /\ AnswerSound(w, Given)
  BY GivenAnswers
<1>3. /\ IF below = <<>>
         THEN Judge(Given) /\ stack' = below
         ELSE /\ stack' = [below EXCEPT ![Len(below)] = TakeIn(@, Given)]
              /\ UNCHANGED <<at, credited, moved, otherUse>>
      /\ returned' = returned
  BY DEF Leave, Given
<1>4. below = SubSeq(stack, 1, Len(stack) - 1)
  OBVIOUS
<1> HIDE DEF below, w
<1>5. /\ below \in Stacks /\ StackOK(below) /\ Len(below) = Len(stack) - 1
      /\ \A k \in 1 .. Len(below) : below[k] = stack[k]
  BY <1>1, <1>4, PopKeeps DEF Inv
<1>6. AnswerComplete(below, Len(below), w, Given)
  <2>1. \A low : Cut(below, Len(below), low) = Cut(stack, Len(below), low)
    <3>1. Len(below) \in Nat /\ \A j \in 1 .. Len(below) : below[j].self = stack[j].self
      BY <1>1, <1>5
    <3> QED BY <3>1, CutSame
  <2>2. AnswerComplete(stack, Len(below), w, Given)
    BY <1>2, <1>5
  <2> QED BY <2>1, <2>2 DEF AnswerComplete
<1>7. CASE below = <<>>
  <2>1. Len(below) = 0 /\ Len(stack) = 1
    BY <1>1, <1>5, <1>7
  <2>2. at \in DOMAIN Body /\ Body[at].op = "pass" /\ Body[at].to = w
    BY <1>1, <2>1 DEF Inv, LinksOK, w
  <2>3. Judge(Given) /\ stack' = below /\ returned' = returned
    BY <1>3, <1>7
  <2>4. OwnerStep
    <3>1. AnswerComplete(below, 0, Body[at].to, Given) /\ AnswerSound(Body[at].to, Given)
      BY <1>2, <1>6, <2>1, <2>2
    <3>2. returned' \in BOOLEAN
      BY <2>3 DEF Inv, TypeOK
    <3> QED BY <1>1, <1>2, <2>2, <2>3, <3>1, <3>2, JudgeKeeps DEF Inv, OwnerStep
  <2>5. StackStep
    BY <1>5, <1>7, <2>1, <2>3, InvTyped DEF StackStep, LinksOK
  <2> QED BY <1>2, <2>4, <2>5
<1>8. CASE below # <<>>
  <2>1. /\ stack' = [below EXCEPT ![Len(below)] = TakeIn(below[Len(below)], Given)]
        /\ at' = at /\ returned' = returned /\ UNCHANGED <<at, credited, moved, otherUse>>
    BY <1>3, <1>8
  <2>2. Len(below) \in Nat \ {0} /\ Len(below) \in 1 .. Len(below)
    BY <1>5, <1>8 DEF Stacks
  <2>3. LinksOK(below, at)
    <3>1. ASSUME NEW k \in 1 .. Len(below), k > 1 PROVE Waiting(below[k - 1], below[k].self)
      <4>1. k - 1 \in 1 .. Len(below) /\ k \in 1 .. Len(stack)
        BY <1>1, <1>5, <2>2, <3>1
      <4>2. below[k - 1] = stack[k - 1] /\ below[k] = stack[k]
        BY <1>5, <4>1
      <4> QED BY <3>1, <4>1, <4>2 DEF Inv, LinksOK
    <3>2. below[1] = stack[1]
      BY <1>5, <2>2
    <3> QED BY <1>1, <3>1, <3>2 DEF Inv, LinksOK
  <2>4. Waiting(below[Len(below)], w)
    <3>1. Len(stack) \in 1 .. Len(stack) /\ Len(stack) > 1 /\ Len(stack) - 1 = Len(below)
      BY <1>1, <1>5, <2>2
    <3>2. Waiting(stack[Len(stack) - 1], stack[Len(stack)].self)
      BY <3>1 DEF Inv, LinksOK
    <3>3. below[Len(below)] = stack[Len(stack) - 1]
      BY <1>5, <2>2, <3>1
    <3> QED BY <1>1, <3>2, <3>3 DEF w
  <2>5. TakesIn(stack', below, Given)
    BY <1>8, <2>1 DEF TakesIn, Replaces
  <2>6. stack' \in Stacks /\ StackOK(stack') /\ LinksOK(stack', at) /\ Len(stack') = Len(below)
    BY <1>1, <1>2, <1>5, <1>6, <2>3, <2>4, <2>5, TakenIn
  <2>7. StackStep
    BY <1>1, <1>5, <2>1, <2>6, InvTyped DEF StackStep
  <2> QED BY <1>2, <2>1, <2>7, OwnerStays
<1> QED BY <1>7, <1>8

-----------------------------------------------------------------------------
(* The program stays, and with it whatever is said of it.                  *)

LEMMA CallsStay ==
  ASSUME program' = program
  PROVE  /\ Body' = Body /\ \A v : Uses(v)' = Uses(v)
         /\ \A v : CallsAtOnce(v)' = CallsAtOnce(v) /\ WaitsAtOnce(v)' = WaitsAtOnce(v)
         /\ \A v : CallsLater(v)' = CallsLater(v) /\ Touches(v)' = Touches(v)
         /\ \A v : Loses(v)' <=> Loses(v)
<1>1. Body' = Body /\ \A v : Uses(v)' = Uses(v)
  BY DEF Body, Uses
<1>2. \A v : Passes(v)' = Passes(v)
  BY <1>1 DEF Passes
<1>3. Closed' = Closed /\ ClosedAtOnce' = ClosedAtOnce
  BY <1>2 DEF Closed, ClosedAtOnce
<1>4. \A v : Reach(v)' = Reach(v) /\ ReachAtOnce(v)' = ReachAtOnce(v)
  BY <1>3 DEF Reach, ReachAtOnce, Core
<1>5. \A vs : UsesIn(vs)' = UsesIn(vs)
  BY <1>1 DEF UsesIn
<1>6. \A vs, op, async : FieldsIn(vs, op, async)' = FieldsIn(vs, op, async)
  BY <1>5 DEF FieldsIn
<1>7. \A v : CallsAtOnce(v)' = CallsAtOnce(v) /\ WaitsAtOnce(v)' = WaitsAtOnce(v)
  BY <1>4, <1>5 DEF CallsAtOnce, WaitsAtOnce, FieldsIn
<1>8. \A v : CallsLater(v)' = CallsLater(v) /\ Touches(v)' = Touches(v)
  BY <1>2, <1>4, <1>5 DEF CallsLater, Touches, FieldsIn
<1>9. \A v : Loses(v)' <=> Loses(v)
  BY <1>4, <1>5 DEF Loses
<1> QED BY <1>1, <1>7, <1>8, <1>9

LEMMA OwnerPartStays ==
  ASSUME program' = program
  PROVE  /\ Captures' = Captures
         /\ \A cs : Credited(cs)' <=> Credited(cs)
         /\ \A a, cs : HeededTo(a, cs)' <=> HeededTo(a, cs)
<1>1. Body' = Body
  BY CallsStay
<1>2. \A f : StoresTo(f)' = StoresTo(f)
  BY <1>1 DEF StoresTo
<1>3. \A f, from : Until(f, from)' = Until(f, from)
  BY <1>1, <1>2 DEF Until
<1>4. Captures' = Captures
  BY <1>1, <1>3 DEF Captures
<1>5. \A p, f : MayDischarge(p, f)' <=> MayDischarge(p, f)
  BY <1>1, CallsStay DEF MayDischarge
<1>6. \A p, f : Discharged(p, f)' <=> Discharged(p, f)
  BY <1>1, CallsStay DEF Discharged
<1>7. \A cs : Credited(cs)' <=> Credited(cs)
  BY <1>1, <1>6 DEF Credited
<1>8. \A p, cs : Heeded(p, cs)' <=> Heeded(p, cs)
  BY <1>4, <1>5 DEF Heeded
<1>9. \A a, cs : HeededTo(a, cs)' <=> HeededTo(a, cs)
  BY <1>1, <1>8 DEF HeededTo
<1> QED BY <1>4, <1>7, <1>9

LEMMA FramesStay ==
  ASSUME program' = program
  PROVE  /\ \A st : StackOK(st)' <=> StackOK(st)
         /\ \A st, a : LinksOK(st, a)' <=> LinksOK(st, a)
         /\ \A m : MemoOK(m)' <=> MemoOK(m)
<1>1. Body' = Body /\ \A v : Uses(v)' = Uses(v)
  BY CallsStay
<1>2. \A T, A, d : Aloof(T, A, d)' <=> Aloof(T, A, d)
  BY <1>1 DEF Aloof
<1>3. \A v, d : Never(v, d)' <=> Never(v, d)
  BY <1>2 DEF Never
<1>4. \A s, v : Exact(s, v)' <=> Exact(s, v)
  BY <1>3 DEF Exact
<1>5. \A st, k, fr : FrameComplete(st, k, fr)' <=> FrameComplete(st, k, fr)
  BY <1>1, <1>2 DEF FrameComplete
<1>6. \A fr : FrameSound(fr)' <=> FrameSound(fr)
  BY <1>3 DEF FrameSound
<1>7. \A st : StackOK(st)' <=> StackOK(st)
  BY <1>5, <1>6 DEF StackOK
<1>8. \A fr, w : Waiting(fr, w)' <=> Waiting(fr, w)
  BY <1>1 DEF Waiting
<1>9. \A st, a : LinksOK(st, a)' <=> LinksOK(st, a)
  BY <1>1, <1>8 DEF LinksOK
<1>10. \A m : MemoOK(m)' <=> MemoOK(m)
  BY <1>4 DEF MemoOK
<1> QED BY <1>7, <1>9, <1>10

LEMMA InvStays ==
  ASSUME Inv, program' = program, StackStep, MemoStep, OwnerStep
  PROVE  Inv'
<1>1. Body' = Body /\ Captures' = Captures
  BY CallsStay, OwnerPartStays
<1>2. TypeOK'
  <2>1. \E i \in DOMAIN Programs : program' \in Programs[i]
    BY DEF Inv, TypeOK
  <2>2. memo' \in [DOMAIN memo' -> Summary] /\ DOMAIN memo' \subseteq Selves
    BY DEF MemoStep
  <2>3. stack' \in Seq([self: Selves, next: Nat \ {0}, sum: Summary, low: Index]) /\ Len(stack') <= MaxReceiverDepth
    BY DEF StackStep, Stacks, FrameRecord
  <2>4. /\ at' \in 1 .. Len(Body') + 1 /\ credited' \subseteq Captures' /\ moved' \subseteq credited'
        /\ otherUse' \in BOOLEAN /\ returned' \in BOOLEAN
    BY <1>1 DEF OwnerStep
  <2> QED BY <2>1, <2>2, <2>3, <2>4 DEF TypeOK
<1>3. StackOK(stack)'
  <2>1. StackOK(stack')
    BY DEF StackStep
  <2> QED BY <2>1, FramesStay
<1>4. LinksOK(stack, at)'
  BY FramesStay DEF StackStep
<1>5. MemoOK(memo)'
  BY FramesStay DEF MemoStep
<1>6. OwnerOK'
  BY OwnerPartStays DEF OwnerStep, OwnerOK
<1> QED BY <1>2, <1>3, <1>4, <1>5, <1>6 DEF Inv

LEMMA InitInv == Init => Inv
<1> SUFFICES ASSUME Init PROVE Inv
  OBVIOUS
<1>1. ProgramTyped /\ Len(Body) \in Nat
  <2>1. PICK i \in DOMAIN Programs : program \in Programs[i]
    BY DEF Init
  <2>2. ProgramTyped
    BY <2>1, ProgramIsTyped
  <2> QED BY <2>2 DEF ProgramTyped
<1>2. TypeOK
  <2>1. memo \in [DOMAIN memo -> Summary] /\ DOMAIN memo \subseteq Selves
    BY DEF Init
  <2>2. stack \in Seq([self: Selves, next: Nat \ {0}, sum: Summary, low: Index]) /\ Len(stack) = 0
    BY DEF Init
  <2>3. Len(stack) <= MaxReceiverDepth
    BY <2>2, HandlesAssumption
  <2>4. at \in 1 .. Len(Body) + 1
    BY <1>1 DEF Init
  <2>5. /\ \E i \in DOMAIN Programs : program \in Programs[i]
        /\ credited \subseteq Captures /\ moved \subseteq credited
        /\ otherUse \in BOOLEAN /\ returned \in BOOLEAN
    BY DEF Init
  <2> QED BY <2>1, <2>2, <2>3, <2>4, <2>5 DEF TypeOK
<1>3. StackOK(stack) /\ LinksOK(stack, at)
  BY DEF Init, StackOK, LinksOK
<1>4. MemoOK(memo)
  BY DEF Init, MemoOK
<1>5. OwnerOK
  BY <1>1 DEF Init, OwnerOK, Credited, HeededTo, ProgramTyped
<1> QED BY <1>2, <1>3, <1>4, <1>5 DEF Inv

LEMMA NextInv == Inv /\ [Next]_vars => Inv'
<1> SUFFICES ASSUME Inv, [Next]_vars PROVE Inv'
  OBVIOUS
<1>1. CASE See
  <2>1. OwnerStep
    BY <1>1, InvTyped, SeeKeeps DEF Inv, OwnerStep
  <2>2. StackStep
    BY <1>1, InvTyped DEF See, Inv, StackStep, LinksOK
  <2>3. MemoStep /\ program' = program
    BY <1>1, MemoStays DEF See
  <2> QED BY <2>1, <2>2, <2>3, InvStays
<1>2. CASE Record
  <2>1. UNCHANGED <<program, memo, at, credited, moved, otherUse, returned>>
    BY <1>2 DEF Record
  <2> QED BY <1>2, <2>1, RecordStep, MemoStays, OwnerStays, InvStays
<1>3. CASE Answer
  <2>1. memo' = memo /\ program' = program
    BY <1>3 DEF Answer
  <2> QED BY <1>3, <2>1, AnswerStep, MemoStays, InvStays
<1>4. CASE Enter
  <2>1. UNCHANGED <<program, memo, at, credited, moved, otherUse, returned>>
    BY <1>4 DEF Enter
  <2> QED BY <1>4, <2>1, EnterStep, MemoStays, OwnerStays, InvStays
<1>5. CASE Leave
  <2>1. program' = program
    BY <1>5 DEF Leave
  <2> QED BY <1>5, <2>1, LeaveStep, InvStays
<1>6. CASE UNCHANGED vars
  <2>1. /\ UNCHANGED <<at, credited, moved, otherUse, returned>>
        /\ program' = program /\ memo' = memo /\ stack' = stack
    BY <1>6 DEF vars
  <2>2. StackStep
    BY <2>1, InvTyped DEF Inv, StackStep
  <2> QED BY <2>1, <2>2, MemoStays, OwnerStays, InvStays
<1> QED BY <1>1, <1>2, <1>3, <1>4, <1>5, <1>6 DEF Next, Done

LEMMA InvAlways == Spec => []Inv
BY InitInv, NextInv, PTL DEF Spec

-----------------------------------------------------------------------------
(* What a value of the literal meets.                                      *)

LEMMA LiteralCapture ==
  ASSUME ProgramTyped, NEW c \in Captures, c.value = 0
  PROVE  /\ c.from = 1 /\ c.until = Until(c.field, 1)
         /\ c.until \in StoresTo(c.field) \cup {Len(Body) + 1}
         /\ \A q \in StoresTo(c.field) : c.until <= q
<1>1. DOMAIN Body = 1 .. Len(Body) /\ Len(Body) \in Nat
  BY DEF ProgramTyped
<1>2. c.from = 1 /\ c.until = Until(c.field, 1)
  BY <1>1 DEF Captures
<1> DEFINE S == {i \in StoresTo(c.field) : i >= 1} \cup {Len(Body) + 1}
<1>3. S \in SUBSET Nat /\ S # {} /\ StoresTo(c.field) \subseteq S /\ S \subseteq StoresTo(c.field) \cup {Len(Body) + 1}
  BY <1>1 DEF StoresTo
<1>4. Until(c.field, 1) = Min(S)
  BY DEF Until
<1> HIDE DEF S
<1>5. Min(S) \in S /\ \A x \in S : Min(S) <= x
  BY <1>3, MinIsLeast
<1> QED BY <1>2, <1>3, <1>4, <1>5

LEMMA HoldsIs ==
  ASSUME ProgramTyped, NEW taken, NEW f, NEW p \in DOMAIN Body
  PROVE  /\ \A q \in StoresTo(f) : q < p /\ q \in Executed(taken) => q <= Holds(taken, f, p)
         /\ StoresTo(f) = {} => Holds(taken, f, p) = 0
<1>1. DOMAIN Body = 1 .. Len(Body) /\ Len(Body) \in Nat
  BY DEF ProgramTyped
<1> DEFINE S == {0} \cup {q \in StoresTo(f) : q < p /\ q \in Executed(taken)}
           n == Len(Body)
<1>2. n \in Nat /\ S \in SUBSET (0 .. n) /\ S # {}
  BY <1>1 DEF StoresTo
<1>3. Holds(taken, f, p) = Max(S)
  BY DEF Holds
<1>4. StoresTo(f) = {} => S = {0}
  OBVIOUS
<1>5. \A q \in StoresTo(f) : q < p /\ q \in Executed(taken) => q \in S
  OBVIOUS
<1> HIDE DEF S, n
<1>6. Max(S) \in S /\ \A x \in S : x <= Max(S)
  BY <1>2, MaxIsLargest
<1> QED BY <1>3, <1>4, <1>5, <1>6

LEMMA ReportsFollow == Inv => ReportsAreReal
<1> SUFFICES ASSUME Inv, Straight, at > Len(Body), NEW c \in Reported, NEW taken \in BOOLEAN,
                    NEW p \in Executed(taken), Holds(taken, c.field, p) = c.value, MayDischarge(p, c.field)
             PROVE  FALSE
  BY DEF ReportsAreReal
<1>1. /\ ProgramTyped /\ DOMAIN Body = 1 .. Len(Body) /\ Len(Body) \in Nat /\ at \in Nat
      /\ p \in DOMAIN Body /\ p \in Nat /\ p < at
  BY InvTyped DEF Inv, TypeOK, ProgramTyped, Executed
<1>2. c \in Captures /\ c.value = 0 /\ c \notin credited /\ ~otherUse /\ ~returned
  BY DEF Reported
<1>3. Heeded(p, credited)
  BY <1>1, <1>2 DEF Inv, OwnerOK, HeededTo
<1>4. c.from = 1 /\ c.until \in StoresTo(c.field) \cup {Len(Body) + 1}
  BY <1>1, <1>2, LiteralCapture
<1>5. \A q \in StoresTo(c.field) : q \in DOMAIN Body /\ q \in Nat /\ q # 0 /\ Body[q].op = "store"
  BY <1>1 DEF StoresTo
<1>6. ASSUME c.until <= p PROVE FALSE
  <2>1. c.until \in StoresTo(c.field)
    BY <1>1, <1>4, <1>6
  <2>2. PICK q \in StoresTo(c.field) : q = c.until
    BY <2>1
  <2>3. Body[p].op # "store"
    BY DEF MayDischarge
  <2>4. q < p /\ q \in Nat /\ q # 0 /\ q \in DOMAIN Body
    BY <1>1, <1>5, <1>6, <2>2, <2>3
  <2>5. q \in Executed(taken)
    <3>1. ~Body[q].if
      BY <1>5, <2>4 DEF Straight
    <3>2. \A r \in 1 .. q - 1 : r \in 1 .. p - 1
      BY <1>1, <2>4
    <3> QED BY <2>4, <3>1, <3>2 DEF Executed
  <2>6. q <= Holds(taken, c.field, p)
    BY <1>1, <2>4, <2>5, HoldsIs
  <2> QED BY <1>2, <2>4, <2>6
<1>7. p < c.until
  BY <1>1, <1>4, <1>5, <1>6
<1> QED BY <1>1, <1>2, <1>3, <1>4, <1>7 DEF Heeded

LEMMA CreditsFollow == Inv => CreditsAreReal
<1> SUFFICES ASSUME Inv, NothingIsDead, NEW c \in credited, c.value = 0, c.until > Len(Body)
             PROVE  DischargedInSomeRun(c)
  BY DEF CreditsAreReal
<1>1. ProgramTyped /\ DOMAIN Body = 1 .. Len(Body) /\ Len(Body) \in Nat /\ c \in Captures
  BY InvTyped DEF Inv, TypeOK, ProgramTyped
<1>2. PICK p \in DOMAIN Body : Discharged(p, c.field)
  BY DEF Inv, OwnerOK, Credited
<1>3. PICK taken \in BOOLEAN : p \in Executed(taken)
  BY DEF NothingIsDead
<1>4. StoresTo(c.field) = {}
  <2>1. \A q \in StoresTo(c.field) : q \in 1 .. Len(Body) /\ c.until <= q
    BY <1>1, LiteralCapture DEF StoresTo
  <2>2. c.until \in Nat
    BY <1>1, LiteralCapture DEF StoresTo
  <2> QED BY <1>1, <2>1, <2>2
<1>5. Holds(taken, c.field, p) = 0
  BY <1>1, <1>4, HoldsIs
<1> QED BY <1>2, <1>3, <1>5 DEF DischargedInSomeRun

-----------------------------------------------------------------------------

(* The walk keeps within its bounds: the stack is never deeper than        *)
(* maxReceiverDepth, a frame's low is the index of a frame or says that    *)
(* there is none, and only what the literal or a store gave is credited.   *)
THEOREM TypeCorrect == Spec => []TypeOK
<1>1. Inv => TypeOK
  BY DEF Inv
<1> QED BY <1>1, InvAlways, PTL

(* A summary that is kept says what the variable's function and all that   *)
(* it calls do: whatever recursion there is, whichever call asked first,   *)
(* and however deep the stack was then (handleSummaryOf).                  *)
THEOREM SummariesCorrect == Spec => []SummariesExact
<1>1. Inv => SummariesExact
  <2> SUFFICES ASSUME Inv, NEW v \in DOMAIN memo
               PROVE  /\ memo[v].called = CallsAtOnce(v)
                      /\ memo[v].waited = WaitsAtOnce(v)
                      /\ memo[v].touched \cup memo[v].called = Touches(v) \cup CallsLater(v) \cup CallsAtOnce(v)
                      /\ memo[v].escapes = Loses(v)
    BY DEF SummariesExact
  <2>1. v \in Selves /\ memo[v] \in Summary /\ Exact(memo[v], v)
    BY DEF Inv, TypeOK, MemoOK
  <2> QED BY <2>1, InvTyped, ExactMeans
<1> QED BY <1>1, InvAlways, PTL

(* Where the fields are stored to on every path, a value of the literal    *)
(* that is reported as never called or joined is one that no execution of  *)
(* the owner calls, joins or hands to anybody (resolveFieldCaptures).      *)
THEOREM ReportsCorrect == Spec => []ReportsAreReal
BY ReportsFollow, InvAlways, PTL

(* A value that stays in its field and is credited with its call or join   *)
(* has one in some execution, unless the owner has dead code               *)
(* (markCancelFieldConsumed, followHandleMethod, followHandleArgument).    *)
THEOREM CreditsCorrect == Spec => []CreditsAreReal
BY CreditsFollow, InvAlways, PTL
=============================================================================
