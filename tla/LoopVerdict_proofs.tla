------------------------- MODULE LoopVerdict_proofs -------------------------
(***************************************************************************)
(* Why Tarjan's algorithm emits exactly the strongly connected components, *)
(* for every graph and every order of successors.                          *)
(***************************************************************************)
EXTENDS LoopVerdict, SequenceTheorems, FiniteSetTheorems, TLAPS

Call == [block : Blocks, left : SUBSET Blocks]

Shape == /\ edges \subseteq Blocks \X Blocks
         /\ index \in [Blocks -> Nat \cup {-1}] /\ low \in [Blocks -> Nat \cup {-1}]
         /\ counter \in Nat
         /\ stack \in Seq(Blocks) /\ calls \in Seq(Call) /\ result \in Seq(SUBSET Blocks)

\* The blocks in the least closed set around b.
Closed(S) == \A e \in edges : e[1] \in S => e[2] \in S
From(b) == {c \in Blocks : \A S \in SUBSET Blocks : b \in S /\ Closed(S) => c \in S}

Visited(v) == index[v] # -1
Caller(i) == calls[i].block
Open(v) == \E i \in DOMAIN calls : Caller(i) = v
Emitted == UNION ToSet(result)

\* Indices tell the blocks apart, in the order of the visits.
IndexInv == /\ \A v \in Blocks : index[v] < counter
            /\ \A v, w \in Blocks : Visited(v) /\ index[v] = index[w] => v = w

\* The stack is in the order of the visits, and holds what is visited and not emitted.
StackInv == /\ \A i, j \in DOMAIN stack : i < j => index[stack[i]] < index[stack[j]]
            /\ \A v \in Blocks : Visited(v) <=> OnStack(v) \/ v \in Emitted
            /\ \A v \in Blocks : OnStack(v) => v \notin Emitted

\* So are the open calls; the successors that a call has dealt with have been visited, and
\* all those of a call that is over.
CallInv == /\ \A i, j \in DOMAIN calls : i < j => index[Caller(i)] < index[Caller(j)]
           /\ \A i \in DOMAIN calls : OnStack(Caller(i)) /\ calls[i].left \subseteq Successors(Caller(i))
           /\ \A i \in DOMAIN calls : \A w \in Successors(Caller(i)) \ calls[i].left : Visited(w)
           /\ \A v \in Blocks : Visited(v) /\ ~Open(v) => \A w \in Successors(v) : Visited(w)

\* A block of the stack leads to all above it, and to an open call below it.
PathInv == /\ \A v, w \in ToSet(stack) : index[v] <= index[w] => w \in From(v)
           /\ \A v \in ToSet(stack) : \E i \in DOMAIN calls : index[Caller(i)] <= index[v] /\ Caller(i) \in From(v)

\* low is the index of a block of the stack that the call's block leads to.
LowInv == \A i \in DOMAIN calls :
  /\ low[Caller(i)] <= index[Caller(i)]
  /\ \E w \in ToSet(stack) : index[w] = low[Caller(i)] /\ w \in From(Caller(i))

\* The ways that a call has seen: its own, and those of its finished callees.
Seen(i, v, w) ==
  \/ v = Caller(i) /\ w \notin calls[i].left
  \/ index[Caller(i)] < index[v] /\ (i # Len(calls) => index[v] < index[Caller(i + 1)])

\* None of them leads to a block of the stack below low.
BoundInv == \A i \in DOMAIN calls : \A e \in edges :
  OnStack(e[1]) /\ OnStack(e[2]) /\ Seen(i, e[1], e[2]) => low[Caller(i)] <= index[e[2]]

\* What has been emitted is closed and consists of whole components.
Component(b) == {c \in From(b) : b \in From(c)}
ResultInv == /\ Closed(Emitted)
             /\ \A C \in ToSet(result) : \A b \in C : C = Component(b)
             /\ \A i, j \in DOMAIN result : i # j => result[i] \cap result[j] = {}

TarjanInv == Shape /\ IndexInv /\ StackInv /\ CallInv /\ PathInv /\ LowInv /\ BoundInv /\ ResultInv
-----------------------------------------------------------------------------

(* What a block leads to: itself, on along every edge, and nothing else.   *)
LEMMA FromFacts ==
  ASSUME edges \subseteq Blocks \X Blocks
  PROVE  /\ \A b \in Blocks : b \in From(b) /\ Closed(From(b))
         /\ \A b \in Blocks : \A S \in SUBSET Blocks : b \in S /\ Closed(S) => From(b) \subseteq S
         /\ \A b, c \in Blocks : c \in From(b) => From(c) \subseteq From(b)
         /\ \A b \in Blocks : \A c \in Successors(b) : c \in Blocks /\ c \in From(b)
<1>1. \A b \in Blocks : b \in From(b) /\ Closed(From(b))
  BY DEF From, Closed
<1>2. \A b \in Blocks : \A S \in SUBSET Blocks : b \in S /\ Closed(S) => From(b) \subseteq S
  BY DEF From
<1>3. \A b, c \in Blocks : c \in From(b) => From(c) \subseteq From(b)
  <2>1. \A b \in Blocks : From(b) \in SUBSET Blocks
    BY DEF From
  <2> QED BY <1>1, <1>2, <2>1
<1>4. \A b \in Blocks : \A c \in Successors(b) : c \in Blocks /\ c \in From(b)
  <2> SUFFICES ASSUME NEW b \in Blocks, NEW c \in Successors(b)
               PROVE  c \in Blocks /\ c \in From(b)
    OBVIOUS
  <2>1. PICK e \in edges : e[1] = b /\ e[2] = c
    BY DEF Successors
  <2> QED BY <1>1, <2>1 DEF Closed
<1> QED BY <1>1, <1>2, <1>3, <1>4

LEMMA FromSame ==
  ASSUME edges' = edges
  PROVE  /\ \A b : From(b)' = From(b) /\ Component(b)' = Component(b)
         /\ \A S : Closed(S)' = Closed(S)
         /\ \A b : Successors(b)' = Successors(b)
<1>1. \A S : Closed(S)' = Closed(S)
  BY DEF Closed
<1>2. \A b : From(b)' = From(b)
  BY <1>1 DEF From
<1> QED BY <1>1, <1>2 DEF Component, Successors

(* The sequences of the algorithm.                                         *)
LEMMA CallsFacts ==
  ASSUME Shape, calls # <<>>
  PROVE  /\ Len(calls) \in Nat \ {0} /\ Last(calls) = calls[Len(calls)] /\ Last(calls) \in Call
         /\ Front(calls) \in Seq(Call) /\ Len(Front(calls)) = Len(calls) - 1
         /\ \A i \in 1..(Len(calls) - 1) : Front(calls)[i] = calls[i]
         /\ \A i \in 1..Len(calls) : calls[i] \in Call
<1>1. calls \in Seq(Call) /\ Len(calls) \in Nat \ {0}
  BY EmptySeq, LenProperties DEF Shape
<1>2. \A i \in 1..Len(calls) : calls[i] \in Call
  BY <1>1, ElementOfSeq
<1>3. Front(calls) = SubSeq(calls, 1, Len(calls) - 1)
  BY DEF Front
<1>4. /\ Front(calls) \in Seq(Call) /\ Len(Front(calls)) = Len(calls) - 1
      /\ \A i \in 1..(Len(calls) - 1) : Front(calls)[i] = calls[i]
  <2> DEFINE m == Len(calls) - 1
  <2>1. m \in Nat /\ 1 \in Int /\ m \in Int /\ \A i \in 1..m : calls[i] \in Call
    BY <1>1, <1>2
  <2> HIDE DEF m
  <2>2. /\ SubSeq(calls, 1, m) \in Seq(Call)
        /\ Len(SubSeq(calls, 1, m)) = IF 1 <= m THEN m - 1 + 1 ELSE 0
        /\ \A i \in 1..(m - 1 + 1) : SubSeq(calls, 1, m)[i] = calls[1 + i - 1]
    BY <2>1, SubSeqProperties
  <2>3. /\ Len(SubSeq(calls, 1, m)) = m
        /\ \A i \in 1..m : SubSeq(calls, 1, m)[i] = calls[i]
    BY <2>1, <2>2
  <2> QED BY <1>3, <2>2, <2>3 DEF m
<1> QED BY <1>1, <1>2, <1>4 DEF Last

LEMMA WithoutWayFacts ==
  ASSUME Shape, calls # <<>>, NEW w
  PROVE  /\ WithoutWay(w) \in Seq(Call) /\ Len(WithoutWay(w)) = Len(calls)
         /\ \A i \in 1..Len(calls) : WithoutWay(w)[i].block = calls[i].block
         /\ \A i \in 1..Len(calls) :
              WithoutWay(w)[i].left = IF i = Len(calls) THEN calls[i].left \ {w} ELSE calls[i].left
<1> DEFINE n == Len(calls)
           top == [Last(calls) EXCEPT !.left = @ \ {w}]
<1>1. /\ n \in Nat \ {0} /\ Last(calls) = calls[n] /\ Last(calls) \in Call
      /\ Front(calls) \in Seq(Call) /\ Len(Front(calls)) = n - 1
      /\ \A i \in 1..(n - 1) : Front(calls)[i] = calls[i]
  BY CallsFacts
<1>2. top \in Call /\ top.block = calls[n].block /\ top.left = calls[n].left \ {w}
  BY <1>1 DEF Call
<1> HIDE DEF top
<1>3. WithoutWay(w) = Front(calls) \o <<top>>
  BY DEF WithoutWay, top
<1>4. <<top>> \in Seq(Call) /\ Len(<<top>>) = 1 /\ <<top>>[1] = top
  BY <1>2
<1> DEFINE one == <<top>>
<1> HIDE DEF one
<1>5. one \in Seq(Call) /\ Len(one) = 1 /\ one[1] = top /\ WithoutWay(w) = Front(calls) \o one
  BY <1>3, <1>4 DEF one
<1>6. /\ Front(calls) \o one \in Seq(Call) /\ Len(Front(calls) \o one) = n - 1 + 1
      /\ \A i \in 1..n : (Front(calls) \o one)[i] = IF i <= n - 1 THEN Front(calls)[i] ELSE one[i - (n - 1)]
  <2> DEFINE f == Front(calls)
  <2>1. f \in Seq(Call) /\ one \in Seq(Call) /\ Len(f) = n - 1 /\ Len(one) = 1 /\ n \in Nat
    BY <1>1, <1>5
  <2> HIDE DEF f, n
  <2>2. /\ f \o one \in Seq(Call) /\ Len(f \o one) = Len(f) + Len(one)
        /\ \A i \in 1..(Len(f) + Len(one)) : (f \o one)[i] = IF i <= Len(f) THEN f[i] ELSE one[i - Len(f)]
    BY <2>1, ConcatProperties
  <2> QED BY <2>1, <2>2 DEF f
<1>7. WithoutWay(w) \in Seq(Call) /\ Len(WithoutWay(w)) = n
  BY <1>1, <1>5, <1>6
<1>8. WithoutWay(w)[n] = top /\ \A i \in 1..(n - 1) : WithoutWay(w)[i] = calls[i]
  BY <1>1, <1>5, <1>6
<1>9. \A i \in 1..n : i = n \/ (i \in 1..(n - 1) /\ i # n)
  BY <1>1
<1> HIDE DEF n
<1>10. \A i \in 1..n : /\ WithoutWay(w)[i].block = calls[i].block
                       /\ WithoutWay(w)[i].left = IF i = n THEN calls[i].left \ {w} ELSE calls[i].left
  BY <1>2, <1>8, <1>9
<1> QED BY <1>7, <1>10 DEF n

(* A new call keeps the invariant.  cs is what is left of the old calls:   *)
(* the innermost one has dealt with the way to the new block.              *)
LEMMA EnterStep ==
  ASSUME TarjanInv,
         NEW v \in Blocks, index[v] = -1,
         NEW cs \in Seq(Call), Len(cs) = Len(calls),
         \A i \in 1..Len(calls) : cs[i].block = calls[i].block,
         \A i \in 1..Len(calls) : cs[i].left \subseteq calls[i].left /\ calls[i].left \subseteq cs[i].left \cup {v},
         Len(calls) # 0 => v \in Successors(Caller(Len(calls))),
         Enter(v, cs)
  PROVE  TarjanInv'
<1> DEFINE n == Len(calls)
           k == Len(stack)
           new == [block |-> v, left |-> Successors(v)]
<1>s. Shape /\ IndexInv /\ StackInv /\ CallInv /\ PathInv /\ LowInv /\ BoundInv /\ ResultInv
  BY DEF TarjanInv
<1>e. /\ index' = [index EXCEPT ![v] = counter] /\ low' = [low EXCEPT ![v] = counter]
      /\ counter' = counter + 1 /\ stack' = Append(stack, v) /\ calls' = Append(cs, new)
      /\ edges' = edges /\ result' = result
  BY DEF Enter
<1>f. /\ edges \subseteq Blocks \X Blocks /\ counter \in Nat
      /\ index \in [Blocks -> Nat \cup {-1}] /\ low \in [Blocks -> Nat \cup {-1}]
      /\ stack \in Seq(Blocks) /\ calls \in Seq(Call) /\ result \in Seq(SUBSET Blocks)
  BY <1>s DEF Shape
<1>1. new \in Call /\ Successors(v) \subseteq Blocks /\ new.block = v /\ new.left = Successors(v)
  BY <1>f DEF Call, Successors
<1>2. /\ stack' \in Seq(Blocks) /\ Len(stack') = k + 1 /\ k \in Nat
      /\ \A i \in 1..k : stack'[i] = stack[i]
      /\ stack'[k + 1] = v
  BY <1>e, <1>f, AppendProperties, LenProperties
<1> HIDE DEF new
<1>3. /\ calls' \in Seq(Call) /\ Len(calls') = n + 1 /\ n \in Nat
      /\ \A i \in 1..n : calls'[i] = cs[i]
      /\ calls'[n + 1] = new
  BY <1>e, <1>f, <1>1, AppendProperties, LenProperties
<1>4. Shape'
  BY <1>e, <1>f, <1>2, <1>3 DEF Shape
<1>5. /\ DOMAIN stack = 1..k /\ DOMAIN stack' = 1..(k + 1)
      /\ DOMAIN calls = 1..n /\ DOMAIN calls' = 1..(n + 1)
  BY <1>f, <1>2, <1>3, LenProperties
<1>6. ToSet(stack') = ToSet(stack) \cup {v} /\ ToSet(stack) \subseteq Blocks
  <2>1. \A i \in 1..k : stack[i] \in Blocks
    BY <1>f, ElementOfSeq
  <2>2. ToSet(stack) = {stack[i] : i \in 1..k} /\ ToSet(stack') = {stack'[i] : i \in 1..(k + 1)}
    BY <1>5 DEF ToSet
  <2>3. \A i \in 1..(k + 1) : i \in 1..k \/ i = k + 1
    BY <1>2
  <2>4. k + 1 \in 1..(k + 1) /\ 1..k \subseteq 1..(k + 1)
    BY <1>2
  <2> HIDE DEF k
  <2> QED BY <1>2, <2>1, <2>2, <2>3, <2>4
<1>7. v \notin ToSet(stack) /\ v \notin Emitted /\ \A w \in Blocks : index'[w] # -1 <=> Visited(w) \/ w = v
  BY <1>s, <1>e, <1>f DEF StackInv, OnStack, Visited
<1>8. \A w \in Blocks : w # v => index'[w] = index[w] /\ low'[w] = low[w]
  BY <1>e, <1>f
<1>9. index'[v] = counter /\ low'[v] = counter /\ counter \in Nat /\ \A w \in Blocks : index[w] < counter /\ index[w] \in Int /\ low[w] \in Int
  BY <1>e, <1>f, <1>s DEF IndexInv
<1>10. /\ \A i \in 1..n : /\ calls'[i].block = Caller(i) /\ Caller(i) \in Blocks /\ Caller(i) # v
                          /\ Caller(i) \in ToSet(stack) /\ calls'[i].left = cs[i].left
       /\ calls'[n + 1].block = v /\ calls'[n + 1].left = Successors(v)
  <2>1. \A i \in 1..n : calls'[i].block = Caller(i) /\ calls'[i].left = cs[i].left
    BY <1>3 DEF Caller
  <2>2. \A i \in 1..n : OnStack(Caller(i))
    BY <1>s, <1>5 DEF CallInv
  <2>3. calls'[n + 1].block = v /\ calls'[n + 1].left = Successors(v)
    BY <1>1, <1>3
  <2> QED BY <2>1, <2>2, <2>3, <1>6, <1>7 DEF OnStack
<1>11. /\ \A b : From(b)' = From(b) /\ Component(b)' = Component(b)
       /\ \A S : Closed(S)' = Closed(S)
       /\ \A b : Successors(b)' = Successors(b)
  BY <1>e, FromSame
<1>12. Emitted' = Emitted
  BY <1>e DEF Emitted
<1>13. \A w \in Blocks : w \in ToSet(stack') <=> OnStack(w) \/ w = v
  BY <1>6 DEF OnStack
<1> HIDE DEF n, k
<1>14. IndexInv'
  <2>1. \A u \in Blocks : index'[u] < counter'
    BY <1>8, <1>9, <1>e, <1>f
  <2>2. \A u, w \in Blocks : index'[u] # -1 /\ index'[u] = index'[w] => u = w
    <3> SUFFICES ASSUME NEW u \in Blocks, NEW w \in Blocks, index'[u] # -1, index'[u] = index'[w], u # w
                 PROVE  FALSE
      OBVIOUS
    <3>1. CASE u # v /\ w # v
      BY <3>1, <1>8, <1>s DEF IndexInv, Visited
    <3>2. CASE u = v \/ w = v
      BY <3>2, <1>8, <1>9
    <3> QED BY <3>1, <3>2
  <2> QED BY <2>1, <2>2 DEF IndexInv, Visited
<1>15. StackInv'
  <2>1. \A i, j \in DOMAIN stack' : i < j => index'[stack'[i]] < index'[stack'[j]]
    <3> SUFFICES ASSUME NEW i \in 1..(k + 1), NEW j \in 1..(k + 1), i < j
                 PROVE  index'[stack'[i]] < index'[stack'[j]]
      BY <1>5
    <3>1. i \in 1..k /\ stack'[i] = stack[i] /\ stack[i] \in Blocks /\ stack[i] # v
      BY <1>2, <1>5, <1>6, <1>7 DEF ToSet
    <3>2. CASE j = k + 1
      BY <3>1, <3>2, <1>2, <1>8, <1>9
    <3>3. CASE j # k + 1
      <4>1. j \in 1..k /\ stack'[j] = stack[j] /\ stack[j] \in Blocks /\ stack[j] # v
        BY <3>3, <1>2, <1>5, <1>6, <1>7 DEF ToSet
      <4> QED BY <3>1, <4>1, <1>s, <1>5, <1>8 DEF StackInv
    <3> QED BY <3>2, <3>3
  <2>2. \A w \in Blocks : index'[w] # -1 <=> w \in ToSet(stack') \/ (w \in Emitted)'
    BY <1>7, <1>12, <1>13, <1>s DEF StackInv
  <2>3. \A w \in Blocks : w \in ToSet(stack') => (w \notin Emitted)'
    BY <1>7, <1>12, <1>13, <1>s DEF StackInv
  <2> QED BY <2>1, <2>2, <2>3 DEF StackInv, Visited, OnStack
<1>16. CallInv'
  <2>1. \A i, j \in DOMAIN calls' : i < j => index'[calls'[i].block] < index'[calls'[j].block]
    <3> SUFFICES ASSUME NEW i \in 1..(n + 1), NEW j \in 1..(n + 1), i < j
                 PROVE  index'[calls'[i].block] < index'[calls'[j].block]
      BY <1>5
    <3>1. i \in 1..n /\ index'[calls'[i].block] = index[Caller(i)]
      BY <1>3, <1>8, <1>10
    <3>2. CASE j = n + 1
      BY <3>1, <3>2, <1>9, <1>10
    <3>3. CASE j # n + 1
      <4>1. j \in 1..n /\ index'[calls'[j].block] = index[Caller(j)]
        BY <3>3, <1>3, <1>8, <1>10
      <4> QED BY <3>1, <4>1, <1>s, <1>5 DEF CallInv
    <3> QED BY <3>2, <3>3
  <2>2. \A i \in DOMAIN calls' : calls'[i].block \in ToSet(stack') /\ calls'[i].left \subseteq Successors(calls'[i].block)
    <3> SUFFICES ASSUME NEW i \in 1..(n + 1)
                 PROVE  calls'[i].block \in ToSet(stack') /\ calls'[i].left \subseteq Successors(calls'[i].block)
      BY <1>5 DEF OnStack
    <3>1. CASE i = n + 1
      BY <3>1, <1>6, <1>10
    <3>2. CASE i # n + 1
      <4>1. i \in 1..n /\ calls[i].left \subseteq Successors(Caller(i))
        BY <3>2, <1>s, <1>3, <1>5 DEF CallInv
      <4> QED BY <4>1, <1>6, <1>10 DEF n
    <3> QED BY <3>1, <3>2
  <2>3. \A i \in DOMAIN calls' : \A w \in Successors(calls'[i].block) \ calls'[i].left : index'[w] # -1
    <3> SUFFICES ASSUME NEW i \in 1..(n + 1), NEW w \in Successors(calls'[i].block) \ calls'[i].left
                 PROVE  index'[w] # -1
      BY <1>5
    <3>1. CASE i = n + 1
      BY <3>1, <1>10
    <3>2. CASE i # n + 1
      <4>1. i \in 1..n /\ calls'[i].block = Caller(i) /\ w \in Successors(Caller(i)) /\ w \notin cs[i].left
        BY <3>2, <1>3, <1>10
      <4>2. w \notin calls[i].left \/ w = v
        BY <4>1 DEF n
      <4>3. w \in Blocks
        BY <4>1, <1>f DEF Successors
      <4> QED BY <4>1, <4>2, <4>3, <1>s, <1>5, <1>7 DEF CallInv
    <3> QED BY <3>1, <3>2
  <2>4. \A u \in Blocks : index'[u] # -1 /\ ~Open(u)' => \A w \in Successors(u) : index'[w] # -1
    <3> SUFFICES ASSUME NEW u \in Blocks, index'[u] # -1, ~Open(u)', NEW w \in Successors(u)
                 PROVE  index'[w] # -1
      OBVIOUS
    <3>1. u # v
      <4>1. n + 1 \in DOMAIN calls'
        BY <1>3, <1>5
      <4> QED BY <4>1, <1>10 DEF Open, Caller
    <3>2. ~Open(u)
      <4> SUFFICES ASSUME NEW i \in 1..n, Caller(i) = u PROVE FALSE
        BY <1>5 DEF Open
      <4>1. i \in DOMAIN calls' /\ calls'[i].block = u
        BY <1>3, <1>5, <1>10
      <4> QED BY <4>1 DEF Open, Caller
    <3>3. w \in Blocks
      BY <1>f DEF Successors
    <3> QED BY <3>1, <3>2, <3>3, <1>7, <1>s DEF CallInv
  <2> QED BY <2>1, <2>2, <2>3, <2>4, <1>11 DEF CallInv, Caller, OnStack, Visited
<1>17. PathInv'
  <2>1. \A u, w \in ToSet(stack') : index'[u] <= index'[w] => w \in From(u)
    <3> SUFFICES ASSUME NEW u \in ToSet(stack) \cup {v}, NEW w \in ToSet(stack) \cup {v}, index'[u] <= index'[w]
                 PROVE  w \in From(u)
      BY <1>6
    <3>1. CASE u = w
      BY <3>1, <1>6, <1>f, FromFacts
    <3>2. CASE u # v /\ w # v
      BY <3>2, <1>6, <1>8, <1>s DEF PathInv
    <3>3. CASE u = v /\ w # v
      BY <3>3, <1>6, <1>8, <1>9
    <3>4. CASE u # v /\ w = v
      <4>1. PICK i \in 1..n : index[Caller(i)] <= index[u] /\ Caller(i) \in From(u)
        BY <3>4, <1>s, <1>5 DEF PathInv
      <4>2. n \in 1..n /\ v \in Successors(Caller(n))
        BY <4>1, <1>3 DEF n
      <4>3. i = n \/ index[Caller(i)] < index[Caller(n)]
        BY <4>1, <4>2, <1>3, <1>5, <1>s DEF CallInv
      <4>4. Caller(n) \in From(Caller(i))
        BY <4>2, <4>3, <1>3, <1>9, <1>10, <1>s DEF PathInv
      <4>5. Caller(n) \in From(u)
        BY <4>1, <4>4, <1>6, <1>10, <1>f, FromFacts
      <4>6. v \in From(u)
        BY <4>2, <4>5, <1>6, <1>10, <1>f, FromFacts
      <4> QED BY <4>6, <3>4
    <3> QED BY <3>1, <3>2, <3>3, <3>4
  <2>2. \A u \in ToSet(stack') : \E i \in DOMAIN calls' : index'[calls'[i].block] <= index'[u] /\ calls'[i].block \in From(u)
    <3> SUFFICES ASSUME NEW u \in ToSet(stack')
                 PROVE  \E i \in 1..(n + 1) : index'[calls'[i].block] <= index'[u] /\ calls'[i].block \in From(u)
      BY <1>5
    <3>1. CASE u = v
      <4>1. calls'[n + 1].block = v /\ v \in From(v) /\ counter <= counter
        BY <1>10, <1>f, FromFacts
      <4> QED BY <4>1, <3>1, <1>3, <1>9
    <3>2. CASE u # v
      <4>1. u \in ToSet(stack) /\ u \in Blocks
        BY <3>2, <1>6
      <4>2. PICK i \in 1..n : index[Caller(i)] <= index[u] /\ Caller(i) \in From(u)
        BY <4>1, <1>s, <1>5 DEF PathInv
      <4> QED BY <3>2, <4>1, <4>2, <1>3, <1>8, <1>10
    <3> QED BY <3>1, <3>2
  <2> QED BY <2>1, <2>2, <1>11 DEF PathInv, Caller
<1>18. LowInv'
  <2> SUFFICES ASSUME NEW i \in 1..(n + 1)
               PROVE  /\ low'[calls'[i].block] <= index'[calls'[i].block]
                      /\ \E w \in ToSet(stack') : index'[w] = low'[calls'[i].block] /\ w \in From(calls'[i].block)
    BY <1>5, <1>11 DEF LowInv, Caller
  <2>1. CASE i = n + 1
    <3>1. calls'[i].block = v /\ v \in From(v) /\ v \in ToSet(stack') /\ counter <= counter
      BY <2>1, <1>6, <1>10, <1>f, FromFacts
    <3> QED BY <3>1, <1>9
  <2>2. CASE i # n + 1
    <3>1. i \in 1..n /\ calls'[i].block = Caller(i) /\ Caller(i) \in Blocks /\ Caller(i) # v
      BY <2>2, <1>3, <1>10
    <3>2. /\ low[Caller(i)] <= index[Caller(i)]
          /\ \E w \in ToSet(stack) : index[w] = low[Caller(i)] /\ w \in From(Caller(i))
      BY <3>1, <1>s, <1>5 DEF LowInv
    <3> QED BY <3>1, <3>2, <1>6, <1>7, <1>8
  <2> QED BY <2>1, <2>2
<1>19. BoundInv'
  <2> SUFFICES ASSUME NEW i \in 1..(n + 1), NEW e \in edges,
                      e[1] \in ToSet(stack'), e[2] \in ToSet(stack'), Seen(i, e[1], e[2])'
               PROVE  low'[calls'[i].block] <= index'[e[2]]
    BY <1>5, <1>e DEF BoundInv, Caller, OnStack
  <2>e. e[1] \in Blocks /\ e[2] \in Blocks /\ e[2] \in Successors(e[1])
    BY <1>f DEF Successors
  <2>s. \/ e[1] = calls'[i].block /\ e[2] \notin calls'[i].left
        \/ index'[calls'[i].block] < index'[e[1]] /\ (i # n + 1 => index'[e[1]] < index'[calls'[i + 1].block])
    BY <1>3 DEF Seen, Caller
  <2>1. CASE i = n + 1
    BY <2>1, <2>e, <2>s, <1>8, <1>9, <1>10
  <2>2. CASE i # n + 1
    <3>1. /\ i \in 1..n /\ calls'[i].block = Caller(i) /\ Caller(i) \in Blocks /\ Caller(i) # v
          /\ calls'[i].left = cs[i].left
      BY <2>2, <1>3, <1>10
    <3>2. low'[calls'[i].block] = low[Caller(i)] /\ index'[calls'[i].block] = index[Caller(i)] /\ low[Caller(i)] <= index[Caller(i)]
      BY <3>1, <1>8, <1>s, <1>5 DEF LowInv
    <3>3. CASE e[2] = v
      BY <3>1, <3>2, <3>3, <1>9
    <3>4. CASE e[2] # v /\ e[1] = v
      <4>1. i + 1 \in 1..(n + 1)
        BY <3>1, <1>3
      <4>2. index'[calls'[i + 1].block] <= counter
        <5>1. CASE i + 1 = n + 1
          BY <5>1, <1>9, <1>10
        <5>2. CASE i + 1 # n + 1
          <6>1. i + 1 \in 1..n
            BY <5>2, <4>1, <1>3
          <6> QED BY <6>1, <1>8, <1>9, <1>10
        <5> QED BY <5>1, <5>2
      <4>3. index'[calls'[i + 1].block] \in Int
        <5>1. CASE i + 1 = n + 1
          BY <5>1, <1>9, <1>10, <1>f
        <5>2. CASE i + 1 # n + 1
          <6>1. i + 1 \in 1..n
            BY <5>2, <4>1, <1>3
          <6> QED BY <6>1, <1>8, <1>9, <1>10
        <5> QED BY <5>1, <5>2
      <4> QED BY <3>1, <3>4, <4>2, <4>3, <2>s, <2>2, <1>9, <1>f
    <3>5. CASE e[2] # v /\ e[1] # v
      <4>1. OnStack(e[1]) /\ OnStack(e[2]) /\ index'[e[1]] = index[e[1]] /\ index'[e[2]] = index[e[2]]
        BY <3>5, <2>e, <1>8, <1>13
      <4>2. CASE e[1] = calls'[i].block /\ e[2] \notin calls'[i].left
        <5>1. e[2] \notin calls[i].left /\ e[1] = Caller(i)
          BY <3>1, <3>5, <4>2 DEF n
        <5> QED BY <5>1, <4>1, <3>1, <3>2, <1>5, <1>s DEF BoundInv, Seen
      <4>3. CASE index'[calls'[i].block] < index'[e[1]] /\ (i # n + 1 => index'[e[1]] < index'[calls'[i + 1].block])
        <5>1. i # n => i + 1 \in 1..n
          BY <3>1, <1>3
        <5>2. i # n => index'[calls'[i + 1].block] = index[Caller(i + 1)]
          BY <5>1, <1>8, <1>10
        <5>3. Seen(i, e[1], e[2])
          BY <5>2, <4>1, <4>3, <3>2, <2>2 DEF Seen, n
        <5> QED BY <5>3, <4>1, <3>1, <3>2, <1>5, <1>s DEF BoundInv
      <4> QED BY <4>2, <4>3, <2>s
    <3> QED BY <3>3, <3>4, <3>5
  <2> QED BY <2>1, <2>2
<1>20. ResultInv'
  <2>1. Closed(Emitted)' = Closed(Emitted)
    BY <1>e, <1>12 DEF Closed
  <2> QED BY <2>1, <1>e, <1>11, <1>s DEF ResultInv
<1> QED BY <1>4, <1>14, <1>15, <1>16, <1>17, <1>18, <1>19, <1>20 DEF TarjanInv

(* What every step finds: the open calls and the stack in order.           *)
LEMMA OrderFacts ==
  ASSUME TarjanInv
  PROVE  /\ DOMAIN calls = 1..Len(calls) /\ DOMAIN stack = 1..Len(stack)
         /\ Len(calls) \in Nat /\ Len(stack) \in Nat /\ counter \in Nat
         /\ \A v \in Blocks : index[v] \in Int /\ low[v] \in Int
         /\ ToSet(stack) \subseteq Blocks
         /\ \A i \in 1..Len(calls) : Caller(i) \in Blocks /\ Caller(i) \in ToSet(stack)
         /\ \A i, j \in 1..Len(calls) : i < j => index[Caller(i)] < index[Caller(j)]
         /\ \A i, j \in 1..Len(calls) : Caller(i) = Caller(j) => i = j
<1>1. /\ stack \in Seq(Blocks) /\ calls \in Seq(Call) /\ CallInv /\ counter \in Nat
      /\ index \in [Blocks -> Nat \cup {-1}] /\ low \in [Blocks -> Nat \cup {-1}]
  BY DEF TarjanInv, Shape
<1>2. /\ DOMAIN calls = 1..Len(calls) /\ DOMAIN stack = 1..Len(stack)
      /\ Len(calls) \in Nat /\ Len(stack) \in Nat
  BY <1>1, LenProperties
<1>3. \A v \in Blocks : index[v] \in Int /\ low[v] \in Int
  BY <1>1
<1>4. ToSet(stack) \subseteq Blocks
  BY <1>1, <1>2, ElementOfSeq DEF ToSet
<1>5. \A i \in 1..Len(calls) : Caller(i) \in Blocks /\ Caller(i) \in ToSet(stack)
  BY <1>1, <1>2, <1>4 DEF CallInv, OnStack
<1>6. \A i, j \in 1..Len(calls) : i < j => index[Caller(i)] < index[Caller(j)]
  BY <1>1, <1>2 DEF CallInv
<1>7. \A i, j \in 1..Len(calls) : Caller(i) = Caller(j) => i = j
  <2> SUFFICES ASSUME NEW i \in 1..Len(calls), NEW j \in 1..Len(calls), Caller(i) = Caller(j), i # j
               PROVE  FALSE
    OBVIOUS
  <2>1. i < j \/ j < i
    BY <1>2
  <2> QED BY <2>1, <1>3, <1>5, <1>6
<1> QED BY <1>1, <1>2, <1>3, <1>4, <1>5, <1>6, <1>7

(* A successor that has been visited: it may lower the low of the          *)
(* innermost call, which then leads to it.                                 *)
LEMMA BackOrCrossStep ==
  ASSUME TarjanInv, NEW d \in Blocks, BackOrCross(d)
  PROVE  TarjanInv'
<1> DEFINE n == Len(calls)
           v == Caller(n)
<1>s. Shape /\ IndexInv /\ StackInv /\ CallInv /\ PathInv /\ LowInv /\ BoundInv /\ ResultInv
  BY DEF TarjanInv
<1>e. /\ calls # <<>> /\ d \in Last(calls).left /\ index[d] # -1
      /\ low' = [low EXCEPT ![Last(calls).block] = IF OnStack(d) THEN Lower(@, index[d]) ELSE @]
      /\ calls' = WithoutWay(d)
      /\ edges' = edges /\ index' = index /\ counter' = counter /\ stack' = stack /\ result' = result
  BY DEF BackOrCross, Unvisited
<1>f. /\ edges \subseteq Blocks \X Blocks /\ counter \in Nat
      /\ index \in [Blocks -> Nat \cup {-1}] /\ low \in [Blocks -> Nat \cup {-1}]
      /\ stack \in Seq(Blocks) /\ calls \in Seq(Call) /\ result \in Seq(SUBSET Blocks)
  BY <1>s DEF Shape
<1>o. /\ DOMAIN calls = 1..n /\ n \in Nat
      /\ \A u \in Blocks : index[u] \in Int /\ low[u] \in Int
      /\ ToSet(stack) \subseteq Blocks
      /\ \A i \in 1..n : Caller(i) \in Blocks /\ Caller(i) \in ToSet(stack)
      /\ \A i, j \in 1..n : Caller(i) = Caller(j) => i = j
  BY OrderFacts
<1>1. n \in 1..n /\ Last(calls) = calls[n] /\ Last(calls).block = v /\ d \in calls[n].left
  BY <1>e, <1>s, CallsFacts DEF Caller
<1>2. /\ calls' \in Seq(Call) /\ Len(calls') = n /\ DOMAIN calls' = 1..n
      /\ \A i \in 1..n : calls'[i].block = Caller(i)
      /\ \A i \in 1..n : calls'[i].left = IF i = n THEN calls[i].left \ {d} ELSE calls[i].left
  <2>1. WithoutWay(d) \in Seq(Call) /\ Len(WithoutWay(d)) = n
    BY <1>e, <1>s, WithoutWayFacts
  <2>2. \A i \in 1..n : WithoutWay(d)[i].block = calls[i].block
    BY <1>e, <1>s, WithoutWayFacts
  <2>3. \A i \in 1..n : WithoutWay(d)[i].left = IF i = n THEN calls[i].left \ {d} ELSE calls[i].left
    BY <1>e, <1>s, WithoutWayFacts
  <2> HIDE DEF n
  <2> QED BY <2>1, <2>2, <2>3, <1>e, LenProperties DEF Caller
<1> HIDE DEF n, v
<1>3. v \in Blocks /\ v = Caller(n) /\ v \in ToSet(stack) /\ d \in Successors(v)
  BY <1>1, <1>o, <1>s DEF v, CallInv
<1>4. /\ \A u \in Blocks : u # v => low'[u] = low[u]
      /\ low'[v] = (IF OnStack(d) /\ index[d] < low[v] THEN index[d] ELSE low[v])
      /\ low' \in [Blocks -> Nat \cup {-1}]
      /\ low'[v] <= low[v]
  <2>1. low'[v] = IF OnStack(d) THEN Lower(low[v], index[d]) ELSE low[v]
    BY <1>e, <1>f, <1>1, <1>3
  <2>2. low' = [low EXCEPT ![v] = low'[v]]
    BY <1>e, <1>f, <1>1, <1>3
  <2>3. index[d] \in Nat \cup {-1} /\ low[v] \in Nat \cup {-1}
    BY <1>f, <1>3
  <2>4. low'[v] = (IF OnStack(d) /\ index[d] < low[v] THEN index[d] ELSE low[v])
    BY <2>1, <2>3, <1>o DEF Lower
  <2>5. low'[v] \in Nat \cup {-1} /\ low'[v] <= low[v]
    BY <2>3, <2>4
  <2>6. low' \in [Blocks -> Nat \cup {-1}] /\ \A u \in Blocks : u # v => low'[u] = low[u]
    BY <2>2, <2>5, <1>f
  <2> QED BY <2>4, <2>5, <2>6
<1>5. /\ \A b : From(b)' = From(b) /\ Component(b)' = Component(b)
      /\ \A S : Closed(S)' = Closed(S)
      /\ \A b : Successors(b)' = Successors(b)
  BY <1>e, FromSame
<1>6. Emitted' = Emitted
  BY <1>e DEF Emitted
<1>7. Shape'
  BY <1>e, <1>f, <1>2, <1>4 DEF Shape
<1>8. IndexInv'
  BY <1>e, <1>s DEF IndexInv, Visited
<1>9. StackInv'
  BY <1>e, <1>s, <1>6 DEF StackInv, Visited, OnStack
<1>10. CallInv'
  <2>1. \A i, j \in DOMAIN calls' : i < j => index'[calls'[i].block] < index'[calls'[j].block]
    BY <1>e, <1>s, <1>2, <1>o DEF CallInv
  <2>2. \A i \in DOMAIN calls' : /\ calls'[i].block \in ToSet(stack')
                                 /\ calls'[i].left \subseteq Successors(calls'[i].block)
    <3> SUFFICES ASSUME NEW i \in 1..n
                 PROVE  Caller(i) \in ToSet(stack) /\ calls'[i].left \subseteq Successors(Caller(i))
      BY <1>e, <1>2
    <3>1. calls[i].left \subseteq Successors(Caller(i))
      BY <1>o, <1>s DEF CallInv
    <3> QED BY <3>1, <1>2, <1>o
  <2>3. \A i \in DOMAIN calls' : \A w \in Successors(calls'[i].block) \ calls'[i].left : index'[w] # -1
    <3> SUFFICES ASSUME NEW i \in 1..n, NEW w \in Successors(Caller(i)), w \notin calls'[i].left
                 PROVE  index[w] # -1
      BY <1>2, <1>e
    <3>1. w \notin calls[i].left \/ w = d
      BY <1>2
    <3> QED BY <3>1, <1>e, <1>o, <1>s DEF CallInv, Visited
  <2>4. \A u \in Blocks : index'[u] # -1 /\ ~Open(u)' => \A w \in Successors(u) : index'[w] # -1
    <3> SUFFICES ASSUME NEW u \in Blocks, index[u] # -1, ~Open(u)', NEW w \in Successors(u)
                 PROVE  index[w] # -1
      BY <1>e
    <3>1. ~Open(u)
      BY <1>2, <1>o DEF Open, Caller
    <3> QED BY <3>1, <1>s DEF CallInv, Visited
  <2> QED BY <2>1, <2>2, <2>3, <2>4, <1>5 DEF CallInv, Caller, OnStack, Visited
<1>11. PathInv'
  <2>1. \A u, w \in ToSet(stack') : index'[u] <= index'[w] => w \in From(u)
    BY <1>e, <1>s DEF PathInv
  <2>2. \A u \in ToSet(stack') : \E i \in DOMAIN calls' :
          index'[calls'[i].block] <= index'[u] /\ calls'[i].block \in From(u)
    <3> SUFFICES ASSUME NEW u \in ToSet(stack)
                 PROVE  \E i \in 1..n : index[calls'[i].block] <= index[u] /\ calls'[i].block \in From(u)
      BY <1>e, <1>2
    <3>1. PICK i \in 1..n : index[Caller(i)] <= index[u] /\ Caller(i) \in From(u)
      BY <1>o, <1>s DEF PathInv
    <3> QED BY <3>1, <1>2
  <2> QED BY <2>1, <2>2, <1>5 DEF PathInv, Caller
<1>12. LowInv'
  <2> SUFFICES ASSUME NEW i \in 1..n
               PROVE  /\ low'[Caller(i)] <= index[Caller(i)]
                      /\ \E w \in ToSet(stack) : index[w] = low'[Caller(i)] /\ w \in From(Caller(i))
    BY <1>e, <1>2, <1>5 DEF LowInv, Caller
  <2>1. /\ low[Caller(i)] <= index[Caller(i)]
        /\ \E w \in ToSet(stack) : index[w] = low[Caller(i)] /\ w \in From(Caller(i))
    BY <1>o, <1>s DEF LowInv
  <2>2. CASE Caller(i) # v \/ low'[v] = low[v]
    BY <2>1, <2>2, <1>4, <1>o
  <2>3. CASE Caller(i) = v /\ low'[v] # low[v]
    <3>1. OnStack(d) /\ low'[v] = index[d] /\ low'[v] <= low[v]
      BY <2>3, <1>4
    <3>2. d \in From(v)
      BY <1>3, <1>f, FromFacts
    <3>3. low'[v] <= index[v]
      <4>1. low'[v] \in Int
        BY <3>1, <1>o
      <4> QED BY <4>1, <3>1, <2>1, <2>3, <1>o, <1>3
    <3> QED BY <2>3, <3>1, <3>2, <3>3 DEF OnStack
  <2> QED BY <2>2, <2>3
<1>13. BoundInv'
  <2> SUFFICES ASSUME NEW i \in 1..n, NEW e \in edges,
                      e[1] \in ToSet(stack), e[2] \in ToSet(stack),
                      \/ e[1] = Caller(i) /\ e[2] \notin calls'[i].left
                      \/ index[Caller(i)] < index[e[1]] /\ (i # n => index[e[1]] < index[calls'[i + 1].block])
               PROVE  low'[Caller(i)] <= index[e[2]]
    BY <1>e, <1>2 DEF BoundInv, Seen, Caller, OnStack
  <2>1. low'[Caller(i)] <= low[Caller(i)] /\ low'[Caller(i)] \in Int /\ low[Caller(i)] \in Int /\ index[e[2]] \in Int
    BY <1>4, <1>o
  <2>2. CASE Seen(i, e[1], e[2])
    <3>1. low[Caller(i)] <= index[e[2]]
      BY <2>2, <1>o, <1>s DEF BoundInv, OnStack
    <3> QED BY <3>1, <2>1
  <2>3. CASE ~Seen(i, e[1], e[2])
    <3>1. i # n => i + 1 \in 1..n
      BY <1>o
    <3>2. i = n /\ e[2] = d
      BY <2>3, <3>1, <1>2 DEF Seen, n
    <3>3. low'[v] <= index[d]
      BY <3>2, <2>1, <1>4, <1>o, <1>3 DEF OnStack
    <3> QED BY <3>2, <3>3, <1>3
  <2> QED BY <2>2, <2>3
<1>14. ResultInv'
  <2>1. Closed(Emitted)' = Closed(Emitted)
    BY <1>e, <1>6 DEF Closed
  <2> QED BY <2>1, <1>e, <1>5, <1>s DEF ResultInv
<1> QED BY <1>7, <1>8, <1>9, <1>10, <1>11, <1>12, <1>13, <1>14 DEF TarjanInv

(* What popping down to v leaves and what it emits.                        *)
LEMMA PopFacts ==
  ASSUME TarjanInv, NEW v \in ToSet(stack), Pop(v)
  PROVE  /\ stack' \in Seq(Blocks)
         /\ ToSet(stack') = {u \in ToSet(stack) : index[u] < index[v]}
         /\ \A i, j \in DOMAIN stack' : i < j => index[stack'[i]] < index[stack'[j]]
         /\ result' = Append(result, {u \in ToSet(stack) : index[v] <= index[u]})
<1> DEFINE k == Len(stack)
           at == CHOOSE i \in DOMAIN stack : stack[i] = v
<1>o. /\ DOMAIN stack = 1..k /\ k \in Nat /\ ToSet(stack) \subseteq Blocks
      /\ \A u \in Blocks : index[u] \in Int
  BY OrderFacts
<1>1. stack' = SubSeq(stack, 1, at - 1) /\ result' = Append(result, {stack[i] : i \in at..k})
  BY DEF Pop
<1>2. at \in 1..k /\ stack[at] = v
  <2>1. \E i \in DOMAIN stack : stack[i] = v
    BY DEF ToSet
  <2> QED BY <2>1, <1>o
<1>3. /\ \A i \in 1..k : stack[i] \in ToSet(stack) /\ stack[i] \in Blocks
      /\ \A u \in ToSet(stack) : \E i \in 1..k : u = stack[i]
  BY <1>o DEF ToSet
<1>4. \A i, j \in 1..k : i < j => index[stack[i]] < index[stack[j]]
  BY <1>o DEF TarjanInv, StackInv
<1> HIDE DEF k, at
<1>5. /\ stack' \in Seq(Blocks) /\ DOMAIN stack' = 1..(at - 1)
      /\ \A i \in 1..(at - 1) : stack'[i] = stack[i] /\ i \in 1..k
  <2> DEFINE m == at - 1
  <2>1. m \in Nat /\ 1 \in Int /\ m \in Int /\ \A i \in 1..m : stack[i] \in Blocks /\ i \in 1..k
    BY <1>o, <1>2, <1>3
  <2> HIDE DEF m
  <2>2. /\ SubSeq(stack, 1, m) \in Seq(Blocks)
        /\ Len(SubSeq(stack, 1, m)) = IF 1 <= m THEN m - 1 + 1 ELSE 0
        /\ \A i \in 1..(m - 1 + 1) : SubSeq(stack, 1, m)[i] = stack[1 + i - 1]
    BY <2>1, SubSeqProperties
  <2>3. Len(SubSeq(stack, 1, m)) = m /\ \A i \in 1..m : SubSeq(stack, 1, m)[i] = stack[i]
    BY <2>1, <2>2
  <2>4. stack' = SubSeq(stack, 1, m)
    BY <1>1 DEF m
  <2>5. stack' \in Seq(Blocks) /\ DOMAIN stack' = 1..m
    BY <2>2, <2>3, <2>4, LenProperties
  <2>6. \A i \in 1..m : stack'[i] = stack[i] /\ i \in 1..k
    BY <2>1, <2>3, <2>4
  <2> QED BY <2>5, <2>6 DEF m
<1>6. /\ \A i \in 1..(at - 1) : index[stack[i]] < index[v]
      /\ \A i \in at..k : i \in 1..k /\ index[v] <= index[stack[i]]
  <2>1. \A i \in 1..(at - 1) : index[stack[i]] < index[v]
    BY <1>2, <1>4, <1>o
  <2>2. \A i \in at..k : i \in 1..k /\ (i = at \/ at < i)
    BY <1>2, <1>o
  <2>3. index[v] \in Int /\ index[v] <= index[v]
    BY <1>2, <1>3, <1>o
  <2>4. \A i \in at..k : index[v] <= index[stack[i]]
    BY <2>2, <2>3, <1>2, <1>3, <1>4, <1>o
  <2> QED BY <2>1, <2>2, <2>4
<1>7. ToSet(stack') = {stack[i] : i \in 1..(at - 1)}
  BY <1>5 DEF ToSet
<1>8. \A i \in 1..k : i \in 1..(at - 1) \/ i \in at..k
  BY <1>2, <1>o
<1>9. index[v] \in Int /\ \A i \in 1..k : index[stack[i]] \in Int
  BY <1>2, <1>3, <1>o
<1>10. ToSet(stack') = {u \in ToSet(stack) : index[u] < index[v]}
  <2>1. ASSUME NEW u \in ToSet(stack') PROVE u \in ToSet(stack) /\ index[u] < index[v]
    BY <2>1, <1>3, <1>5, <1>6, <1>7
  <2>2. ASSUME NEW u \in ToSet(stack), index[u] < index[v] PROVE u \in ToSet(stack')
    <3>1. PICK i \in 1..k : u = stack[i]
      BY <1>3
    <3>2. i \notin at..k
      BY <2>2, <3>1, <1>6, <1>9
    <3> QED BY <3>1, <3>2, <1>7, <1>8
  <2> QED BY <2>1, <2>2
<1>11. {stack[i] : i \in at..k} = {u \in ToSet(stack) : index[v] <= index[u]}
  <2>1. ASSUME NEW i \in at..k PROVE stack[i] \in ToSet(stack) /\ index[v] <= index[stack[i]]
    BY <1>3, <1>6
  <2>2. ASSUME NEW u \in ToSet(stack), index[v] <= index[u] PROVE \E i \in at..k : u = stack[i]
    <3>1. PICK i \in 1..k : u = stack[i]
      BY <1>3
    <3>2. i \notin 1..(at - 1)
      BY <2>2, <3>1, <1>6, <1>9
    <3> QED BY <3>1, <3>2, <1>8
  <2> QED BY <2>1, <2>2
<1>12. \A i, j \in DOMAIN stack' : i < j => index[stack'[i]] < index[stack'[j]]
  BY <1>4, <1>5
<1>13. result' = Append(result, {u \in ToSet(stack) : index[v] <= index[u]})
  BY <1>1, <1>11
<1> QED BY <1>5, <1>10, <1>12, <1>13

(* What the end of a call leaves of the calls, and of low.                 *)
LEMMA ReturnFacts ==
  ASSUME TarjanInv, Return
  PROVE  /\ Len(calls) \in 1..Len(calls)
         /\ calls' \in Seq(Call) /\ DOMAIN calls' = 1..(Len(calls) - 1) /\ Len(calls') = Len(calls) - 1
         /\ \A i \in 1..(Len(calls) - 1) : calls'[i] = calls[i] /\ i \in 1..Len(calls)
         /\ \A w \in Successors(Caller(Len(calls))) : Visited(w) /\ w \notin calls[Len(calls)].left
         /\ low' \in [Blocks -> Nat \cup {-1}]
         /\ \A u \in Blocks : Len(calls) = 1 \/ u # Caller(Len(calls) - 1) => low'[u] = low[u]
         /\ Len(calls) # 1 => low'[Caller(Len(calls) - 1)] = Lower(low[Caller(Len(calls) - 1)], low[Caller(Len(calls))])
         /\ IF low[Caller(Len(calls))] = index[Caller(Len(calls))] THEN Pop(Caller(Len(calls)))
                                                                   ELSE stack' = stack /\ result' = result
         /\ edges' = edges /\ index' = index /\ counter' = counter
<1> DEFINE n == Len(calls)
           v == Caller(n)
<1>s. Shape /\ CallInv /\ calls # <<>>
  BY DEF TarjanInv, Return
<1>f. /\ calls \in Seq(Call) /\ low \in [Blocks -> Nat \cup {-1}]
  BY <1>s DEF Shape
<1>o. /\ DOMAIN calls = 1..n /\ n \in Nat
      /\ \A i \in 1..n : Caller(i) \in Blocks
  BY OrderFacts
<1>1. /\ n \in Nat \ {0} /\ Last(calls) = calls[n]
      /\ Front(calls) \in Seq(Call) /\ Len(Front(calls)) = n - 1
      /\ \A i \in 1..(n - 1) : Front(calls)[i] = calls[i]
  BY <1>s, CallsFacts
<1>e. /\ calls[n].left = {} /\ calls' = Front(calls)
      /\ low' = IF n = 1 THEN low
                ELSE [low EXCEPT ![Last(Front(calls)).block] = Lower(@, low[v])]
      /\ IF low[v] = index[v] THEN Pop(v) ELSE stack' = stack /\ result' = result
      /\ edges' = edges /\ index' = index /\ counter' = counter
  BY <1>1 DEF Return, Caller
<1> HIDE DEF n, v
<1>2. n \in 1..n /\ \A i \in 1..(n - 1) : i \in 1..n
  BY <1>1
<1>3. /\ calls' \in Seq(Call) /\ DOMAIN calls' = 1..(n - 1) /\ Len(calls') = n - 1
      /\ \A i \in 1..(n - 1) : calls'[i] = calls[i] /\ i \in 1..n
  BY <1>1, <1>2, <1>e, LenProperties
<1>4. \A w \in Successors(v) : Visited(w) /\ w \notin calls[n].left
  BY <1>2, <1>e, <1>o, <1>s DEF CallInv, v
<1>5. n # 1 => /\ n - 1 \in 1..n /\ n - 1 \in 1..(n - 1)
               /\ Last(Front(calls)).block = Caller(n - 1)
  <2> SUFFICES ASSUME n # 1 
               PROVE  n - 1 \in 1..n /\ n - 1 \in 1..(n - 1) /\ Last(Front(calls)).block = Caller(n - 1)
    OBVIOUS
  <2>1. n - 1 \in 1..n /\ n - 1 \in 1..(n - 1)
    BY <1>1
  <2>2. Last(Front(calls)) = Front(calls)[n - 1]
    BY <1>1 DEF Last
  <2> QED BY <2>1, <2>2, <1>1 DEF Caller
<1>6. v \in Blocks
  BY <1>2, <1>o DEF v
<1>7. \A a, b \in Nat \cup {-1} : Lower(a, b) \in Nat \cup {-1}
  BY DEF Lower
<1>8. n # 1 => low' = [low EXCEPT ![Caller(n - 1)] = Lower(low[Caller(n - 1)], low[v])]
  BY <1>5, <1>e
<1>9. n # 1 => Caller(n - 1) \in Blocks /\ Lower(low[Caller(n - 1)], low[v]) \in Nat \cup {-1}
  BY <1>5, <1>6, <1>7, <1>f, <1>o
<1>10. /\ low' \in [Blocks -> Nat \cup {-1}]
       /\ \A u \in Blocks : n = 1 \/ u # Caller(n - 1) => low'[u] = low[u]
       /\ n # 1 => low'[Caller(n - 1)] = Lower(low[Caller(n - 1)], low[v])
  <2>1. CASE n = 1
    BY <2>1, <1>e, <1>f
  <2>2. CASE n # 1
    BY <2>2, <1>8, <1>9, <1>f
  <2> QED BY <2>1, <2>2
<1> QED BY <1>2, <1>3, <1>4, <1>10, <1>e DEF n, v

(* The end of a call whose block can still get to an older one: its caller *)
(* takes over what it found.                                               *)
LEMMA ReturnStays ==
  ASSUME TarjanInv, Return, low[Caller(Len(calls))] # index[Caller(Len(calls))]
  PROVE  TarjanInv'
<1> DEFINE n == Len(calls)
           v == Caller(n)
<1>s. Shape /\ IndexInv /\ StackInv /\ CallInv /\ PathInv /\ LowInv /\ BoundInv /\ ResultInv
  BY DEF TarjanInv
<1>o. /\ DOMAIN calls = 1..n /\ n \in Nat
      /\ \A u \in Blocks : index[u] \in Int /\ low[u] \in Int
      /\ ToSet(stack) \subseteq Blocks
      /\ \A i \in 1..n : Caller(i) \in Blocks /\ Caller(i) \in ToSet(stack)
      /\ \A i, j \in 1..n : i < j => index[Caller(i)] < index[Caller(j)]
      /\ \A i, j \in 1..n : Caller(i) = Caller(j) => i = j
  BY OrderFacts
<1>f. /\ edges \subseteq Blocks \X Blocks
      /\ index \in [Blocks -> Nat \cup {-1}] /\ low \in [Blocks -> Nat \cup {-1}]
  BY <1>s DEF Shape
<1>r. /\ n \in 1..n
      /\ calls' \in Seq(Call) /\ DOMAIN calls' = 1..(n - 1) /\ Len(calls') = n - 1
      /\ \A i \in 1..(n - 1) : calls'[i] = calls[i] /\ i \in 1..n
      /\ \A w \in Successors(v) : Visited(w) /\ w \notin calls[n].left
      /\ low' \in [Blocks -> Nat \cup {-1}]
      /\ \A u \in Blocks : n = 1 \/ u # Caller(n - 1) => low'[u] = low[u]
      /\ n # 1 => low'[Caller(n - 1)] = Lower(low[Caller(n - 1)], low[v])
      /\ edges' = edges /\ index' = index /\ counter' = counter
  BY ReturnFacts
<1>e. stack' = stack /\ result' = result
  BY ReturnFacts
<1> HIDE DEF n
<1>c. \A i \in 1..(n - 1) : calls'[i].block = Caller(i)
  BY <1>r DEF Caller
<1>1. /\ \A b : From(b)' = From(b) /\ Component(b)' = Component(b)
      /\ \A S : Closed(S)' = Closed(S)
      /\ \A b : Successors(b)' = Successors(b)
  BY <1>r, FromSame
<1>2. Emitted' = Emitted
  BY <1>e DEF Emitted
<1>3. /\ v \in Blocks /\ v \in ToSet(stack) /\ low[v] <= index[v]
      /\ \E w \in ToSet(stack) : index[w] = low[v] /\ w \in From(v)
  BY <1>o, <1>r, <1>s DEF LowInv
<1>4. PICK old \in ToSet(stack) : index[old] = low[v] /\ old \in From(v)
  BY <1>3
<1>5. old \in Blocks /\ index[old] < index[v]
  <2>1. index[old] # index[v] /\ index[old] <= index[v]
    BY <1>3, <1>4 DEF n
  <2> QED BY <2>1, <1>3, <1>4, <1>o
<1> HIDE DEF v
<1>6. \A u \in ToSet(stack) : \E i \in 1..(n - 1) : index[Caller(i)] <= index[u] /\ Caller(i) \in From(u)
  <2> SUFFICES ASSUME NEW u \in ToSet(stack)
               PROVE  \E i \in 1..(n - 1) : index[Caller(i)] <= index[u] /\ Caller(i) \in From(u)
    OBVIOUS
  <2>1. PICK i \in 1..n : index[Caller(i)] <= index[u] /\ Caller(i) \in From(u)
    BY <1>o, <1>s DEF PathInv
  <2>2. PICK j \in 1..n : index[Caller(j)] <= index[old] /\ Caller(j) \in From(old)
    BY <1>o, <1>s DEF PathInv
  <2>3. j # n /\ index[Caller(j)] < index[v]
    BY <2>2, <1>5, <1>o, <1>3 DEF v
  <2>4. CASE i # n
    BY <2>1, <2>4, <1>o
  <2>5. CASE i = n
    <3>1. v \in From(u) /\ index[v] <= index[u]
      BY <2>1, <2>5 DEF v
    <3>2. u \in Blocks /\ Caller(j) \in Blocks
      BY <1>o
    <3>3. old \in From(u)
      BY <3>1, <3>2, <1>3, <1>4, <1>f, FromFacts
    <3>4. Caller(j) \in From(u)
      BY <3>2, <3>3, <2>2, <1>5, <1>f, FromFacts
    <3>5. index[Caller(j)] <= index[u]
      BY <3>1, <3>2, <2>3, <1>o, <1>3
    <3> QED BY <3>4, <3>5, <2>3, <1>o
  <2> QED BY <2>4, <2>5
<1>7. n # 1 /\ n - 1 \in 1..n /\ n - 1 \in 1..(n - 1)
  <2>1. \E i \in 1..(n - 1) : TRUE
    BY <1>3, <1>6
  <2> QED BY <2>1, <1>o
<1> DEFINE p == Caller(n - 1)
<1>8. /\ p \in Blocks /\ p \in ToSet(stack) /\ index[p] < index[v]
      /\ low[p] \in Int /\ low[v] \in Int
  BY <1>7, <1>o, <1>r DEF v
<1>9. /\ \A i \in 1..(n - 1) : i # n - 1 => low'[Caller(i)] = low[Caller(i)] /\ i + 1 \in 1..(n - 1) /\ i # n
      /\ low'[p] = (IF low[p] < low[v] THEN low[p] ELSE low[v])
      /\ low'[p] <= low[p] /\ low'[p] <= low[v]
  <2>1. \A i \in 1..(n - 1) : i # n - 1 => i + 1 \in 1..(n - 1) /\ i # n /\ i \in 1..n
    BY <1>o
  <2>2. \A i \in 1..(n - 1) : i # n - 1 => low'[Caller(i)] = low[Caller(i)]
    BY <2>1, <1>o, <1>r, <1>7
  <2>3. low'[p] = (IF low[p] < low[v] THEN low[p] ELSE low[v])
    BY <1>r, <1>7 DEF Lower
  <2>4. low'[p] <= low[p] /\ low'[p] <= low[v]
    BY <2>3, <1>8
  <2> QED BY <2>1, <2>2, <2>3, <2>4
<1> HIDE DEF p
<1>10. Shape'
  BY <1>e, <1>r, <1>s DEF Shape
<1>11. IndexInv'
  BY <1>r, <1>s DEF IndexInv, Visited
<1>12. StackInv'
  BY <1>e, <1>r, <1>s, <1>2 DEF StackInv, Visited, OnStack
<1>13. CallInv'
  <2>1. \A i, j \in DOMAIN calls' : i < j => index'[calls'[i].block] < index'[calls'[j].block]
    BY <1>r, <1>c, <1>o
  <2>2. \A i \in DOMAIN calls' : /\ calls'[i].block \in ToSet(stack')
                                 /\ calls'[i].left \subseteq Successors(calls'[i].block)
    <3> SUFFICES ASSUME NEW i \in 1..(n - 1)
                 PROVE  Caller(i) \in ToSet(stack) /\ calls[i].left \subseteq Successors(Caller(i))
      BY <1>e, <1>r, <1>c
    <3> QED BY <1>o, <1>r, <1>s DEF CallInv
  <2>3. \A i \in DOMAIN calls' : \A w \in Successors(calls'[i].block) \ calls'[i].left : index'[w] # -1
    <3> SUFFICES ASSUME NEW i \in 1..(n - 1), NEW w \in Successors(Caller(i)) \ calls[i].left
                 PROVE  index[w] # -1
      BY <1>r, <1>c
    <3> QED BY <1>o, <1>r, <1>s DEF CallInv, Visited
  <2>4. \A u \in Blocks : index'[u] # -1 /\ ~Open(u)' => \A w \in Successors(u) : index'[w] # -1
    <3> SUFFICES ASSUME NEW u \in Blocks, index[u] # -1, ~Open(u)', NEW w \in Successors(u)
                 PROVE  index[w] # -1
      BY <1>r
    <3>1. CASE u = v
      BY <3>1, <1>r DEF v, Visited
    <3>2. CASE u # v
      <4>1. ~Open(u)
        <5> SUFFICES ASSUME NEW i \in 1..n, Caller(i) = u PROVE FALSE
          BY <1>o DEF Open
        <5>1. i \in 1..(n - 1)
          BY <3>2, <1>o DEF v
        <5> QED BY <5>1, <1>r, <1>c DEF Open, Caller
      <4> QED BY <4>1, <1>s DEF CallInv, Visited
    <3> QED BY <3>1, <3>2
  <2> QED BY <2>1, <2>2, <2>3, <2>4, <1>1 DEF CallInv, Caller, OnStack, Visited
<1>14. PathInv'
  <2>1. \A u, w \in ToSet(stack') : index'[u] <= index'[w] => w \in From(u)
    BY <1>e, <1>r, <1>s DEF PathInv
  <2>2. \A u \in ToSet(stack') : \E i \in DOMAIN calls' :
          index'[calls'[i].block] <= index'[u] /\ calls'[i].block \in From(u)
    <3> SUFFICES ASSUME NEW u \in ToSet(stack)
                 PROVE  \E i \in 1..(n - 1) : index[calls'[i].block] <= index[u] /\ calls'[i].block \in From(u)
      BY <1>e, <1>r
    <3>1. PICK i \in 1..(n - 1) : index[Caller(i)] <= index[u] /\ Caller(i) \in From(u)
      BY <1>6
    <3> QED BY <3>1, <1>c
  <2> QED BY <2>1, <2>2, <1>1 DEF PathInv, Caller
<1>15. LowInv'
  <2> SUFFICES ASSUME NEW i \in 1..(n - 1)
               PROVE  /\ low'[Caller(i)] <= index[Caller(i)]
                      /\ \E w \in ToSet(stack) : index[w] = low'[Caller(i)] /\ w \in From(Caller(i))
    BY <1>e, <1>r, <1>c, <1>1 DEF LowInv, Caller
  <2>1. /\ low[Caller(i)] <= index[Caller(i)]
        /\ \E w \in ToSet(stack) : index[w] = low[Caller(i)] /\ w \in From(Caller(i))
    BY <1>r, <1>o, <1>s DEF LowInv
  <2>2. CASE i # n - 1
    BY <2>1, <2>2, <1>9
  <2>3. CASE i = n - 1
    <3>1. CASE low[p] < low[v]
      BY <2>1, <2>3, <3>1, <1>9 DEF p
    <3>2. CASE ~(low[p] < low[v])
      <4>1. low'[p] = index[old] /\ low'[p] <= index[p]
        BY <2>1, <2>3, <3>2, <1>4, <1>8, <1>9, <1>5, <1>o DEF p
      <4>2. v \in From(p)
        <5>1. index[p] <= index[v]
          BY <1>3, <1>8, <1>o
        <5> QED BY <5>1, <1>3, <1>8, <1>s DEF PathInv
      <4>3. old \in From(p)
        BY <4>2, <1>3, <1>4, <1>8, <1>f, FromFacts
      <4> QED BY <2>3, <4>1, <4>3 DEF p
    <3> QED BY <3>1, <3>2
  <2> QED BY <2>2, <2>3
<1>16. BoundInv'
  <2> SUFFICES ASSUME NEW i \in 1..(n - 1), NEW e \in edges,
                      e[1] \in ToSet(stack), e[2] \in ToSet(stack),
                      \/ e[1] = Caller(i) /\ e[2] \notin calls[i].left
                      \/ index[Caller(i)] < index[e[1]] /\ (i # n - 1 => index[e[1]] < index[calls'[i + 1].block])
               PROVE  low'[Caller(i)] <= index[e[2]]
    BY <1>e, <1>r, <1>c DEF BoundInv, Seen, Caller, OnStack
  <2>b. \A j \in 1..n : Seen(j, e[1], e[2]) => low[Caller(j)] <= index[e[2]]
    BY <1>o, <1>s DEF BoundInv, OnStack
  <2>e. e[1] \in Blocks /\ e[2] \in Successors(e[1]) /\ index[e[2]] \in Int /\ index[e[1]] \in Int
    BY <1>f, <1>o DEF Successors
  <2>1. CASE i # n - 1
    <3>1. Seen(i, e[1], e[2])
      BY <2>1, <1>c, <1>9 DEF Seen
    <3> QED BY <2>1, <2>b, <3>1, <1>r, <1>9
  <2>2. CASE i = n - 1
    <3>1. CASE e[1] = p /\ e[2] \notin calls[i].left
      <4>1. Seen(i, e[1], e[2])
        BY <2>2, <3>1 DEF Seen, p
      <4>2. low[p] <= index[e[2]]
        BY <2>2, <2>b, <4>1, <1>r DEF p
      <4> QED BY <2>2, <2>e, <4>2, <1>8, <1>9 DEF p
    <3>2. CASE index[p] < index[e[1]] /\ index[e[1]] < index[v]
      <4>1. Seen(i, e[1], e[2])
        BY <2>2, <3>2, <1>o DEF Seen, p, v
      <4>2. low[p] <= index[e[2]]
        BY <2>2, <2>b, <4>1, <1>r DEF p
      <4> QED BY <2>2, <2>e, <4>2, <1>8, <1>9 DEF p
    <3>3. CASE ~(index[e[1]] < index[v])
      <4>1. index[v] < index[e[1]] \/ index[e[1]] = index[v]
        BY <3>3, <2>e, <1>3, <1>o
      <4>2. e[1] = v \/ index[v] < index[e[1]]
        <5>1. index[v] # -1
          BY <1>3, <1>s DEF StackInv, OnStack, Visited
        <5> QED BY <4>1, <5>1, <2>e, <1>3, <1>s DEF IndexInv, Visited
      <4>3. Seen(n, e[1], e[2])
        BY <4>2, <2>e, <1>r DEF Seen, v, n
      <4>4. low[v] <= index[e[2]]
        BY <2>b, <4>3, <1>r DEF v
      <4> QED BY <2>2, <2>e, <4>4, <1>8, <1>9 DEF p
    <3> QED BY <2>2, <3>1, <3>2, <3>3 DEF p
  <2> QED BY <2>1, <2>2
<1>17. ResultInv'
  <2>1. Closed(Emitted)' = Closed(Emitted)
    BY <1>r, <1>2 DEF Closed
  <2> QED BY <2>1, <1>e, <1>1, <1>s DEF ResultInv
<1> QED BY <1>10, <1>11, <1>12, <1>13, <1>14, <1>15, <1>16, <1>17 DEF TarjanInv

(* The end of a call whose block gets to no older one: what is on the      *)
(* stack from it on is a whole component.                                  *)
LEMMA ReturnPops ==
  ASSUME TarjanInv, Return, low[Caller(Len(calls))] = index[Caller(Len(calls))]
  PROVE  TarjanInv'
<1> DEFINE n == Len(calls)
           v == Caller(n)
           Popped == {u \in ToSet(stack) : index[v] <= index[u]}
<1>s. Shape /\ IndexInv /\ StackInv /\ CallInv /\ PathInv /\ LowInv /\ BoundInv /\ ResultInv
  BY DEF TarjanInv
<1>o. /\ DOMAIN calls = 1..n /\ n \in Nat
      /\ \A u \in Blocks : index[u] \in Int /\ low[u] \in Int
      /\ ToSet(stack) \subseteq Blocks
      /\ \A i \in 1..n : Caller(i) \in Blocks /\ Caller(i) \in ToSet(stack)
      /\ \A i, j \in 1..n : i < j => index[Caller(i)] < index[Caller(j)]
      /\ \A i, j \in 1..n : Caller(i) = Caller(j) => i = j
  BY OrderFacts
<1>f. /\ edges \subseteq Blocks \X Blocks /\ result \in Seq(SUBSET Blocks)
      /\ index \in [Blocks -> Nat \cup {-1}] /\ low \in [Blocks -> Nat \cup {-1}]
  BY <1>s DEF Shape
<1>r. /\ n \in 1..n
      /\ calls' \in Seq(Call) /\ DOMAIN calls' = 1..(n - 1) /\ Len(calls') = n - 1
      /\ \A i \in 1..(n - 1) : calls'[i] = calls[i] /\ i \in 1..n
      /\ \A w \in Successors(v) : Visited(w) /\ w \notin calls[n].left
      /\ low' \in [Blocks -> Nat \cup {-1}]
      /\ \A u \in Blocks : n = 1 \/ u # Caller(n - 1) => low'[u] = low[u]
      /\ n # 1 => low'[Caller(n - 1)] = Lower(low[Caller(n - 1)], low[v])
      /\ edges' = edges /\ index' = index /\ counter' = counter
  BY ReturnFacts
<1>p. Pop(v) /\ low[v] = index[v]
  BY ReturnFacts
<1> HIDE DEF n
<1>3. v \in Blocks /\ v \in ToSet(stack)
  BY <1>o, <1>r
<1>e. /\ stack' \in Seq(Blocks)
      /\ ToSet(stack') = {u \in ToSet(stack) : index[u] < index[v]}
      /\ \A i, j \in DOMAIN stack' : i < j => index[stack'[i]] < index[stack'[j]]
      /\ result' = Append(result, Popped)
  BY <1>3, <1>p, PopFacts
<1>c. \A i \in 1..(n - 1) : /\ calls'[i].block = Caller(i)
                            /\ index[Caller(i)] < index[v] /\ Caller(i) \in ToSet(stack')
  <2>1. \A i \in 1..(n - 1) : i \in 1..n /\ i < n
    BY <1>o
  <2>2. \A i \in 1..(n - 1) : index[Caller(i)] < index[v]
    BY <2>1, <1>o, <1>r
  <2>3. \A i \in 1..(n - 1) : calls'[i].block = Caller(i) /\ Caller(i) \in ToSet(stack)
    BY <2>1, <1>o, <1>r DEF Caller
  <2> QED BY <2>2, <2>3, <1>e
<1> HIDE DEF v, Popped
<1>m. \A u \in ToSet(stack) : u \in Blocks /\ (u \in ToSet(stack') \/ u \in Popped)
  BY <1>3, <1>e, <1>o DEF Popped
<1>d. \A u : ~(u \in ToSet(stack') /\ u \in Popped) /\ (u \in Popped => u \in ToSet(stack) /\ u \in Blocks)
  BY <1>3, <1>e, <1>o DEF Popped
<1>1. /\ \A b : From(b)' = From(b) /\ Component(b)' = Component(b)
      /\ \A S : Closed(S)' = Closed(S)
      /\ \A b : Successors(b)' = Successors(b)
  BY <1>r, FromSame
<1>2. /\ result' \in Seq(SUBSET Blocks) /\ DOMAIN result = 1..Len(result) /\ DOMAIN result' = 1..(Len(result) + 1)
      /\ \A i \in 1..Len(result) : result'[i] = result[i]
      /\ result'[Len(result) + 1] = Popped /\ Len(result) \in Nat
  <2>1. Popped \in SUBSET Blocks
    BY <1>d
  <2>2. /\ result' \in Seq(SUBSET Blocks) /\ Len(result') = Len(result) + 1
        /\ \A i \in 1..Len(result) : result'[i] = result[i]
        /\ result'[Len(result) + 1] = Popped
    BY <2>1, <1>e, <1>f, AppendProperties
  <2> QED BY <2>2, <1>f, LenProperties
<1>4. ToSet(result') = ToSet(result) \cup {Popped} /\ Emitted' = Emitted \cup Popped
  <2>1. \A i \in 1..(Len(result) + 1) : i \in 1..Len(result) \/ i = Len(result) + 1
    BY <1>2
  <2>2. 1..Len(result) \subseteq 1..(Len(result) + 1) /\ Len(result) + 1 \in 1..(Len(result) + 1)
    BY <1>2
  <2>3. ToSet(result) = {result[i] : i \in 1..Len(result)} /\ ToSet(result') = {result'[i] : i \in 1..(Len(result) + 1)}
    BY <1>2 DEF ToSet
  <2>4. ToSet(result') = ToSet(result) \cup {Popped}
    BY <2>1, <2>2, <2>3, <1>2
  <2> QED BY <2>4 DEF Emitted
<1>5. \A i \in 1..(n - 1) : low'[Caller(i)] = low[Caller(i)]
  <2> SUFFICES ASSUME NEW i \in 1..(n - 1)
               PROVE  low'[Caller(i)] = low[Caller(i)]
    OBVIOUS
  <2>1. i \in 1..n /\ n # 1
    BY <1>o
  <2>2. CASE i = n - 1
    <3>1. low[Caller(i)] <= index[Caller(i)]
      BY <2>1, <1>o, <1>s DEF LowInv
    <3>2. low[Caller(i)] < low[v]
      BY <2>1, <3>1, <1>c, <1>p, <1>o, <1>3
    <3> QED BY <2>1, <2>2, <3>2, <1>r DEF Lower
  <2>3. CASE i # n - 1
    <3>1. n - 1 \in 1..n
      BY <1>o, <2>1
    <3>2. Caller(i) # Caller(n - 1)
      BY <2>1, <2>3, <3>1, <1>o
    <3> QED BY <2>1, <3>2, <1>o, <1>r
  <2> QED BY <2>2, <2>3
<1>6. \A b, c \in Popped : c \in From(b)
  <2> SUFFICES ASSUME NEW b \in Popped, NEW c \in Popped PROVE c \in From(b)
    OBVIOUS
  <2>1. b \in ToSet(stack) /\ c \in ToSet(stack) /\ b \in Blocks /\ c \in Blocks /\ index[v] <= index[c]
    BY <1>d DEF Popped
  <2>2. PICK i \in 1..n : index[Caller(i)] <= index[b] /\ Caller(i) \in From(b)
    BY <2>1, <1>o, <1>s DEF PathInv
  <2>3. index[Caller(i)] <= index[v]
    <3>1. i = n \/ i \in 1..(n - 1)
      BY <1>o
    <3> QED BY <3>1, <1>3, <1>c, <1>o DEF v
  <2>4. Caller(i) \in ToSet(stack) /\ Caller(i) \in Blocks /\ index[Caller(i)] <= index[c]
    BY <2>1, <2>3, <1>3, <1>o
  <2>5. c \in From(Caller(i))
    BY <2>1, <2>4, <1>s DEF PathInv
  <2> QED BY <2>1, <2>2, <2>4, <2>5, <1>f, FromFacts
<1>7. ASSUME NEW e \in edges, e[1] \in Popped PROVE e[2] \in Emitted \cup Popped
  <2>1. /\ e[1] \in Blocks /\ e[2] \in Blocks /\ e[2] \in Successors(e[1])
        /\ e[1] \in ToSet(stack) /\ index[v] <= index[e[1]]
    BY <1>7, <1>f, <1>d DEF Popped, Successors
  <2>2. Visited(e[1])
    BY <2>1, <1>s DEF StackInv, OnStack
  <2>3. e[1] = v \/ ~Open(e[1])
    <3> SUFFICES ASSUME NEW i \in 1..n, Caller(i) = e[1], e[1] # v PROVE FALSE
      BY <1>o DEF Open
    <3>1. i \in 1..(n - 1)
      BY <1>o DEF v
    <3> QED BY <3>1, <2>1, <1>c, <1>3, <1>o
  <2>4. Visited(e[2])
    BY <2>1, <2>2, <2>3, <1>r, <1>s DEF CallInv
  <2>5. CASE OnStack(e[2])
    <3>1. e[1] = v \/ index[v] < index[e[1]]
      <4>1. index[v] < index[e[1]] \/ index[e[1]] = index[v]
        BY <2>1, <1>3, <1>o
      <4> QED BY <4>1, <2>1, <2>2, <1>3, <1>s DEF IndexInv
    <3>2. Seen(n, e[1], e[2])
      BY <2>1, <3>1, <1>r DEF Seen, v, n
    <3>3. low[v] <= index[e[2]]
      BY <2>1, <2>5, <3>2, <1>r, <1>o, <1>s DEF BoundInv, OnStack, v
    <3> QED BY <2>5, <3>3, <1>p DEF Popped, OnStack
  <2> QED BY <2>1, <2>4, <2>5, <1>s DEF StackInv
<1>8. Closed(Emitted \cup Popped)
  BY <1>7, <1>s DEF Closed, ResultInv
<1>9. Popped \cap Emitted = {}
  BY <1>d, <1>s DEF StackInv, OnStack
<1>20. \A b \in Popped : Popped = Component(b)
  <2> SUFFICES ASSUME NEW b \in Popped PROVE Popped = Component(b)
    OBVIOUS
  <2>1. b \in Blocks
    BY <1>d
  <2>2. Popped \subseteq Component(b)
    BY <1>6 DEF Component
  <2>3. ASSUME NEW c \in Component(b) PROVE c \in Popped
    <3>1. Emitted \subseteq Blocks
      BY <1>f, <1>2, ElementOfSeq DEF Emitted, ToSet
    <3>2. From(b) \subseteq Emitted \cup Popped
      <4>1. Emitted \cup Popped \in SUBSET Blocks
        BY <3>1, <1>d
      <4> QED BY <4>1, <2>1, <1>8, <1>f, FromFacts
    <3>3. c \in From(b) /\ b \in From(c)
      BY <2>3 DEF Component
    <3>4. CASE c \in Emitted
      <4>1. From(c) \subseteq Emitted
        BY <3>1, <3>4, <1>f, <1>s, FromFacts DEF ResultInv
      <4> QED BY <3>3, <4>1, <1>9
    <3> QED BY <3>2, <3>3, <3>4
  <2> QED BY <2>2, <2>3
<1>10. Shape'
  BY <1>e, <1>r, <1>s, <1>2 DEF Shape
<1>11. IndexInv'
  BY <1>r, <1>s DEF IndexInv, Visited
<1>12. StackInv'
  <2>1. \A u \in Blocks : index[u] # -1 <=> u \in ToSet(stack') \/ u \in Emitted \cup Popped
    BY <1>e, <1>m, <1>d, <1>s DEF StackInv, OnStack, Visited
  <2>2. \A u \in Blocks : u \in ToSet(stack') => u \notin Emitted \cup Popped
    BY <1>e, <1>d, <1>s DEF StackInv, OnStack
  <2> QED BY <2>1, <2>2, <1>4, <1>e, <1>r DEF StackInv, OnStack, Visited
<1>13. CallInv'
  <2>1. \A i, j \in DOMAIN calls' : i < j => index'[calls'[i].block] < index'[calls'[j].block]
    BY <1>r, <1>c, <1>o
  <2>2. \A i \in DOMAIN calls' : /\ calls'[i].block \in ToSet(stack')
                                 /\ calls'[i].left \subseteq Successors(calls'[i].block)
    <3> SUFFICES ASSUME NEW i \in 1..(n - 1)
                 PROVE  calls[i].left \subseteq Successors(Caller(i))
      BY <1>r, <1>c
    <3> QED BY <1>o, <1>r, <1>s DEF CallInv
  <2>3. \A i \in DOMAIN calls' : \A w \in Successors(calls'[i].block) \ calls'[i].left : index'[w] # -1
    <3> SUFFICES ASSUME NEW i \in 1..(n - 1), NEW w \in Successors(Caller(i)) \ calls[i].left
                 PROVE  index[w] # -1
      BY <1>r, <1>c
    <3> QED BY <1>o, <1>r, <1>s DEF CallInv, Visited
  <2>4. \A u \in Blocks : index'[u] # -1 /\ ~Open(u)' => \A w \in Successors(u) : index'[w] # -1
    <3> SUFFICES ASSUME NEW u \in Blocks, index[u] # -1, ~Open(u)', NEW w \in Successors(u)
                 PROVE  index[w] # -1
      BY <1>r
    <3>1. CASE u = v
      BY <3>1, <1>r DEF v, Visited
    <3>2. CASE u # v
      <4>1. ~Open(u)
        <5> SUFFICES ASSUME NEW i \in 1..n, Caller(i) = u PROVE FALSE
          BY <1>o DEF Open
        <5>1. i \in 1..(n - 1)
          BY <3>2, <1>o DEF v
        <5> QED BY <5>1, <1>r, <1>c DEF Open, Caller
      <4> QED BY <4>1, <1>s DEF CallInv, Visited
    <3> QED BY <3>1, <3>2
  <2> QED BY <2>1, <2>2, <2>3, <2>4, <1>1 DEF CallInv, Caller, OnStack, Visited
<1>14. PathInv'
  <2>1. \A u, w \in ToSet(stack') : index'[u] <= index'[w] => w \in From(u)
    BY <1>e, <1>r, <1>s DEF PathInv
  <2>2. \A u \in ToSet(stack') : \E i \in DOMAIN calls' :
          index'[calls'[i].block] <= index'[u] /\ calls'[i].block \in From(u)
    <3> SUFFICES ASSUME NEW u \in ToSet(stack), index[u] < index[v]
                 PROVE  \E i \in 1..(n - 1) : index[calls'[i].block] <= index[u] /\ calls'[i].block \in From(u)
      BY <1>e, <1>r
    <3>1. PICK i \in 1..n : index[Caller(i)] <= index[u] /\ Caller(i) \in From(u)
      BY <1>o, <1>s DEF PathInv
    <3>2. i # n
      BY <3>1, <1>3, <1>o DEF v
    <3>3. i \in 1..(n - 1)
      BY <3>2, <1>o
    <3> QED BY <3>1, <3>3, <1>c
  <2> QED BY <2>1, <2>2, <1>1 DEF PathInv, Caller
<1>15. LowInv'
  <2> SUFFICES ASSUME NEW i \in 1..(n - 1)
               PROVE  /\ low[Caller(i)] <= index[Caller(i)]
                      /\ \E w \in ToSet(stack') : index[w] = low[Caller(i)] /\ w \in From(Caller(i))
    BY <1>r, <1>c, <1>1, <1>5 DEF LowInv, Caller
  <2>1. /\ low[Caller(i)] <= index[Caller(i)]
        /\ \E w \in ToSet(stack) : index[w] = low[Caller(i)] /\ w \in From(Caller(i))
    BY <1>r, <1>o, <1>s DEF LowInv
  <2>2. PICK w \in ToSet(stack) : index[w] = low[Caller(i)] /\ w \in From(Caller(i))
    BY <2>1
  <2>3. index[w] < index[v]
    BY <2>1, <2>2, <1>c, <1>3, <1>o, <1>r
  <2> QED BY <2>1, <2>2, <2>3, <1>e
<1>16. BoundInv'
  <2> SUFFICES ASSUME NEW i \in 1..(n - 1), NEW e \in edges,
                      e[1] \in ToSet(stack'), e[2] \in ToSet(stack'),
                      \/ e[1] = Caller(i) /\ e[2] \notin calls[i].left
                      \/ index[Caller(i)] < index[e[1]] /\ (i # n - 1 => index[e[1]] < index[calls'[i + 1].block])
               PROVE  low[Caller(i)] <= index[e[2]]
    BY <1>r, <1>c, <1>5 DEF BoundInv, Seen, Caller, OnStack
  <2>1. e[1] \in ToSet(stack) /\ e[2] \in ToSet(stack) /\ index[e[1]] < index[v] /\ i \in 1..n /\ i # n
    BY <1>e, <1>r, <1>o
  <2>2. CASE i # n - 1
    <3>1. i + 1 \in 1..(n - 1)
      BY <2>2, <1>o
    <3>2. Seen(i, e[1], e[2])
      BY <2>2, <3>1, <1>c DEF Seen
    <3> QED BY <2>1, <3>2, <1>o, <1>s DEF BoundInv, OnStack
  <2>3. CASE i = n - 1
    <3>1. i + 1 = n
      BY <2>3, <1>o
    <3>2. Seen(i, e[1], e[2])
      BY <2>1, <3>1 DEF Seen, v
    <3> QED BY <2>1, <3>2, <1>o, <1>s DEF BoundInv, OnStack
  <2> QED BY <2>2, <2>3
<1>17. ResultInv'
  <2>2. Closed(Emitted)'
    BY <1>4, <1>8, <1>r DEF Closed
  <2>3. \A K \in ToSet(result') : \A b \in K : K = Component(b)
    BY <1>4, <1>20, <1>s DEF ResultInv
  <2>4. \A i, j \in DOMAIN result' : i # j => result'[i] \cap result'[j] = {}
    <3> SUFFICES ASSUME NEW i \in 1..(Len(result) + 1), NEW j \in 1..(Len(result) + 1), i # j
                 PROVE  result'[i] \cap result'[j] = {}
      BY <1>2
    <3>1. \A k \in 1..Len(result) : result[k] \subseteq Emitted
      BY <1>2 DEF Emitted, ToSet
    <3>2. CASE i \in 1..Len(result) /\ j \in 1..Len(result)
      BY <3>2, <1>2, <1>s DEF ResultInv
    <3>3. CASE i = Len(result) + 1
      <4>1. j \in 1..Len(result)
        BY <3>3, <1>2
      <4> QED BY <3>1, <3>3, <4>1, <1>2, <1>9
    <3>4. CASE j = Len(result) + 1
      <4>1. i \in 1..Len(result)
        BY <3>4, <1>2
      <4> QED BY <3>1, <3>4, <4>1, <1>2, <1>9
    <3> QED BY <3>2, <3>3, <3>4, <1>2
  <2> QED BY <2>2, <2>3, <2>4, <1>1 DEF ResultInv
<1> QED BY <1>10, <1>11, <1>12, <1>13, <1>14, <1>15, <1>16, <1>17 DEF TarjanInv
-----------------------------------------------------------------------------

(* The invariant of the algorithm holds at the start and at every step.    *)
LEMMA TarjanStarts ==
  ASSUME CFGs \subseteq SUBSET (Blocks \X Blocks), Init
  PROVE  TarjanInv
<1>1. Shape /\ stack = <<>> /\ calls = <<>> /\ result = <<>>
  BY EmptySeq DEF Init, Shape
<1>2. ToSet(stack) = {} /\ ToSet(result) = {} /\ DOMAIN calls = {} /\ DOMAIN stack = {} /\ DOMAIN result = {}
  BY <1>1 DEF ToSet
<1>3. \A v \in Blocks : index[v] = -1
  BY DEF Init
<1>4. IndexInv
  BY <1>3 DEF IndexInv, Visited, Init
<1>5. StackInv /\ CallInv /\ PathInv /\ LowInv /\ BoundInv /\ ResultInv
  BY <1>2, <1>3 DEF StackInv, CallInv, PathInv, LowInv, BoundInv, ResultInv, Closed, Visited, OnStack, Emitted
<1> QED BY <1>1, <1>4, <1>5 DEF TarjanInv

LEMMA TarjanStutters ==
  ASSUME TarjanInv, UNCHANGED vars
  PROVE  TarjanInv'
<1> SUFFICES Shape' /\ IndexInv' /\ StackInv' /\ CallInv' /\ PathInv' /\ LowInv' /\ BoundInv' /\ ResultInv'
  BY DEF TarjanInv
<1>1. Shape' /\ IndexInv' /\ StackInv' /\ CallInv'
  BY DEF TarjanInv, vars, Shape, IndexInv, StackInv, CallInv, Visited, Open, Caller, OnStack, Emitted, Successors
<1>2. PathInv' /\ LowInv' /\ BoundInv'
  BY DEF TarjanInv, vars, PathInv, LowInv, BoundInv, Seen, From, Closed, Caller, OnStack
<1>3. ResultInv'
  BY DEF TarjanInv, vars, ResultInv, Component, From, Closed, Emitted
<1> QED BY <1>1, <1>2, <1>3

LEMMA TarjanStep ==
  ASSUME TarjanInv, Next
  PROVE  TarjanInv'
<1>s. /\ Shape /\ StackInv /\ CallInv /\ PathInv
      /\ edges \subseteq Blocks \X Blocks /\ index \in [Blocks -> Nat \cup {-1}]
  BY DEF TarjanInv, Shape
<1>1. ASSUME NEW v \in Blocks, Root(v) PROVE TarjanInv'
  <2>1. calls = <<>> /\ index[v] = -1 /\ Enter(v, <<>>)
    BY <1>1 DEF Root, Unvisited
  <2>2. <<>> \in Seq(Call) /\ Len(<<>>) = Len(calls) /\ Len(calls) = 0
    BY <2>1, EmptySeq
  <2> DEFINE cs == <<>>
  <2>3. /\ cs \in Seq(Call) /\ Len(cs) = Len(calls)
        /\ \A i \in 1..Len(calls) : cs[i].block = calls[i].block
        /\ \A i \in 1..Len(calls) : cs[i].left \subseteq calls[i].left /\ calls[i].left \subseteq cs[i].left \cup {v}
        /\ Len(calls) # 0 => v \in Successors(Caller(Len(calls)))
    BY <2>1, <2>2
  <2>4. Enter(v, cs)
    BY <2>1
  <2> HIDE DEF cs
  <2> QED BY <2>1, <2>3, <2>4, EnterStep
<1>2. ASSUME NEW w \in Blocks, Descend(w) PROVE TarjanInv'
  <2>1. calls # <<>> /\ w \in Last(calls).left /\ index[w] = -1 /\ Enter(w, WithoutWay(w))
    BY <1>2 DEF Descend, Unvisited
  <2>2. Len(calls) \in Nat \ {0} /\ Last(calls) = calls[Len(calls)]
    BY <2>1, <1>s, CallsFacts
  <2>3. DOMAIN calls = 1..Len(calls) /\ Len(calls) \in 1..Len(calls)
    BY <2>2, OrderFacts
  <2>4. w \in Successors(Caller(Len(calls)))
    BY <2>1, <2>2, <2>3, <1>s DEF CallInv
  <2> DEFINE cs == WithoutWay(w)
  <2>5. cs \in Seq(Call) /\ Len(cs) = Len(calls)
    BY <2>1, <1>s, WithoutWayFacts
  <2>6. \A i \in 1..Len(calls) : cs[i].block = calls[i].block
    BY <2>1, <1>s, WithoutWayFacts
  <2>7. \A i \in 1..Len(calls) : cs[i].left = IF i = Len(calls) THEN calls[i].left \ {w} ELSE calls[i].left
    BY <2>1, <1>s, WithoutWayFacts
  <2>8. Enter(w, cs)
    BY <2>1
  <2> HIDE DEF cs
  <2>9. \A i \in 1..Len(calls) : cs[i].left \subseteq calls[i].left /\ calls[i].left \subseteq cs[i].left \cup {w}
    BY <2>7
  <2> QED BY <2>1, <2>4, <2>5, <2>6, <2>8, <2>9, EnterStep
<1>3. ASSUME NEW w \in Blocks, BackOrCross(w) PROVE TarjanInv'
  BY <1>3, BackOrCrossStep
<1>4. ASSUME Return PROVE TarjanInv'
  BY <1>4, ReturnStays, ReturnPops
<1> QED BY <1>1, <1>2, <1>3, <1>4 DEF Next

(* The reference that the runs compute is the least closed set.            *)
LEMMA ReachIsFrom ==
  ASSUME edges \subseteq Blocks \X Blocks, NEW b \in Blocks
  PROVE  Reach[b] = From(b)
<1> DEFINE closed == {S \in SUBSET Blocks : \A e \in edges : e[1] \in S => e[2] \in S}
           Least(S) == b \in S /\ \A R \in closed : b \in R => S \subseteq R
<1>1. Reach[b] = CHOOSE S \in closed : Least(S)
  BY DEF Reach
<1>2. From(b) \in closed /\ b \in From(b)
  <2>1. From(b) \in SUBSET Blocks
    BY DEF From
  <2> QED BY <2>1, FromFacts DEF Closed
<1>3. \A R \in closed : b \in R => From(b) \subseteq R
  BY FromFacts DEF Closed
<1> HIDE DEF closed
<1>4. Least(From(b))
  BY <1>2, <1>3
<1>5. Reach[b] \in closed /\ Least(Reach[b])
  BY <1>1, <1>2, <1>4
<1> QED BY <1>2, <1>3, <1>5

(* So every component is emitted whole and once, and in the end all are.   *)
THEOREM TarjanIsExact ==
  ASSUME TarjanInv
  PROVE  ComponentsExact
<1>s. Shape /\ StackInv /\ PathInv /\ ResultInv
  BY DEF TarjanInv
<1>1. edges \subseteq Blocks \X Blocks /\ result \in Seq(SUBSET Blocks)
  BY <1>s DEF Shape
<1>2. \A K \in ToSet(result) : K \subseteq Blocks
  BY <1>1, ElementOfSeq, LenProperties DEF ToSet
<1>3. \A K \in ToSet(result) : \A b \in K : K = {c \in Reach[b] : b \in Reach[c]}
  <2> SUFFICES ASSUME NEW K \in ToSet(result), NEW b \in K
               PROVE  K = {c \in Reach[b] : b \in Reach[c]}
    OBVIOUS
  <2>1. b \in Blocks /\ K = Component(b)
    BY <1>2, <1>s DEF ResultInv
  <2>2. \A c \in Blocks : Reach[c] = From(c)
    BY <1>1, ReachIsFrom
  <2>3. From(b) \subseteq Blocks
    BY DEF From
  <2> QED BY <2>1, <2>2, <2>3 DEF Component
<1>4. ASSUME Done PROVE UNION ToSet(result) = Blocks
  <2>1. calls = <<>> /\ \A v \in Blocks : index[v] # -1
    BY <1>4 DEF Done, Unvisited
  <2>2. ToSet(stack) = {}
    BY <2>1, <1>s DEF PathInv
  <2>3. Blocks \subseteq Emitted
    BY <2>1, <2>2, <1>s DEF StackInv, Visited, OnStack
  <2> QED BY <2>3, <1>2 DEF Emitted
<1>5. \A i, j \in DOMAIN result : i # j => result[i] \cap result[j] = {}
  BY <1>s DEF ResultInv
<1> QED BY <1>3, <1>4, <1>5 DEF ComponentsExact

(* A block leads to itself and to what its successors lead to.             *)
LEMMA FromUnfolds ==
  ASSUME edges \subseteq Blocks \X Blocks, NEW b \in Blocks, NEW c \in From(b), c # b
  PROVE  \E w \in Successors(b) : w \in Blocks /\ c \in From(w)
<1> DEFINE S == {b} \cup {d \in Blocks : \E w \in Successors(b) : w \in Blocks /\ d \in From(w)}
<1>1. S \in SUBSET Blocks /\ b \in S
  OBVIOUS
<1>2. ASSUME NEW e \in edges, e[1] \in S PROVE e[2] \in S
  <2>1. e[1] \in Blocks /\ e[2] \in Blocks /\ e[2] \in Successors(e[1])
    BY DEF Successors
  <2>2. CASE e[1] = b
    BY <2>1, <2>2, FromFacts
  <2>3. CASE e[1] # b
    <3>1. PICK w \in Successors(b) : w \in Blocks /\ e[1] \in From(w)
      BY <1>2, <2>3
    <3>2. e[2] \in From(w)
      BY <2>1, <3>1, FromFacts
    <3> QED BY <2>1, <3>1, <3>2
  <2> QED BY <2>2, <2>3
<1>3. Closed(S)
  BY <1>2 DEF Closed
<1> HIDE DEF S
<1>4. c \in S
  BY <1>1, <1>3, FromFacts
<1> QED BY <1>4 DEF S

(* The verdict, once all components are there and the two searches have    *)
(* been answered: a component judged unresolved is a trap, and every trap  *)
(* lies in one.                                                            *)
THEOREM UnresolvedIsTrap ==
  ASSUME TarjanInv, Done, IsFiniteSet(Blocks), Entry \in Blocks, Exit \in Blocks,
         \A e \in edges : e[1] # Exit
  PROVE  UnresolvedLoop(From(Entry), {b \in Blocks : Exit \in From(b)}) <=> Traps # {}
<1> DEFINE canExit == {b \in Blocks : Exit \in From(b)}
           Trap(b) == Exit \notin From(b) /\ \E w \in Successors(b) : b \in From(w)
<1>s. Shape /\ ResultInv /\ ComponentsExact
  BY TarjanIsExact DEF TarjanInv
<1>1. edges \subseteq Blocks \X Blocks /\ result \in Seq(SUBSET Blocks)
  BY <1>s DEF Shape
<1>2. /\ \A K \in ToSet(result) : K \subseteq Blocks /\ \A b \in K : K = Component(b)
      /\ UNION ToSet(result) = Blocks
  <2>1. \A K \in ToSet(result) : K \subseteq Blocks
    BY <1>1, ElementOfSeq, LenProperties DEF ToSet
  <2>2. UNION ToSet(result) = Blocks
    <3>1. CASE result = <<>>
      <4>1. Emitted = {} /\ ToSet(stack) = {}
        BY <3>1 DEF Emitted, ToSet, TarjanInv, PathInv, Done
      <4> QED BY <4>1 DEF TarjanInv, StackInv, Done, Unvisited, Visited, OnStack, Emitted
    <3>2. CASE result # <<>>
      BY <3>2, <1>s DEF ComponentsExact
    <3> QED BY <3>1, <3>2
  <2> QED BY <2>1, <2>2, <1>s DEF ResultInv
<1>3. From(Entry) \subseteq Blocks
  BY DEF From
<1>4. Traps = {b \in From(Entry) : Trap(b)}
  <2>1. \A b \in Blocks : Reach[b] = From(b)
    BY <1>1, ReachIsFrom
  <2>2. \A b \in Blocks : \A w \in Successors(b) : w \in Blocks
    BY <1>1, FromFacts
  <2> QED BY <2>1, <2>2, <1>3 DEF Traps
<1> HIDE DEF Trap
<1>5. ASSUME UnresolvedLoop(From(Entry), canExit) PROVE \E b \in From(Entry) : Trap(b)
  <2>1. PICK K \in ToSet(result) : IsPersistentSCC(K) /\ K \cap From(Entry) # {} /\ ~Resolved(K, canExit)
    BY <1>5 DEF UnresolvedLoop, PersistentSCCs
  <2>2. PICK b \in K : b \in From(Entry)
    BY <2>1
  <2>3. b \in Blocks /\ K = Component(b) /\ K \subseteq Blocks
    BY <1>2, <2>2
  <2>4. \E w \in Successors(b) : w \in Blocks /\ b \in From(w)
    <3>1. CASE Cardinality(K) > 1
      <4>1. PICK c \in K : c # b
        <5> SUFFICES ASSUME K = {b} PROVE FALSE
          BY <2>2
        <5>1. Cardinality({b}) = 1
          BY FS_Singleton
        <5> QED BY <3>1, <5>1
      <4>2. PICK w \in Successors(b) : w \in Blocks /\ c \in From(w)
        BY <2>3, <4>1, <1>1, FromUnfolds DEF Component
      <4>3. b \in From(c)
        BY <2>3, <4>1 DEF Component
      <4>4. b \in From(w)
        BY <2>3, <4>2, <4>3, <1>1, FromFacts
      <4> QED BY <4>2, <4>4
    <3>2. CASE \E u \in K : <<u, u>> \in edges
      <4>1. PICK u \in K : <<u, u>> \in edges
        BY <3>2
      <4>2. u \in Blocks /\ u \in From(b) /\ b \in From(u) /\ u \in Successors(u)
        BY <2>3, <4>1 DEF Component, Successors
      <4>3. CASE u = b
        BY <4>2, <4>3
      <4>4. CASE u # b
        <5>1. PICK w \in Successors(b) : w \in Blocks /\ u \in From(w)
          BY <2>3, <4>2, <4>4, <1>1, FromUnfolds
        <5> QED BY <2>3, <4>2, <5>1, <1>1, FromFacts
      <4> QED BY <4>3, <4>4
    <3> QED BY <2>1, <3>1, <3>2 DEF IsPersistentSCC
  <2>5. Exit \notin K
    <3> SUFFICES ASSUME Exit \in K PROVE FALSE
      OBVIOUS
    <3>1. Successors(Exit) = {}
      BY DEF Successors
    <3>2. Exit # b
      BY <2>4, <3>1
    <3>3. b \in From(Exit)
      BY <2>3 DEF Component
    <3> QED BY <3>1, <3>2, <3>3, <1>1, FromUnfolds
  <2>6. Exit \notin From(b)
    <3> DEFINE S == K \cup (Blocks \ canExit)
    <3>1. ASSUME NEW e \in edges, e[1] \in S PROVE e[2] \in S
      <4>1. e[1] \in Blocks /\ e[2] \in Blocks /\ e[2] \in Successors(e[1])
        BY <1>1 DEF Successors
      <4>2. CASE e[1] \in K
        BY <2>1, <4>1, <4>2 DEF Resolved
      <4>3. CASE e[1] \notin canExit
        <5>1. From(e[2]) \subseteq From(e[1])
          BY <4>1, <1>1, FromFacts
        <5> QED BY <4>1, <4>3, <5>1
      <4> QED BY <3>1, <4>2, <4>3
    <3>2. Closed(S) /\ S \in SUBSET Blocks /\ b \in S
      BY <3>1, <2>3, <2>2 DEF Closed
    <3>3. Exit \notin S
      BY <2>5, <1>1, FromFacts
    <3> HIDE DEF S
    <3> QED BY <3>2, <3>3, <2>3, <1>1, FromFacts
  <2> QED BY <2>2, <2>4, <2>6 DEF Trap
<1>6. ASSUME NEW b \in From(Entry), Trap(b) PROVE UnresolvedLoop(From(Entry), canExit)
  <2>1. b \in Blocks
    BY <1>3
  <2>2. PICK w \in Successors(b) : b \in From(w)
    BY <1>6 DEF Trap
  <2>3. PICK K \in ToSet(result) : b \in K
    BY <2>1, <1>2
  <2>4. K = Component(b) /\ K \subseteq Blocks /\ IsFiniteSet(K)
    BY <2>3, <1>2, FS_Subset
  <2>5. w \in Blocks /\ w \in From(b) /\ <<b, w>> \in edges
    <3>1. PICK e \in edges : e[1] = b /\ e[2] = w
      BY DEF Successors
    <3>2. e = <<b, w>>
      BY <3>1, <1>1
    <3> QED BY <3>1, <3>2, <2>1, <1>1, FromFacts
  <2>6. IsPersistentSCC(K)
    <3>1. CASE w = b
      BY <3>1, <2>3, <2>5 DEF IsPersistentSCC
    <3>2. CASE w # b
      <4>1. w \in K /\ {b, w} \subseteq K
        BY <2>2, <2>3, <2>4, <2>5 DEF Component
      <4>2. Cardinality({b, w}) = 2
        <5>1. IsFiniteSet({b}) /\ Cardinality({b}) = 1 /\ w \notin {b} /\ {b, w} = {b} \cup {w}
          BY <3>2, FS_Singleton
        <5>2. Cardinality({b} \cup {w}) = 1 + 1
          BY <5>1, FS_AddElement
        <5> QED BY <5>1, <5>2
      <4>3. Cardinality({b, w}) <= Cardinality(K) /\ Cardinality(K) \in Nat
        BY <4>1, <2>4, FS_Subset, FS_CardinalityType
      <4>4. Cardinality(K) > 1
        BY <4>2, <4>3
      <4> QED BY <4>4 DEF IsPersistentSCC
    <3> QED BY <3>1, <3>2
  <2>7. ~Resolved(K, canExit)
    <3> SUFFICES ASSUME NEW e \in edges, e[1] \in K, e[2] \in canExit PROVE FALSE
      BY DEF Resolved
    <3>1. e[1] \in Blocks /\ e[2] \in Blocks /\ e[2] \in Successors(e[1])
      BY <1>1 DEF Successors
    <3>2. e[1] \in From(b)
      BY <2>4 DEF Component
    <3>3. From(e[2]) \subseteq From(e[1]) /\ From(e[1]) \subseteq From(b)
      BY <3>1, <3>2, <2>1, <1>1, FromFacts
    <3> QED BY <3>3, <1>6 DEF Trap
  <2> QED BY <2>3, <2>6, <2>7 DEF UnresolvedLoop, PersistentSCCs
<1> QED BY <1>4, <1>5, <1>6
=============================================================================
