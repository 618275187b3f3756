------------------------ MODULE GraphAnalyses_proofs ------------------------
(***************************************************************************)
(* The searches, the components, the verdict of rule LL1002 and the data   *)
(* flow solver are exact on every graph.                                   *)
(***************************************************************************)
EXTENDS GraphAnalyses, FiniteSetTheorems, WellFoundedInduction, TLAPS

T == INSTANCE LoopVerdict_proofs WITH CFGs <- LoopCFGs, edges <- graph, stack <- open

-----------------------------------------------------------------------------
(* A search (GraphSearch).                                                 *)

\* What has been seen lies in every closed set around the start, and every block that has
\* been popped has had its ways seen.
SearchInv == /\ TypeOK
             /\ start \notin avoid => start \in seen
             /\ start \in avoid => seen = {}
             /\ \A S \in SUBSET Blocks : (start \in S /\ Closed(S)) => seen \subseteq S
             /\ \A b \in seen \ stack : Ways(b) \subseteq seen

LEMMA InitSearch == Init => SearchInv
BY CFGsAssumption DEF Init, SearchInv, TypeOK, Edge

LEMMA StepSearch == SearchInv /\ [Next]_vars => SearchInv'
<1> SUFFICES ASSUME SearchInv, [Next]_vars PROVE SearchInv'
  OBVIOUS
<1>1. ASSUME NEW id \in Blocks, Visit(id) PROVE SearchInv'
  <2>1. UNCHANGED <<edges, start, avoid, skip>>
    BY <1>1 DEF Visit, arguments
  <2>2. Ways(id) \subseteq Blocks \ avoid
    BY DEF SearchInv, TypeOK, Ways, Edge
  <2>3. /\ id \in seen
        /\ seen' = seen \cup Ways(id)
        /\ stack' = (stack \ {id}) \cup (Ways(id) \ seen)
    BY <1>1 DEF Visit, SearchInv, TypeOK
  <2>4. TypeOK'
    BY <2>1, <2>2, <2>3 DEF SearchInv, TypeOK
  <2>5. (start \notin avoid => start \in seen)' /\ (start \in avoid => seen = {})'
    BY <2>1, <2>3 DEF SearchInv
  <2>6. ASSUME NEW S \in SUBSET Blocks, start' \in S, Closed(S)' PROVE seen' \subseteq S
    <3>1. Closed(S) /\ seen \subseteq S
      BY <2>1, <2>6 DEF SearchInv, Closed
    <3>2. Ways(id) \subseteq S
      BY <2>3, <3>1 DEF Closed, Ways
    <3>3. QED
      BY <2>3, <3>1, <3>2
  <2>7. \A b \in seen' \ stack' : Ways(b)' \subseteq seen'
    <3>1. TAKE b \in seen' \ stack'
    <3>2. Ways(b)' = Ways(b)
      BY <2>1 DEF Ways
    <3>3. b = id \/ b \in seen \ stack
      BY <2>3
    <3>4. QED
      BY <2>3, <3>2, <3>3 DEF SearchInv
  <2>8. QED
    BY <2>4, <2>5, <2>6, <2>7 DEF SearchInv
<1>2. CASE UNCHANGED vars
  BY <1>2 DEF vars, SearchInv, TypeOK, Closed, Ways
<1>3. QED
  BY <1>1, <1>2 DEF Next

LEMMA SearchInvExact == SearchInv => SearchIsExact
<1> SUFFICES ASSUME SearchInv, stack = {} PROVE seen = ReachableAvoiding
  BY DEF SearchIsExact
<1>1. seen \subseteq Blocks /\ edges \subseteq Edge
  BY DEF SearchInv, TypeOK
<1>2. Closed(seen)
  BY <1>1 DEF SearchInv, Closed, Ways, Edge
<1>3. CASE start \in avoid
  BY <1>3 DEF SearchInv, ReachableAvoiding
<1>4. CASE start \notin avoid
  BY <1>1, <1>2, <1>4 DEF SearchInv, ReachableAvoiding
<1>5. QED
  BY <1>3, <1>4

LEMMA SearchInvariant == Spec => []SearchInv
BY InitSearch, StepSearch, PTL DEF Spec

(* The search keeps out of the blocks to avoid and its stack holds only    *)
(* blocks it has marked.                                                   *)
THEOREM SearchTypes == Spec => []TypeOK
<1>1. SearchInv => TypeOK
  BY DEF SearchInv
<1>2. QED
  BY SearchInvariant, <1>1, PTL

(* Whatever the graph, the blocks to avoid and the edges to skip, the loop *)
(* ends with exactly the blocks of the paths that keep clear of them.      *)
THEOREM SearchCorrect == Spec => []SearchIsExact
BY SearchInvariant, SearchInvExact, PTL

-----------------------------------------------------------------------------
(* The solver.                                                             *)

\* A largest value is where the join of finitely many numbers is.
LEMMA LargestExists ==
  ASSUME NEW S, S \subseteq Nat, IsFiniteSet(S), S # {}
  PROVE  \E m \in S : \A x \in S : m >= x
<1> DEFINE Largest(A) == \E m \in A : \A x \in A : m >= x
           Bad == {A \in SUBSET S : A # {} /\ ~Largest(A)}
<1> SUFFICES ASSUME Bad # {} PROVE FALSE
  OBVIOUS
<1>1. IsWellFoundedOn(StrictSubsetOrdering(S), SUBSET S)
  BY FS_StrictSubsetOrderingWellFounded, FS_FiniteSubsetsOfFinite
<1>2. PICK A \in Bad : \A B \in Bad : ~(<<B, A>> \in StrictSubsetOrdering(S))
  <2>1. Bad \subseteq SUBSET S
    OBVIOUS
  <2> HIDE DEF Bad
  <2> QED BY <1>1, <2>1, WFMin
<1>3. A \in SUBSET S /\ A # {} /\ ~Largest(A)
  OBVIOUS
<1>4. PICK a \in A : TRUE
  BY <1>3
<1>5. A \ {a} # {}
  <2> SUFFICES ASSUME A = {a} PROVE FALSE
    BY <1>3, <1>4
  <2> QED BY <1>3
<1>6. A \ {a} \notin Bad
  <2>1. <<A \ {a}, A>> \in StrictSubsetOrdering(S)
    BY <1>3, <1>4 DEF StrictSubsetOrdering
  <2> QED BY <1>2, <2>1
<1>7. PICK m \in A \ {a} : \A x \in A \ {a} : m >= x
  BY <1>3, <1>5, <1>6
<1>8. m \in Nat /\ a \in Nat /\ A \subseteq Nat
  BY <1>3, <1>4, <1>7
<1>9. Largest(A)
  <2>1. CASE m >= a
    BY <1>7, <2>1
  <2>2. CASE a >= m
    BY <1>4, <1>7, <1>8, <2>2
  <2> QED BY <1>8, <2>1, <2>2
<1> QED BY <1>3, <1>9

LEMMA MaxFacts ==
  ASSUME NEW S \in SUBSET Values, S # {}
  PROVE  /\ D!Max(S) \in S /\ \A x \in S : D!Max(S) >= x
         /\ \A m \in S : (\A x \in S : m >= x) => m = D!Max(S)
<1>1. S \subseteq Nat /\ IsFiniteSet(S)
  BY EquationsAssumption, FS_Subset
<1>2. \E m \in S : \A x \in S : m >= x
  BY <1>1, LargestExists
<1>3. D!Max(S) \in S /\ \A x \in S : D!Max(S) >= x
  BY <1>2 DEF D!Max
<1>4. \A m \in S : (\A x \in S : m >= x) => m = D!Max(S)
  <2> SUFFICES ASSUME NEW m \in S, \A x \in S : m >= x PROVE m = D!Max(S)
    OBVIOUS
  <2>1. m >= D!Max(S) /\ D!Max(S) >= m /\ m \in Nat /\ D!Max(S) \in Nat
    BY <1>1, <1>3
  <2> HIDE DEF D!Max
  <2> QED BY <2>1
<1> QED BY <1>3, <1>4

\* The state before a block when the blocks have the states o.
Joined(o, b) == IF b = Entry THEN initial ELSE D!Max({0} \cup {o[p] : p \in D!Predecessors(b)})

SolveShape == /\ graph \subseteq Blocks \X Blocks /\ \A e \in graph : e[2] # Entry
              /\ points \in [Blocks -> SUBSET Values] /\ initial \in Values
              /\ out \in [Blocks -> Values]
              /\ processed \subseteq D!Reached /\ queue \subseteq D!Reached

\* Whatever a block has comes from a source; a block that is not queued has what the blocks
\* before it pass on, and the blocks after a processed one have been queued.
SolveInv ==
  /\ SolveShape
  /\ Entry \in processed \cup queue
  /\ \A b \in processed : D!Successors(b) \subseteq processed \cup queue
  /\ \A b \in Blocks \ processed : out[b] = 0
  /\ \A b \in processed \ queue : out[b] = D!Transfer(b, Joined(out, b))
  /\ \A b \in Blocks : out[b] = 0 \/ \E s \in D!Sources : out[b] = s[2] /\ b \in D!Carried(s[1])

(* The blocks that Entry reaches are closed under the edges.               *)
LEMMA ReachedFacts ==
  ASSUME graph \subseteq Blocks \X Blocks
  PROVE  /\ Entry \in D!Reached /\ D!Reached \subseteq Blocks
         /\ \A b \in D!Reached : D!Successors(b) \subseteq D!Reached
         /\ \A S \in SUBSET Blocks : Entry \in S /\ (\A b \in S : D!Successors(b) \subseteq S) => D!Reached \subseteq S
<1>1. Entry \in D!Reached /\ D!Reached \subseteq Blocks
  BY BlocksAssumption DEF D!Reached
<1>2. ASSUME NEW b \in D!Reached, NEW c \in D!Successors(b) PROVE c \in D!Reached
  <2>1. PICK e \in graph : e[1] = b /\ e[2] = c
    BY <1>2 DEF D!Successors
  <2> QED BY <1>2, <2>1 DEF D!Reached
<1>3. ASSUME NEW S \in SUBSET Blocks, Entry \in S, \A b \in S : D!Successors(b) \subseteq S
      PROVE  D!Reached \subseteq S
  <2>1. \A e \in graph : e[1] \in S => e[2] \in S
    BY <1>3 DEF D!Successors
  <2> QED BY <1>3, <2>1 DEF D!Reached
<1> QED BY <1>1, <1>2, <1>3

(* What is carried to a block is carried on to the blocks after it that    *)
(* are no points, and to nothing else.                                     *)
LEMMA CarriedFacts ==
  ASSUME graph \subseteq Blocks \X Blocks, NEW a \in Blocks
  PROVE  /\ a \in D!Carried(a) /\ D!Carried(a) \subseteq Blocks
         /\ \A e \in graph : e[1] \in D!Carried(a) /\ points[e[2]] = {} => e[2] \in D!Carried(a)
         /\ \A S \in SUBSET Blocks : a \in S /\ (\A e \in graph : e[1] \in S /\ points[e[2]] = {} => e[2] \in S)
                                       => D!Carried(a) \subseteq S
<1>1. a \in D!Carried(a) /\ D!Carried(a) \subseteq Blocks
  BY DEF D!Carried
<1>2. \A e \in graph : e[1] \in D!Carried(a) /\ points[e[2]] = {} => e[2] \in D!Carried(a)
  BY DEF D!Carried
<1>3. \A S \in SUBSET Blocks : a \in S /\ (\A e \in graph : e[1] \in S /\ points[e[2]] = {} => e[2] \in S)
                                 => D!Carried(a) \subseteq S
  BY DEF D!Carried
<1> QED BY <1>1, <1>2, <1>3

(* The join over the blocks before b, for any states o.                    *)
LEMMA JoinedFacts ==
  ASSUME SolveShape, NEW o \in [Blocks -> Values], NEW b \in Blocks
  PROVE  /\ D!Predecessors(b) \subseteq Blocks
         /\ b # Entry => /\ Joined(o, b) \in {0} \cup {o[p] : p \in D!Predecessors(b)}
                         /\ \A p \in D!Predecessors(b) : Joined(o, b) >= o[p]
         /\ Joined(o, b) \in Values
         /\ points[b] # {} => D!Max(points[b]) \in Values
         /\ D!Transfer(b, Joined(o, b)) \in Values
<1> DEFINE before == {0} \cup {o[p] : p \in D!Predecessors(b)}
<1>1. D!Predecessors(b) \subseteq Blocks
  BY DEF SolveShape, D!Predecessors
<1>2. before \in SUBSET Values /\ before # {}
  BY <1>1, EquationsAssumption
<1> HIDE DEF before
<1>3. D!Max(before) \in before /\ \A x \in before : D!Max(before) >= x
  BY <1>2, MaxFacts
<1>4. b # Entry => Joined(o, b) = D!Max(before)
  BY DEF Joined, before
<1>5. b # Entry => Joined(o, b) \in before /\ \A x \in before : Joined(o, b) >= x
  BY <1>3, <1>4
<1>6. Joined(o, b) \in Values
  BY <1>2, <1>5 DEF Joined, SolveShape
<1>7. points[b] # {} => D!Max(points[b]) \in Values
  <2>1. points[b] \in SUBSET Values
    BY DEF SolveShape
  <2>2. points[b] # {} => D!Max(points[b]) \in points[b]
    BY <2>1, MaxFacts
  <2> QED BY <2>1, <2>2
<1>8. D!Transfer(b, Joined(o, b)) \in Values
  BY <1>6, <1>7 DEF D!Transfer
<1> QED BY <1>1, <1>5, <1>6, <1>7, <1>8 DEF before

LEMMA SolveStarts ==
  ASSUME graph \subseteq Blocks \X Blocks, \A e \in graph : e[2] # Entry,
         points \in [Blocks -> SUBSET Values], initial \in Values, D!SolveInit
  PROVE  SolveInv
<1>1. out = [b \in Blocks |-> 0] /\ processed = {} /\ queue = {Entry}
  BY DEF D!SolveInit, D!Bottom
<1>2. SolveShape
  BY <1>1, EquationsAssumption, ReachedFacts DEF SolveShape
<1> QED BY <1>1, <1>2 DEF SolveInv

LEMMA SolveArguments ==
  ASSUME graph' = graph, points' = points, initial' = initial
  PROVE  /\ D!Reached' = D!Reached /\ D!Sources' = D!Sources
         /\ \A b : D!Successors(b)' = D!Successors(b) /\ D!Carried(b)' = D!Carried(b)
         /\ \A b, i : D!Transfer(b, i)' = D!Transfer(b, i)
<1>1. D!Reached' = D!Reached
  BY DEF D!Reached
<1>2. D!Sources' = D!Sources
  BY <1>1 DEF D!Sources, D!Transfer
<1>3. \A b : D!Successors(b)' = D!Successors(b) /\ D!Carried(b)' = D!Carried(b)
  BY DEF D!Successors, D!Carried
<1>4. \A b, i : D!Transfer(b, i)' = D!Transfer(b, i)
  BY DEF D!Transfer
<1> QED BY <1>1, <1>2, <1>3, <1>4

LEMMA SolveStepKeeps ==
  ASSUME SolveInv, NEW b \in Blocks, D!SolveStep(b)
  PROVE  SolveInv'
<1> DEFINE next == D!Transfer(b, Joined(out, b))
           changed == b \notin processed \/ next # out[b]
<1>s. SolveShape
  BY DEF SolveInv
<1>f. /\ graph \subseteq Blocks \X Blocks /\ points \in [Blocks -> SUBSET Values] /\ initial \in Values
      /\ out \in [Blocks -> Values]
      /\ processed \subseteq D!Reached /\ queue \subseteq D!Reached
  BY <1>s DEF SolveShape
<1>e. /\ b \in queue
      /\ out' = [out EXCEPT ![b] = next]
      /\ queue' = (queue \ {b}) \cup (IF changed THEN D!Successors(b) ELSE {})
      /\ processed' = processed \cup {b}
      /\ graph' = graph /\ points' = points /\ initial' = initial
  BY DEF D!SolveStep, D!In, D!Bottom, Joined
<1>1. next \in Values
  BY <1>f, <1>s, JoinedFacts
<1> HIDE DEF next
<1>2. /\ D!Reached' = D!Reached /\ D!Sources' = D!Sources
      /\ \A c : D!Successors(c)' = D!Successors(c) /\ D!Carried(c)' = D!Carried(c)
      /\ \A c, i : D!Transfer(c, i)' = D!Transfer(c, i)
  BY <1>e, SolveArguments
<1>3. /\ b \in D!Reached /\ D!Reached \subseteq Blocks
      /\ D!Successors(b) \subseteq D!Reached
  BY <1>e, <1>f, ReachedFacts
<1>4. /\ out' \in [Blocks -> Values] /\ out'[b] = next
      /\ \A c \in Blocks : c # b => out'[c] = out[c]
  BY <1>1, <1>e, <1>f
<1>5. SolveShape'
  <2>1. processed' \subseteq D!Reached /\ queue' \subseteq D!Reached
    BY <1>e, <1>f, <1>3
  <2> QED BY <2>1, <1>2, <1>4, <1>e, <1>s DEF SolveShape
<1>6. (Entry \in processed \cup queue)'
  BY <1>e DEF SolveInv
<1>7. \A c \in processed' : D!Successors(c) \subseteq processed' \cup queue'
  <2> SUFFICES ASSUME NEW c \in processed' PROVE D!Successors(c) \subseteq processed' \cup queue'
    OBVIOUS
  <2>1. CASE c \in processed
    BY <2>1, <1>e DEF SolveInv
  <2>2. CASE c \notin processed
    BY <2>2, <1>e
  <2> QED BY <2>1, <2>2
<1>8. \A c \in Blocks \ processed' : out'[c] = 0
  BY <1>e, <1>4 DEF SolveInv
<1>9. \A c \in processed' \ queue' : out'[c] = D!Transfer(c, Joined(out', c))
  <2> SUFFICES ASSUME NEW c \in processed', c \notin queue'
               PROVE  out'[c] = D!Transfer(c, Joined(out', c))
    OBVIOUS
  <2>1. c \in Blocks
    BY <1>e, <1>f, <1>3
  <2>2. Joined(out', c) = Joined(out, c)
    <3>1. CASE next = out[b]
      BY <3>1, <1>e, <1>f
    <3>2. CASE next # out[b]
      <4>1. D!Successors(b) \subseteq queue'
        BY <3>2, <1>e
      <4>2. b \notin D!Predecessors(c)
        BY <4>1 DEF D!Predecessors, D!Successors
      <4>3. \A p \in D!Predecessors(c) : out'[p] = out[p]
        BY <4>2, <2>1, <1>4, <1>s, <1>f, JoinedFacts
      <4> QED BY <4>3 DEF Joined
    <3> QED BY <3>1, <3>2
  <2>3. CASE c = b
    BY <2>2, <2>3, <1>4 DEF next
  <2>4. CASE c # b
    BY <2>1, <2>2, <2>4, <1>4, <1>e DEF SolveInv
  <2> QED BY <2>3, <2>4
<1>10. \A c \in Blocks : out'[c] = 0 \/ \E s \in D!Sources : out'[c] = s[2] /\ c \in D!Carried(s[1])
  <2>1. \A c \in Blocks : out[c] = 0 \/ \E s \in D!Sources : out[c] = s[2] /\ c \in D!Carried(s[1])
    BY DEF SolveInv
  <2>2. next = 0 \/ \E s \in D!Sources : next = s[2] /\ b \in D!Carried(s[1])
    <3>1. CASE points[b] # {}
      <4>1. <<b, D!Max(points[b])>> \in D!Sources
        BY <3>1, <1>3 DEF D!Sources
      <4>2. next = D!Max(points[b])
        BY <3>1 DEF next, D!Transfer
      <4>3. b \in D!Carried(b)
        BY <1>f, CarriedFacts
      <4> DEFINE s == <<b, D!Max(points[b])>>
      <4>4. s \in D!Sources /\ next = s[2] /\ b \in D!Carried(s[1])
        BY <4>1, <4>2, <4>3
      <4> HIDE DEF s
      <4> QED BY <4>4
    <3>2. CASE points[b] = {} /\ b = Entry
      <4> DEFINE s == <<Entry, D!Transfer(Entry, initial)>>
      <4>1. s \in D!Sources
        BY DEF D!Sources
      <4>2. next = s[2]
        BY <3>2 DEF next, Joined
      <4>3. b \in D!Carried(s[1])
        BY <3>2, <1>f, CarriedFacts
      <4> HIDE DEF s
      <4> QED BY <4>1, <4>2, <4>3
    <3>3. CASE points[b] = {} /\ b # Entry
      <4>1. next = Joined(out, b)
        BY <3>3 DEF next, D!Transfer
      <4>2. next = 0 \/ \E p \in D!Predecessors(b) : next = out[p]
        BY <3>3, <4>1, <1>s, <1>f, JoinedFacts
      <4>3. CASE \E p \in D!Predecessors(b) : next = out[p]
        <5>1. PICK e \in graph : e[2] = b /\ next = out[e[1]]
          BY <4>3 DEF D!Predecessors
        <5>2. e[1] \in Blocks
          BY <1>f
        <5>3. CASE next # 0
          <6>1. PICK s \in D!Sources : out[e[1]] = s[2] /\ e[1] \in D!Carried(s[1])
            BY <2>1, <5>1, <5>2, <5>3
          <6>2. s[1] \in Blocks
            BY <1>3, <1>f, BlocksAssumption DEF D!Sources
          <6>3. b \in D!Carried(s[1])
            BY <3>3, <5>1, <6>1, <6>2, <1>f, CarriedFacts
          <6> QED BY <5>1, <6>1, <6>3
        <5> QED BY <5>3
      <4> QED BY <4>2, <4>3
    <3> QED BY <3>1, <3>2, <3>3
  <2> QED BY <2>1, <2>2, <1>4
<1>11. \A c \in Blocks : Joined(out, c)' = Joined(out', c)
  BY <1>e DEF Joined, D!Predecessors
<1>12. processed' \subseteq Blocks
  BY <1>e, <1>f, <1>3
<1> QED BY <1>2, <1>5, <1>6, <1>7, <1>8, <1>9, <1>10, <1>11, <1>12 DEF SolveInv

(* In the end every block has the join over all the paths to it.           *)
LEMMA SolveInvExact ==
  ASSUME SolveInv
  PROVE  D!SolveIsExact
<1> SUFFICES ASSUME queue = {}, NEW b \in Blocks PROVE out[b] = D!PathJoin(b)
  BY DEF D!SolveIsExact
<1> DEFINE V == {s[2] : s \in {x \in D!Sources : b \in D!Carried(x[1])}}
<1>s. SolveShape
  BY DEF SolveInv
<1>f. /\ graph \subseteq Blocks \X Blocks /\ points \in [Blocks -> SUBSET Values] /\ initial \in Values
      /\ out \in [Blocks -> Values] /\ processed \subseteq D!Reached /\ \A e \in graph : e[2] # Entry
  BY <1>s DEF SolveShape
<1>1. processed = D!Reached /\ Entry \in processed /\ D!Reached \subseteq Blocks
  <2>1. Entry \in processed /\ \A c \in processed : D!Successors(c) \subseteq processed
    BY DEF SolveInv
  <2>2. processed \in SUBSET Blocks /\ D!Reached \subseteq Blocks
    BY <1>f, ReachedFacts
  <2> QED BY <2>1, <2>2, <1>f, ReachedFacts
<1>2. \A c \in D!Reached : out[c] = D!Transfer(c, Joined(out, c))
  BY <1>1 DEF SolveInv
<1>3. ASSUME NEW s \in D!Sources
      PROVE  s[1] \in D!Reached /\ s[2] \in Values /\ out[s[1]] = s[2]
  <2>1. CASE s = <<Entry, D!Transfer(Entry, initial)>>
    <3>1. out[Entry] = D!Transfer(Entry, initial)
      BY <1>1, <1>2 DEF Joined
    <3> QED BY <2>1, <3>1, <1>1, <1>f, BlocksAssumption
  <2>2. CASE \E a \in D!Reached : points[a] # {} /\ s = <<a, D!Max(points[a])>>
    <3>1. PICK a \in D!Reached : points[a] # {} /\ s = <<a, D!Max(points[a])>>
      BY <2>2
    <3>2. out[a] = D!Max(points[a])
      BY <3>1, <1>2 DEF D!Transfer
    <3> QED BY <3>1, <3>2, <1>1, <1>f
  <2> QED BY <2>1, <2>2 DEF D!Sources
<1>4. ASSUME NEW s \in D!Sources, b \in D!Carried(s[1]) PROVE out[b] >= s[2]
  <2> DEFINE S == {c \in D!Reached : out[c] >= s[2]}
  <2>1. s[1] \in S /\ S \in SUBSET Blocks /\ s[1] \in Blocks
    <3>1. out[s[1]] >= s[2]
      <4>1. s[2] \in Nat /\ out[s[1]] = s[2]
        BY <1>3, EquationsAssumption
      <4> QED BY <4>1
    <3> QED BY <3>1, <1>3, <1>1
  <2>2. ASSUME NEW e \in graph, e[1] \in S, points[e[2]] = {} PROVE e[2] \in S
    <3>1. e[2] \in D!Reached /\ e[2] \in Blocks /\ e[1] \in Blocks /\ e[2] # Entry /\ e[1] \in D!Predecessors(e[2])
      <4>1. e[2] \in D!Successors(e[1]) /\ e[1] \in D!Predecessors(e[2])
        BY DEF D!Successors, D!Predecessors
      <4> QED BY <2>2, <4>1, <1>f, ReachedFacts
    <3>2. out[e[2]] = Joined(out, e[2])
      BY <2>2, <3>1, <1>2 DEF D!Transfer
    <3>3. Joined(out, e[2]) >= out[e[1]]
      BY <3>1, <1>s, <1>f, JoinedFacts
    <3>4. out[e[2]] \in Nat /\ out[e[1]] \in Nat /\ s[2] \in Nat
      BY <3>1, <1>3, <1>f, EquationsAssumption
    <3> QED BY <2>2, <3>1, <3>2, <3>3, <3>4
  <2> HIDE DEF S
  <2>3. b \in S
    BY <1>4, <2>1, <2>2, <1>f, CarriedFacts
  <2> QED BY <2>3 DEF S
<1>5. {0} \cup V \in SUBSET Values /\ {0} \cup V # {}
  BY <1>3, EquationsAssumption
<1>6. out[b] \in {0} \cup V
  BY DEF SolveInv
<1>7. \A x \in {0} \cup V : out[b] >= x
  <2>1. out[b] \in Nat
    BY <1>f, EquationsAssumption
  <2> QED BY <2>1, <1>4
<1>8. D!PathJoin(b) = D!Max({0} \cup V)
  BY DEF D!PathJoin, D!Bottom
<1> HIDE DEF V
<1>9. out[b] = D!Max({0} \cup V)
  BY <1>5, <1>6, <1>7, MaxFacts
<1> QED BY <1>8, <1>9
-----------------------------------------------------------------------------
(* The analyses together.                                                  *)

AnalysesInv ==
  /\ phase \in {"search", "solve", "components", "forward", "backward", "judged"}
  /\ SearchInv
  /\ phase = "solve" => SolveInv
  /\ phase \notin {"search", "solve"} => T!TarjanInv /\ \A e \in graph : e[1] # Exit
  /\ phase \in {"forward", "backward", "judged"} => T!Done
  /\ phase = "forward" => edges = Straight(graph) /\ start = Entry /\ avoid = {} /\ skip = {}
  /\ phase = "backward" => edges = TurnedRound(graph) /\ start = Exit /\ avoid = {} /\ skip = {}
  /\ phase \in {"backward", "judged"} => reachable = T!From(Entry)
  /\ phase = "judged" => canExit = {b \in Blocks : Exit \in T!From(b)}

(* The answer of the search forward, in terms of the graph ...             *)
LEMMA ForwardAnswer ==
  ASSUME SearchInv, stack = {}, graph \subseteq Blocks \X Blocks,
         edges = Straight(graph), start = Entry, avoid = {}, skip = {}
  PROVE  seen = T!From(Entry)
<1>1. seen = ReachableAvoiding
  BY SearchInvExact DEF SearchIsExact
<1>2. \A S \in SUBSET Blocks : Closed(S) <=> T!Closed(S)
  <2> SUFFICES ASSUME NEW S \in SUBSET Blocks PROVE Closed(S) <=> T!Closed(S)
    OBVIOUS
  <2>1. Closed(S) <=> \A e \in Straight(graph) : e.from \in S => e.to \in S
    BY DEF Closed
  <2>2. \A e \in graph : /\ [from |-> e[1], to |-> e[2], kind |-> "normal"] \in Straight(graph)
                         /\ [from |-> e[1], to |-> e[2], kind |-> "normal"].from = e[1]
                         /\ [from |-> e[1], to |-> e[2], kind |-> "normal"].to = e[2]
    BY DEF Straight
  <2>3. \A x \in Straight(graph) : \E e \in graph : x.from = e[1] /\ x.to = e[2]
    BY DEF Straight
  <2> QED BY <2>1, <2>2, <2>3 DEF T!Closed
<1> QED BY <1>1, <1>2 DEF ReachableAvoiding, T!From

(* ... and of the search back, which is over the same paths turned round.  *)
LEMMA BackwardAnswer ==
  ASSUME SearchInv, stack = {}, graph \subseteq Blocks \X Blocks,
         edges = TurnedRound(graph), start = Exit, avoid = {}, skip = {}
  PROVE  seen = {b \in Blocks : Exit \in T!From(b)}
<1> DEFINE Back(S) == \A e \in graph : e[2] \in S => e[1] \in S
           Answer == {b \in Blocks : Exit \in T!From(b)}
<1>1. seen = {b \in Blocks : \A S \in SUBSET Blocks : Exit \in S /\ Back(S) => b \in S}
  <2>1. seen = ReachableAvoiding
    BY SearchInvExact DEF SearchIsExact
  <2>2. \A S \in SUBSET Blocks : Closed(S) <=> Back(S)
    <3> SUFFICES ASSUME NEW S \in SUBSET Blocks PROVE Closed(S) <=> Back(S)
      OBVIOUS
    <3>1. Closed(S) <=> \A e \in TurnedRound(graph) : e.from \in S => e.to \in S
      BY DEF Closed
    <3>2. \A e \in graph : /\ [from |-> e[2], to |-> e[1], kind |-> "normal"] \in TurnedRound(graph)
                           /\ [from |-> e[2], to |-> e[1], kind |-> "normal"].from = e[2]
                           /\ [from |-> e[2], to |-> e[1], kind |-> "normal"].to = e[1]
      BY DEF TurnedRound
    <3>3. \A x \in TurnedRound(graph) : \E e \in graph : x.from = e[2] /\ x.to = e[1]
      BY DEF TurnedRound
    <3> QED BY <3>1, <3>2, <3>3
  <2> HIDE DEF Back
  <2> QED BY <2>1, <2>2 DEF ReachableAvoiding
<1>2. Exit \in Answer /\ Answer \in SUBSET Blocks
  BY BlocksAssumption, T!FromFacts
<1>3. Back(Answer)
  <2> SUFFICES ASSUME NEW e \in graph, e[2] \in Answer PROVE e[1] \in Answer
    OBVIOUS
  <2>1. e[1] \in Blocks /\ e[2] \in Blocks /\ e[2] \in T!Successors(e[1])
    BY DEF T!Successors
  <2>2. T!From(e[2]) \subseteq T!From(e[1])
    BY <2>1, T!FromFacts
  <2> QED BY <2>1, <2>2
<1>4. ASSUME NEW b \in Answer, NEW S \in SUBSET Blocks, Exit \in S, Back(S) PROVE b \in S
  <2> SUFFICES ASSUME b \notin S PROVE FALSE
    OBVIOUS
  <2>1. T!Closed(Blocks \ S)
    BY <1>4 DEF T!Closed
  <2>2. b \in Blocks \ S /\ Blocks \ S \in SUBSET Blocks
    OBVIOUS
  <2>3. T!From(b) \subseteq Blocks \ S
    BY <2>1, <2>2, T!FromFacts
  <2> QED BY <2>3, <1>4
<1> HIDE DEF Back, Answer
<1>5. seen = Answer
  BY <1>1, <1>2, <1>3, <1>4
<1> QED BY <1>5 DEF Answer

(* The module of the proofs speaks of the same algorithm.                  *)
LEMMA SameTarjan ==
  /\ C!Init <=> T!Init
  /\ C!Next <=> T!Next
  /\ C!Done <=> T!Done
  /\ C!ComponentsExact <=> T!ComponentsExact
  /\ \A r, c : C!UnresolvedLoop(r, c) <=> T!UnresolvedLoop(r, c)
  /\ C!Traps = T!Traps
<1>1. C!Init <=> T!Init
  BY DEF C!Init, T!Init
<1>2. C!Next <=> T!Next
  BY DEF C!Next, T!Next, C!Root, T!Root, C!Descend, T!Descend, C!BackOrCross, T!BackOrCross, C!Return, T!Return,
         C!Enter, T!Enter, C!Pop, T!Pop, C!WithoutWay, T!WithoutWay, C!Unvisited, T!Unvisited, C!OnStack, T!OnStack,
         C!Successors, T!Successors, C!Lower, T!Lower, C!Front, T!Front, C!Last, T!Last, C!ToSet, T!ToSet
<1>3. C!Done <=> T!Done
  BY DEF C!Done, T!Done, C!Unvisited, T!Unvisited
<1>4. C!Reach = T!Reach
  BY DEF C!Reach, T!Reach
<1>5. C!ComponentsExact <=> T!ComponentsExact
  BY <1>3, <1>4 DEF C!ComponentsExact, T!ComponentsExact, C!ToSet, T!ToSet
<1>c. \A S : C!Cardinality(S) = T!Cardinality(S)
  BY DEF C!Cardinality, T!Cardinality
<1>6. \A r, c : C!UnresolvedLoop(r, c) <=> T!UnresolvedLoop(r, c)
  BY <1>c DEF C!UnresolvedLoop, T!UnresolvedLoop, C!PersistentSCCs, T!PersistentSCCs, C!IsPersistentSCC, T!IsPersistentSCC,
         C!Resolved, T!Resolved, C!ToSet, T!ToSet
<1>7. C!Traps = T!Traps
  BY <1>4 DEF C!Traps, T!Traps, C!Successors, T!Successors
<1> QED BY <1>1, <1>2, <1>3, <1>5, <1>6, <1>7

LEMMA SolveStutters ==
  ASSUME SolveInv, UNCHANGED <<graph, equations>>
  PROVE  SolveInv'
<1>1. /\ graph' = graph /\ points' = points /\ initial' = initial
      /\ out' = out /\ processed' = processed /\ queue' = queue
  BY DEF equations
<1>2. /\ D!Reached' = D!Reached /\ D!Sources' = D!Sources
      /\ \A b : D!Successors(b)' = D!Successors(b) /\ D!Carried(b)' = D!Carried(b)
      /\ \A b, i : D!Transfer(b, i)' = D!Transfer(b, i)
  BY <1>1, SolveArguments
<1>3. \A b : Joined(out, b)' = Joined(out, b)
  BY <1>1 DEF Joined, D!Predecessors
<1>4. SolveShape'
  BY <1>1, <1>2 DEF SolveInv, SolveShape
<1> QED BY <1>1, <1>2, <1>3, <1>4 DEF SolveInv

LEMMA TarjanKeepsGraph ==
  ASSUME T!Next
  PROVE  graph' = graph
BY DEF T!Next, T!Root, T!Descend, T!BackOrCross, T!Return, T!Enter

(* While nothing happens to the graph and its components, what has been    *)
(* found about them stays.                                                 *)
LEMMA ComponentsStutter ==
  ASSUME UNCHANGED components
  PROVE  /\ T!TarjanInv => T!TarjanInv'
         /\ T!Done => T!Done'
         /\ graph' = graph
         /\ \A b : T!From(b)' = T!From(b)
<1>1. UNCHANGED T!vars /\ graph' = graph
  BY DEF components, T!vars
<1>2. T!TarjanInv => T!TarjanInv'
  BY <1>1, T!TarjanStutters
<1>3. T!Done => T!Done'
  BY DEF components, T!Done, T!Unvisited
<1>4. \A b : T!From(b)' = T!From(b)
  BY <1>1, T!FromSame
<1> QED BY <1>1, <1>2, <1>3, <1>4

LEMMA AnalysesStart == AnalysesInit => AnalysesInv
<1> SUFFICES ASSUME AnalysesInit PROVE AnalysesInv
  OBVIOUS
<1>1. CASE phase = "search" /\ Init
  BY <1>1, InitSearch DEF AnalysesInv
<1>2. NoSearch => SearchInv
  <2> SUFFICES ASSUME NoSearch PROVE SearchInv
    OBVIOUS
  <2>1. edges = {} /\ start = Entry /\ avoid = {} /\ skip = {} /\ stack = {} /\ seen = {Entry}
    BY DEF NoSearch
  <2>2. TypeOK
    BY <2>1, BlocksAssumption DEF TypeOK
  <2> QED BY <2>1, <2>2 DEF SearchInv, Ways
<1>3. CASE phase = "solve" /\ NoSearch /\ (\E q \in Equations : graph = q.graph /\ points = q.points /\ initial = q.initial)
             /\ D!SolveInit
  <2>1. SolveInv
    BY <1>3, EquationsAssumption, SolveStarts
  <2> QED BY <1>2, <1>3, <2>1 DEF AnalysesInv
<1>4. CASE phase = "components" /\ NoSearch /\ C!Init
  <2>1. graph \in LoopCFGs
    BY <1>4 DEF C!Init
  <2>2. T!Init
    BY <1>4, SameTarjan
  <2>3. T!TarjanInv
    BY <2>2, LoopCFGsAssumption, T!TarjanStarts
  <2> QED BY <1>2, <1>4, <2>1, <2>3, LoopCFGsAssumption DEF AnalysesInv
<1> QED BY <1>1, <1>3, <1>4 DEF AnalysesInit

LEMMA AnalysesKeep == AnalysesInv /\ [AnalysesNext]_all => AnalysesInv'
<1> SUFFICES ASSUME AnalysesInv, [AnalysesNext]_all PROVE AnalysesInv'
  OBVIOUS
<1>s. SearchInv
  BY DEF AnalysesInv
<1>u. UNCHANGED vars => SearchInv' /\ edges' = edges /\ start' = start /\ avoid' = avoid /\ skip' = skip
  BY <1>s, StepSearch DEF vars
<1>1. CASE Search
  <2>1. SearchInv' /\ edges' = edges /\ start' = start /\ avoid' = avoid /\ skip' = skip
    BY <1>1, <1>s, StepSearch DEF Search, Next, Visit, arguments
  <2>2. UNCHANGED components /\ UNCHANGED answers /\ phase' # "solve"
    BY <1>1 DEF Search, answers
  <2>3. phase' = phase /\ reachable' = reachable /\ canExit' = canExit
    BY <2>2 DEF answers
  <2> QED BY <2>1, <2>2, <2>3, ComponentsStutter DEF AnalysesInv
<1>2. CASE Solve
  <2>1. UNCHANGED vars /\ phase = "solve" /\ phase' = phase /\ SolveInv
    BY <1>2 DEF Solve, answers, AnalysesInv
  <2>2. SolveInv'
    BY <1>2, <2>1, SolveStepKeeps DEF Solve, D!SolveNext
  <2> QED BY <2>1, <2>2, <1>u DEF AnalysesInv
<1>3. CASE Components
  <2>1. UNCHANGED vars /\ phase = "components" /\ phase' = phase
    BY <1>3 DEF Components, answers
  <2>2. T!Next /\ T!TarjanInv /\ \A e \in graph : e[1] # Exit
    BY <1>3, <2>1, SameTarjan DEF Components, AnalysesInv
  <2>3. T!TarjanInv' /\ graph' = graph
    BY <2>2, T!TarjanStep, TarjanKeepsGraph
  <2> QED BY <2>1, <2>2, <2>3, <1>u DEF AnalysesInv
<1>4. CASE AskForward
  <2>1. /\ phase = "components" /\ phase' = "forward" /\ T!Done /\ UNCHANGED components
        /\ edges' = Straight(graph) /\ start' = Entry /\ avoid' = {} /\ skip' = {} /\ stack' = {Entry} /\ seen' = {Entry}
    BY <1>4, SameTarjan DEF AskForward, Ask
  <2>2. T!TarjanInv /\ graph \subseteq Blocks \X Blocks /\ \A e \in graph : e[1] # Exit
    BY <2>1 DEF AnalysesInv, T!TarjanInv, T!Shape
  <2>3. Straight(graph) \subseteq Edge
    BY <2>2, BlocksAssumption DEF Straight, Edge
  <2>4. SearchInv'
    BY <2>1, <2>3, BlocksAssumption DEF SearchInv, TypeOK, Closed, Ways
  <2>5. graph' = graph /\ Straight(graph)' = Straight(graph)
    BY <2>1, ComponentsStutter DEF Straight
  <2> QED BY <2>1, <2>2, <2>4, <2>5, ComponentsStutter DEF AnalysesInv
<1>5. CASE AskBackward
  <2>1. /\ phase = "forward" /\ phase' = "backward" /\ UNCHANGED components /\ stack = {} /\ reachable' = seen
        /\ edges' = TurnedRound(graph) /\ start' = Exit /\ avoid' = {} /\ skip' = {} /\ stack' = {Exit} /\ seen' = {Exit}
    BY <1>5 DEF AskBackward, Ask
  <2>2. T!TarjanInv /\ T!Done /\ graph \subseteq Blocks \X Blocks /\ \A e \in graph : e[1] # Exit
    BY <2>1 DEF AnalysesInv, T!TarjanInv, T!Shape
  <2>3. TurnedRound(graph) \subseteq Edge
    BY <2>2, BlocksAssumption DEF TurnedRound, Edge
  <2>4. SearchInv'
    BY <2>1, <2>3, BlocksAssumption DEF SearchInv, TypeOK, Closed, Ways
  <2>5. reachable' = T!From(Entry)
    BY <2>1, <2>2, <1>s, ForwardAnswer DEF AnalysesInv
  <2>6. graph' = graph /\ TurnedRound(graph)' = TurnedRound(graph) /\ T!From(Entry)' = T!From(Entry)
    BY <2>1, ComponentsStutter DEF TurnedRound
  <2> QED BY <2>1, <2>2, <2>4, <2>5, <2>6, ComponentsStutter DEF AnalysesInv
<1>6. CASE Judge
  <2>1. /\ phase = "backward" /\ phase' = "judged" /\ UNCHANGED components /\ UNCHANGED vars
        /\ stack = {} /\ canExit' = seen /\ reachable' = reachable
    BY <1>6 DEF Judge
  <2>2. T!TarjanInv /\ T!Done /\ graph \subseteq Blocks \X Blocks /\ \A e \in graph : e[1] # Exit
    BY <2>1 DEF AnalysesInv, T!TarjanInv, T!Shape
  <2>3. canExit' = {b \in Blocks : Exit \in T!From(b)}
    BY <2>1, <2>2, <1>s, BackwardAnswer DEF AnalysesInv
  <2>4. graph' = graph /\ \A b : T!From(b)' = T!From(b)
    BY <2>1, ComponentsStutter
  <2>5. reachable' = T!From(Entry)
    BY <2>1 DEF AnalysesInv
  <2> QED BY <2>1, <2>2, <2>3, <2>4, <2>5, <1>u, ComponentsStutter DEF AnalysesInv
<1>7. CASE UNCHANGED all
  <2>1. /\ UNCHANGED vars /\ UNCHANGED components /\ UNCHANGED <<graph, equations>>
        /\ phase' = phase /\ reachable' = reachable /\ canExit' = canExit
    BY <1>7 DEF all, answers, components
  <2>2. SolveInv => SolveInv'
    BY <2>1, SolveStutters
  <2>3. graph' = graph /\ \A b : T!From(b)' = T!From(b)
    BY <2>1, ComponentsStutter
  <2>4. Straight(graph)' = Straight(graph) /\ TurnedRound(graph)' = TurnedRound(graph)
    BY <2>3 DEF Straight, TurnedRound
  <2> QED BY <2>1, <2>2, <2>3, <2>4, <1>u, ComponentsStutter DEF AnalysesInv
<1> QED BY <1>1, <1>2, <1>3, <1>4, <1>5, <1>6, <1>7 DEF AnalysesNext

LEMMA AnalysesInvariant == AnalysesSpec => []AnalysesInv
BY AnalysesStart, AnalysesKeep, PTL DEF AnalysesSpec

(* The search answers exactly, whoever asks: the verdict or another rule.  *)
THEOREM SearchesCorrect == AnalysesSpec => []SearchIsExact
<1>1. AnalysesInv => SearchIsExact
  BY SearchInvExact DEF AnalysesInv
<1> QED BY AnalysesInvariant, <1>1, PTL

(* Tarjan's algorithm (model.go:349) emits whole components and each once, *)
(* in whatever order it takes the successors.                              *)
THEOREM ComponentsCorrect == AnalysesSpec => []ComponentsExact
<1>1. AnalysesInv => ComponentsExact
  BY T!TarjanIsExact, SameTarjan DEF AnalysesInv, ComponentsExact
<1> QED BY AnalysesInvariant, <1>1, PTL

(* UnresolvedLoop (cfg_verdict.go:86) fires exactly where a goroutine can  *)
(* get into a loop that no path leaves for the exit.                       *)
THEOREM VerdictCorrect == AnalysesSpec => []VerdictIsTrap
<1>1. AnalysesInv => VerdictIsTrap
  <2> SUFFICES ASSUME AnalysesInv, phase = "judged"
               PROVE  C!UnresolvedLoop(reachable, canExit) <=> C!Traps # {}
    BY DEF VerdictIsTrap
  <2>1. /\ T!TarjanInv /\ T!Done /\ \A e \in graph : e[1] # Exit
        /\ reachable = T!From(Entry) /\ canExit = {b \in Blocks : Exit \in T!From(b)}
    BY DEF AnalysesInv
  <2>2. T!IsFiniteSet(Blocks) /\ Entry \in Blocks /\ Exit \in Blocks
    BY BlocksAssumption DEF IsFiniteSet, T!IsFiniteSet
  <2>3. T!UnresolvedLoop(T!From(Entry), {b \in Blocks : Exit \in T!From(b)}) <=> T!Traps # {}
    BY <2>1, <2>2, T!UnresolvedIsTrap
  <2> QED BY <2>1, <2>3, SameTarjan
<1> QED BY AnalysesInvariant, <1>1, PTL

(* Solve (dataflow.go:23) gives each block the join over its paths, loops  *)
(* and dead code included, in whatever order the queue is taken.           *)
THEOREM SolveCorrect == AnalysesSpec => []SolveIsExact
<1>1. AnalysesInv => SolveIsExact
  BY SolveInvExact DEF AnalysesInv, SolveIsExact
<1> QED BY AnalysesInvariant, <1>1, PTL
=============================================================================
