----------------------------- MODULE LoopVerdict -----------------------------
(***************************************************************************)
(* Rule LL1002: can the goroutine get into a loop it cannot leave?         *)
(*                                                                         *)
(* UnresolvedLoop of internal/engine/cfg_verdict.go judges the strongly    *)
(* connected components that CFG.SCCs of internal/model/model.go computes  *)
(* with Tarjan's algorithm.  The algorithm is a state machine here, one    *)
(* action per piece of strongConnect, with the recursion as an explicit    *)
(* stack of calls; successors are taken in any order.  What Reachable and  *)
(* CanReach answer is the business of GraphSearch; the verdict takes their *)
(* answers as arguments, and GraphAnalyses puts the three together.        *)
(***************************************************************************)
EXTENDS Integers, Sequences, FiniteSets, SequencesExt

CONSTANTS Blocks,       \* the block IDs, which are numbers
          Entry, Exit,
          CFGs          \* the graphs to consider: sets of pairs <<from, to>>, of which
                        \* none enters Entry and none leaves Exit

VARIABLES edges,
          index, low,   \* per block; -1 before strongConnect
          counter,      \* the next index
          stack,        \* blocks whose component is not known yet
          calls,        \* the open calls of strongConnect, innermost last
          result        \* the components found so far, in order

vars == <<edges, index, low, counter, stack, calls, result>>

Unvisited == {v \in Blocks : index[v] = -1}
OnStack(w) == w \in ToSet(stack)
Successors(v) == {e[2] : e \in {x \in edges : x[1] = v}}
Lower(a, b) == IF a < b THEN a ELSE b

Init == /\ edges \in CFGs
        /\ index = [v \in Blocks |-> -1]
        /\ low = [v \in Blocks |-> -1]
        /\ counter = 0
        /\ stack = <<>>
        /\ calls = <<>>
        /\ result = <<>>

-----------------------------------------------------------------------------

\* A call of strongConnect(v), on top of the open calls cs.
Enter(v, cs) ==
  /\ index' = [index EXCEPT ![v] = counter]
  /\ low' = [low EXCEPT ![v] = counter]
  /\ counter' = counter + 1
  /\ stack' = Append(stack, v)
  /\ calls' = Append(cs, [block |-> v, left |-> Successors(v)])
  /\ UNCHANGED <<edges, result>>

\* The loop over all blocks: each one that no earlier call has visited.
Root(v) ==
  /\ calls = <<>>
  /\ v \in Unvisited
  /\ \A u \in Unvisited : v <= u
  /\ Enter(v, <<>>)

\* The innermost call, once it has dealt with its successor w.
WithoutWay(w) == Front(calls) \o <<[Last(calls) EXCEPT !.left = @ \ {w}]>>

Descend(w) ==
  /\ calls # <<>>
  /\ w \in Last(calls).left
  /\ w \in Unvisited
  /\ Enter(w, WithoutWay(w))

\* Mutant of BackOrCross: a block of a finished component counts too.
CrossCounts(w) ==
  /\ calls # <<>>
  /\ w \in Last(calls).left
  /\ w \notin Unvisited
  /\ low' = [low EXCEPT ![Last(calls).block] = Lower(@, index[w])]
  /\ calls' = WithoutWay(w)
  /\ UNCHANGED <<edges, index, counter, stack, result>>

\* A successor that has an index: it counts only while it is on the stack.
BackOrCross(w) ==
  /\ calls # <<>>
  /\ w \in Last(calls).left
  /\ w \notin Unvisited
  /\ low' = [low EXCEPT ![Last(calls).block] = IF OnStack(w) THEN Lower(@, index[w]) ELSE @]
  /\ calls' = WithoutWay(w)
  /\ UNCHANGED <<edges, index, counter, stack, result>>

\* Everything above v on the stack, and v, is one component.
Pop(v) ==
  LET at == CHOOSE i \in DOMAIN stack : stack[i] = v
  IN  /\ result' = Append(result, {stack[i] : i \in at..Len(stack)})
      /\ stack' = SubSeq(stack, 1, at - 1)

\* The innermost call has no successor left; its caller takes over its low.
Return ==
  /\ calls # <<>>
  /\ Last(calls).left = {}
  /\ LET v == Last(calls).block
     IN  /\ calls' = Front(calls)
         /\ low' = IF Len(calls) = 1 THEN low
                   ELSE [low EXCEPT ![Last(Front(calls)).block] = Lower(@, low[v])]
         /\ IF low[v] = index[v] THEN Pop(v) ELSE UNCHANGED <<stack, result>>
  /\ UNCHANGED <<edges, index, counter>>

Next == \/ \E v \in Blocks : Root(v)
        \/ \E w \in Blocks : Descend(w)
        \/ \E w \in Blocks : BackOrCross(w)
        \/ Return

Done == calls = <<>> /\ Unvisited = {}

-----------------------------------------------------------------------------

\* A component with a cycle: two blocks, or one with an edge to itself.
IsPersistentSCC(scc) == Cardinality(scc) > 1 \/ \E v \in scc : <<v, v>> \in edges

\* Mutant of Resolved: any edge to a block that can exit will do for all the components.
ResolvedAnywhere(scc, canExit) == \E e \in edges : e[1] # Entry /\ e[2] \in canExit

\* An edge leaves the component for a block from which Exit can be reached.
Resolved(scc, canExit) == LET out == {e[2] : e \in {x \in edges : x[1] \in scc}} \ scc
                          IN  out \cap canExit # {}

\* The cyclic components that Entry reaches.
PersistentSCCs(reachable) == {scc \in ToSet(result) : IsPersistentSCC(scc) /\ scc \cap reachable # {}}

\* The verdict, from the answers of Reachable(Entry) and CanReach(Exit).
UnresolvedLoop(reachable, canExit) == \E scc \in PersistentSCCs(reachable) : ~Resolved(scc, canExit)

-----------------------------------------------------------------------------

(* What a block can reach, itself included, without the algorithm.         *)
Reach == LET closed == {S \in SUBSET Blocks : \A e \in edges : e[1] \in S => e[2] \in S}
         IN  [b \in Blocks |-> CHOOSE S \in closed : b \in S /\ \A R \in closed : b \in R => S \subseteq R]

(* A component is emitted whole and once, also while the algorithm runs:   *)
(* it is the set of blocks that a block of it reaches and is reached from. *)
ComponentsExact ==
  result # <<>> =>
    /\ LET reach == Reach
       IN  \A C \in ToSet(result) : \A b \in C : C = {c \in reach[b] : b \in reach[c]}
    /\ \A i, j \in DOMAIN result : i # j => result[i] \cap result[j] = {}
    /\ Done => UNION ToSet(result) = Blocks

(* The blocks that Entry reaches, that lie on a cycle and from which no    *)
(* path leads to Exit: a goroutine that gets there never ends.             *)
Traps == LET reach == Reach
         IN  {b \in reach[Entry] : Exit \notin reach[b] /\ \E w \in Successors(b) : b \in reach[w]}
=============================================================================
