----------------------------- MODULE GraphSearch -----------------------------
(***************************************************************************)
(* The search behind every path question of the analysis:                  *)
(* CFG.ReachableAvoidingEdges of internal/model/model.go.  Reachable is    *)
(* the case with nothing to avoid or skip, and CanReach the same search    *)
(* with every edge turned round.                                           *)
(*                                                                         *)
(* Two blocks may be joined by several edges of different kinds, and a     *)
(* caller may skip one of them and not the other.  The stack is a set      *)
(* here: a block is pushed at most once, and the answer must not depend on *)
(* the order in which blocks are popped.                                   *)
(***************************************************************************)
CONSTANTS Blocks,   \* the block IDs of a graph
          Kinds,    \* edge kinds
          CFGs      \* the graphs to consider, as sets of edges

Edge == [from: Blocks, to: Blocks, kind: Kinds]

ASSUME CFGsAssumption == CFGs \subseteq SUBSET Edge

VARIABLES edges,  \* the graph
          start, avoid, skip,  \* the arguments
          stack, seen

arguments == <<edges, start, avoid, skip>>
vars == <<edges, start, avoid, skip, stack, seen>>

TypeOK == /\ edges \in SUBSET Edge
          /\ start \in Blocks
          /\ avoid \subseteq Blocks
          /\ skip \subseteq edges
          /\ seen \subseteq Blocks \ avoid
          /\ stack \subseteq seen

Init == /\ edges \in CFGs
        /\ start \in Blocks
        /\ avoid \in SUBSET Blocks
        /\ skip \in SUBSET edges
        /\ seen = {start} \ avoid
        /\ stack = seen

\* Mutant of Ways: a block of avoid is one to stop at, and not one to stay out of.
WaysIntoAvoid(b) == IF b \in avoid THEN {} ELSE {e.to : e \in {x \in edges \ skip : x.from = b}}

\* Where the search may go on from a block.
Ways(b) == {e.to : e \in {x \in edges \ skip : x.from = b}} \ avoid

\* One turn of the loop: pop a block and push those of its ways that are new.
Visit(id) ==
  /\ id \in stack
  /\ seen' = seen \cup Ways(id)
  /\ stack' = (stack \ {id}) \cup (Ways(id) \ seen)
  /\ UNCHANGED arguments

Next == \E id \in Blocks : Visit(id)

Spec == Init /\ [][Next]_vars /\ WF_vars(Next)

-----------------------------------------------------------------------------

\* A set that no path leaves without entering avoid or following a skipped edge.
Closed(S) == \A e \in edges \ skip : e.from \in S /\ e.to \notin avoid => e.to \in S

\* The least closed set around the start; nothing if the start is to be avoided.
ReachableAvoiding ==
  {b \in Blocks : start \notin avoid
                  /\ \A S \in SUBSET Blocks : (start \in S /\ Closed(S)) => b \in S}

(* When the stack is empty the answer is exact.  Both halves matter: a     *)
(* block too many hides a leak ("Wait is passed on every path"), a block   *)
(* too few reports one that is not there.                                  *)
SearchIsExact == stack = {} => seen = ReachableAvoiding
=============================================================================
