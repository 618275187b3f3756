---------------------------- MODULE DataflowSolve ----------------------------
(***************************************************************************)
(* The worklist solver model.Solve with the lattices that                  *)
(* internal/engine/dataflow_lattices.go gives it: values are numbers, join *)
(* is the larger one, and a block either passes its input on or is a point *)
(* that puts a value of its own there (pointTransfer).  The queue is a set *)
(* here: the answer must not depend on the order of the blocks.            *)
(***************************************************************************)
EXTENDS Naturals, FiniteSetsExt

CONSTANTS Blocks, Entry,
          Values       \* a set of numbers that holds bottom, which is 0

VARIABLES edges,       \* pairs of blocks
          points,      \* per block, the value that it puts there, if any
          initial,     \* the state before Entry
          out, processed, queue

Bottom == 0

Predecessors(b) == {e[1] : e \in {x \in edges : x[2] = b}}
Successors(b) == {e[2] : e \in {x \in edges : x[1] = b}}

\* pointTransfer
Transfer(b, in) == IF points[b] = {} THEN in ELSE Max(points[b])

\* The state before a block: initial at Entry, else the join over its predecessors.
In(b) == IF b = Entry THEN initial ELSE Max({Bottom} \cup {out[p] : p \in Predecessors(b)})

SolveInit == /\ out = [b \in Blocks |-> Bottom]
             /\ processed = {}
             /\ queue = {Entry}

\* Mutant of SolveStep: a block whose state is still bottom has nothing to pass on.
SolveStepIfNews(b) ==
  /\ b \in queue
  /\ LET next == Transfer(b, In(b))
     IN  /\ out' = [out EXCEPT ![b] = next]
         /\ queue' = (queue \ {b}) \cup (IF next # out[b] THEN Successors(b) ELSE {})
  /\ processed' = processed \cup {b}
  /\ UNCHANGED <<edges, points, initial>>

\* One turn of the loop: a block passes on what it has when it has changed, and in any
\* case the first time.
SolveStep(b) ==
  /\ b \in queue
  /\ LET next == Transfer(b, In(b))
         changed == b \notin processed \/ next # out[b]
     IN  /\ out' = [out EXCEPT ![b] = next]
         /\ queue' = (queue \ {b}) \cup (IF changed THEN Successors(b) ELSE {})
  /\ processed' = processed \cup {b}
  /\ UNCHANGED <<edges, points, initial>>

SolveNext == \E b \in Blocks : SolveStep(b)

-----------------------------------------------------------------------------
\* The reference: what the paths from Entry carry.

\* The blocks reached from a by blocks that pass their input on; a point stops them.
Carried(a) ==
  {b \in Blocks : \A S \in SUBSET Blocks :
     (a \in S /\ \A e \in edges : e[1] \in S /\ points[e[2]] = {} => e[2] \in S) => b \in S}
Reached ==
  {b \in Blocks : \A S \in SUBSET Blocks :
     (Entry \in S /\ \A e \in edges : e[1] \in S => e[2] \in S) => b \in S}

\* Where a value comes from: the state before Entry, and every point that is reached.
Sources == {<<Entry, Transfer(Entry, initial)>>} \cup {<<b, Max(points[b])>> : b \in {c \in Reached : points[c] # {}}}

PathJoin(b) == Max({Bottom} \cup {s[2] : s \in {x \in Sources : b \in Carried(x[1])}})

(***************************************************************************)
(* SolveIsExact: when the queue is empty every block has the join over all *)
(* paths to it, through loops too, and dead code has bottom                *)
(* (dataflow.go:10: not a single forward pass).                            *)
(***************************************************************************)
SolveIsExact == queue = {} => \A b \in Blocks : out[b] = PathJoin(b)
=============================================================================
