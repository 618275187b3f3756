---------------------------- MODULE GraphAnalyses ----------------------------
(***************************************************************************)
(* The algorithms that run on a control flow graph, and the verdict of     *)
(* rule LL1002 put together from them: UnresolvedLoop asks for the         *)
(* components (LoopVerdict), then searches forward from Entry and backward *)
(* from Exit (GraphSearch).  A search may also be asked for by itself,     *)
(* with blocks to avoid and edges to skip, and so may a solution of the    *)
(* data flow equations (DataflowSolve).                                    *)
(***************************************************************************)
EXTENDS GraphSearch, Integers, FiniteSets

CONSTANTS Entry, Exit,
          LoopCFGs,       \* the graphs whose loops are judged
          Equations,      \* what the solver is given: graph, points, initial
          Values

ASSUME BlocksAssumption == /\ IsFiniteSet(Blocks) /\ Entry \in Blocks /\ Exit \in Blocks
                           /\ "normal" \in Kinds

\* The builder lets nothing leave Exit and nothing come back to Entry.
ASSUME LoopCFGsAssumption == /\ LoopCFGs \subseteq SUBSET (Blocks \X Blocks)
                             /\ \A g \in LoopCFGs : \A e \in g : e[1] # Exit
ASSUME EquationsAssumption == /\ Values \subseteq Nat /\ IsFiniteSet(Values) /\ 0 \in Values
                              /\ \A q \in Equations : /\ q.graph \subseteq Blocks \X Blocks
                                                      /\ \A e \in q.graph : e[2] # Entry
                                                      /\ q.points \in [Blocks -> SUBSET Values]
                                                      /\ q.initial \in Values

VARIABLES graph,                                   \* as pairs
          index, low, counter, open, calls, result,
          points, initial, out, processed, queue,
          phase, reachable, canExit

Pairs(g) == {<<e.from, e.to>> : e \in g}
Straight(g) == {[from |-> e[1], to |-> e[2], kind |-> "normal"] : e \in g}
TurnedRound(g) == {[from |-> e[2], to |-> e[1], kind |-> "normal"] : e \in g}

C == INSTANCE LoopVerdict WITH CFGs <- LoopCFGs, edges <- graph, stack <- open
D == INSTANCE DataflowSolve WITH edges <- graph

components == <<graph, index, low, counter, open, calls, result>>
equations == <<points, initial, out, processed, queue>>
answers == <<phase, reachable, canExit>>
all == <<vars, components, equations, answers>>

NoSearch == edges = {} /\ start = Entry /\ avoid = {} /\ skip = {} /\ stack = {} /\ seen = {Entry}
NoEquations == /\ points = [b \in Blocks |-> {}] /\ initial = 0
               /\ out = [b \in Blocks |-> 0] /\ processed = {} /\ queue = {}
NoComponents == /\ index = [b \in Blocks |-> -1] /\ low = [b \in Blocks |-> -1] /\ counter = 0
                /\ open = <<>> /\ calls = <<>> /\ result = <<>>

\* A search by itself, a system of equations, or the loops of a graph.
AnalysesInit ==
  /\ reachable = {} /\ canExit = {}
  /\ \/ phase = "search" /\ Init /\ graph = {} /\ NoComponents /\ NoEquations
     \/ /\ phase = "solve" /\ NoSearch /\ NoComponents
        /\ \E q \in Equations : graph = q.graph /\ points = q.points /\ initial = q.initial
        /\ D!SolveInit
     \/ phase = "components" /\ NoSearch /\ NoEquations /\ C!Init

Search == /\ phase \in {"search", "forward", "backward"} /\ Next
          /\ UNCHANGED <<components, equations, answers>>

Solve == /\ phase = "solve" /\ D!SolveNext
         /\ UNCHANGED <<vars, index, low, counter, open, calls, result, answers>>

Components == /\ phase = "components" /\ C!Next
              /\ UNCHANGED <<vars, equations, answers>>

\* A search that UnresolvedLoop asks for, over the edges g from block b.
Ask(g, b) == /\ edges' = g /\ start' = b /\ avoid' = {} /\ skip' = {}
             /\ stack' = {b} /\ seen' = {b}

\* Reachable(Entry), once the components are there.
AskForward == /\ phase = "components" /\ C!Done
              /\ phase' = "forward" /\ Ask(Straight(graph), Entry)
              /\ UNCHANGED <<components, equations, reachable, canExit>>

\* CanReach(Exit)
AskBackward == /\ phase = "forward" /\ stack = {}
               /\ phase' = "backward" /\ reachable' = seen
               /\ Ask(TurnedRound(graph), Exit)
               /\ UNCHANGED <<components, equations, canExit>>

Judge == /\ phase = "backward" /\ stack = {}
         /\ phase' = "judged" /\ canExit' = seen
         /\ UNCHANGED <<vars, components, equations, reachable>>

AnalysesNext == Search \/ Solve \/ Components \/ AskForward \/ AskBackward \/ Judge

AnalysesSpec == AnalysesInit /\ [][AnalysesNext]_all

-----------------------------------------------------------------------------

(* Each component is emitted whole and once, also while the algorithm runs *)
(* (model.go:367).                                                         *)
ComponentsExact == phase = "components" => C!ComponentsExact

(* The rule fires for exactly the goroutines that can get to a block which *)
(* lies on a cycle and from which no path leads to Exit, whatever else the *)
(* body does: another loop that can be left changes nothing                *)
(* (cfg_verdict.go:52).                                                    *)
VerdictIsTrap == phase = "judged" => (C!UnresolvedLoop(reachable, canExit) <=> C!Traps # {})

(* Every block has the join over all paths to it (dataflow.go:24).         *)
SolveIsExact == phase = "solve" => D!SolveIsExact
=============================================================================
