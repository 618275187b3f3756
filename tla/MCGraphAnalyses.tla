--------------------------- MODULE MCGraphAnalyses ---------------------------
(***************************************************************************)
(* The numbers are those of the builder: Entry is 0 and Exit is 1.         *)
(*                                                                         *)
(* Searches: every graph of three blocks without self-loops, with a second *)
(* edge between two of them; self-loops cannot matter to a search.  Loops: *)
(* Entry, Exit and three blocks between them with every combination of     *)
(* edges, a self-loop at block 4 excepted; Entry leads to block 2 only,    *)
(* and blocks 3 and 4 may be dead code.  Equations: four blocks with every *)
(* combination of edges between the last three, and points anywhere there. *)
(***************************************************************************)
EXTENDS GraphAnalyses

MCBlocks == 0..4
MCKinds == {"normal", "false"}
Few == 0..2
Simple == {e \in [from: Few, to: Few, kind: {"normal"}] : e.from # e.to}
MCCFGs == SUBSET (Simple \cup {[from |-> 0, to |-> 1, kind |-> "false"]})

Body == MCBlocks \ {0, 1}
Ways4 == (Body \X (MCBlocks \ {0})) \ {<<4, 4>>}
MCLoopCFGs == {{<<0, 2>>} \cup g : g \in SUBSET Ways4}

MCEquations ==
  {[graph |-> {<<0, 1>>} \cup g, points |-> [b \in MCBlocks |-> IF b \in at THEN {2} ELSE {}], initial |-> i] :
     g \in SUBSET ((1..3) \X (1..3)), at \in SUBSET (1..3), i \in {0, 1}}

\* A search begins, and avoids blocks, among the three that have edges.
MCInit == AnalysesInit /\ (phase = "search" => start \in Few /\ avoid \subseteq Few)
MCSpec == MCInit /\ [][AnalysesNext]_all
=============================================================================
