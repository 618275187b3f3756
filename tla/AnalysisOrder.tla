---------------------------- MODULE AnalysisOrder ----------------------------
(***************************************************************************)
(* What a standalone run promises about its packages, with no workers,     *)
(* queues or waves: a package is begun only after every package it needs   *)
(* has been settled, a settled package stays settled, and the run is       *)
(* called whole only if nothing is left.  docs/architecture.md, section    *)
(* "Standalone loading", states the promise; StandaloneRun implements it.  *)
(***************************************************************************)
VARIABLES need,     \* need[u]: the packages whose summaries u must find
          begun,    \* packages whose sources have been looked at
          settled,  \* packages summarised, or excluded as a whole
          verdict   \* how the run ended

vars == <<need, begun, settled, verdict>>

Verdicts == {"whole", "cut", "rejected"}

Init == begun = {} /\ settled = {} /\ verdict = "running"

Begin(u) == /\ verdict = "running"
            /\ u \in DOMAIN need \ begun
            /\ need[u] \subseteq settled
            /\ begun' = begun \cup {u}
            /\ UNCHANGED <<need, settled, verdict>>

Settle(u) == /\ verdict = "running"
             /\ u \in begun \ settled
             /\ settled' = settled \cup {u}
             /\ UNCHANGED <<need, begun, verdict>>

Conclude(v) == /\ verdict = "running"
               /\ v = "whole" => settled = DOMAIN need
               /\ verdict' = v
               /\ UNCHANGED <<need, begun, settled>>

Next == \/ \E u \in DOMAIN need : Begin(u) \/ Settle(u)
        \/ \E v \in Verdicts : Conclude(v)

Spec == Init /\ [][Next]_vars
=============================================================================
