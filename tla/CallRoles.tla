----------------------------- MODULE CallRoles -----------------------------
(***************************************************************************)
(* Call statements with a role: what the call is to the cancel function or *)
(* the group that is looked at, its act.  One that is the call of a defer  *)
(* statement is deferred.  The calls are numbered in source order.         *)
(***************************************************************************)
EXTENDS CfgExecution

RECURSIVE StmtsOf(_)
StmtsOf(list) ==
  UNION {{s} \cup UNION {StmtsOf(p) : p \in ToSet(Parts(s))} : s \in ToSet(list)}

IdsIn(s) == {x.id : x \in {y \in StmtsOf(<<s>>) : "id" \in DOMAIN y}}

Act(s) == IF "act" \in DOMAIN s THEN s.act ELSE "none"
CallsOf(p, acts) == {s \in StmtsOf(p) : Act(s) \in acts}
=============================================================================
