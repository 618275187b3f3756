--------------------------- MODULE MCRunStatus ---------------------------
(***************************************************************************)
(* Two packages: "a" with one or two declarations, of which the first      *)
(* holds one literal, and "b" with one declaration.  One binding of every  *)
(* kind and outcome is put in each place that matters, with the callers,   *)
(* comments, bounds and configurations that change what is said of it.     *)
(***************************************************************************)
EXTENDS RunStatus

Base == [id |-> 1, kind |-> "cancel", at |-> 1, decl |-> 1, done |-> "all", escapes |-> FALSE,
         sites |-> {}, fault |-> FALSE, late |-> FALSE, body |-> "stops", hush |-> {}, checked |-> FALSE]

Cancels == {[Base EXCEPT !.done = d, !.escapes = e] : d \in Outcomes, e \in BOOLEAN}
Groups == {[Base EXCEPT !.kind = "group", !.done = d, !.escapes = e, !.fault = f, !.late = l] :
             d \in Outcomes, e \in BOOLEAN, f \in BOOLEAN, l \in BOOLEAN}
Goroutines == {[Base EXCEPT !.kind = "goroutine", !.body = x] : x \in {"closed", "stuck", "stops"}}

Everything == Cancels \cup Groups \cup Goroutines
Quiet == {[Base EXCEPT !.done = d, !.hush = {"LL1001"}] : d \in Outcomes}
           \cup {[Base EXCEPT !.kind = "group", !.done = d, !.fault = TRUE, !.late = TRUE, !.hush = {"LL1003"}] : d \in Outcomes}

\* In the literal of the first declaration, number 3 of package "a".
InLiteral == {[b EXCEPT !.at = 3] : b \in Goroutines \cup {c \in Cancels : ~c.escapes}}

\* Returned to one or two calls in the second declaration, some of which cannot be
\* followed.
Call(d) == [in |-> 2, does |-> d, hush |-> {}]
Unfollowed == {{Call(d), Call("unverified")} : d \in {"never", "some", "all"}}
Callers ==
  {{Call(d)} : d \in {"never", "some", "all", "unverified"}}
    \cup {{[Call(d) EXCEPT !.hush = {"LL1001"}]} : d \in {"never", "some"}}
    \cup {{Call("all"), Call("never")}} \cup Unfollowed
Makers == {c \in Cancels \cup Groups : ~c.escapes /\ ~c.late}
Returned == {[b EXCEPT !.sites = S] : b \in Makers, S \in Callers}
Escaping == {[b EXCEPT !.escapes = TRUE] : b \in Returned}

Settings ==
  [ignore : {{}, {"LL1001", "LL9001"}}, failOn : {{"LL1003"}, {"all"}},
   failOnIncomplete : BOOLEAN, failOnUnsupported : BOOLEAN]
Strict == {[ignore |-> i, failOn |-> {"all"}, failOnIncomplete |-> TRUE, failOnUnsupported |-> TRUE] :
             i \in {{}, {"LL9001"}}}

Make(driver, literals, max, in_a, in_b, set) ==
  [driver |-> driver, named |-> [k \in Packages |-> IF k = "a" THEN 2 ELSE 1],
   literals |-> [k \in Packages |-> IF k = "a" THEN literals ELSE 0], max |-> max,
   holds |-> [k \in Packages |-> IF k = "a" THEN in_a ELSE in_b],
   ignore |-> set.ignore, failOn |-> set.failOn,
   failOnIncomplete |-> set.failOnIncomplete, failOnUnsupported |-> set.failOnUnsupported]

Other == {[Base EXCEPT !.id = 2, !.at = 1], [Base EXCEPT !.id = 2, !.done = "never"]}

MCPrograms ==
  << {Make("standalone", 0, 2, {b}, {}, s) : b \in Quiet, s \in Settings},
     {Make("standalone", 0, 2, {b}, {}, s) : b \in Everything, s \in Strict},
     {Make("standalone", 1, 3, {b}, {}, s) : b \in InLiteral \cup Returned \cup Escaping, s \in Strict},
     {Make("standalone", 1, m, {b}, {}, s) : b \in InLiteral \cup Returned, m \in 1..2, s \in Strict},
     {Make("standalone", 0, 2, {b}, {o}, s) : b \in Returned \cup Cancels, o \in Other, s \in Strict},
     {Make("vet", 1, m, {b}, {o}, s) : b \in InLiteral \cup Returned, o \in Other, m \in 1..3, s \in Strict} >>

\* A handle that a constructor registers elsewhere before it returns it.
MCEscaping ==
  << {Make("standalone", 0, 2, {[b EXCEPT !.escapes = TRUE]}, {}, s) :
        b \in {c \in Returned : c.sites \notin Unfollowed}, s \in Strict} >>

\* A handle that is returned to one caller that is followed and one that is not.
MCUnfollowed ==
  << {Make("standalone", 0, 2, {b}, {}, s) : b \in {c \in Returned : c.sites \in Unfollowed}, s \in Strict} >>
=============================================================================
