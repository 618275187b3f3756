-------------------------- MODULE RunStatus_proofs --------------------------
(***************************************************************************)
(* Proofs about RunStatus, for every set of packages, every bound and      *)
(* every program: what is not known to be clean leaves a trace in what the *)
(* run says, and a strict run that exits 0 vouches for everything but the  *)
(* callers that the code overlooks.                                        *)
(***************************************************************************)
EXTENDS RunStatus, TLAPS

Stages == {"waiting", "reading", "walking", "complete", "cut", "reported"}

\* The findings at callers have been handed to the units they blame.
Attached(k) == stage[k] = "complete" \/ Whole(k)

Shape == /\ \E i \in DOMAIN Programs : program \in Programs[i]
         /\ stage \in [Packages -> Stages]
         /\ indexed \subseteq Packages /\ deadline \subseteq Packages
         /\ built \in [Packages -> SUBSET Nat]
         /\ DOMAIN recorded = Packages /\ DOMAIN findings = Packages
         /\ DOMAIN result = Packages

\* Where a package stands and how much of it is built.
BuildInv == \A k \in Packages :
  /\ built[k] \subseteq Selected(k)
  /\ stage[k] \in {"waiting", "reading"} => k \notin indexed
  /\ stage[k] \in {"walking", "complete"} => k \in indexed
  /\ stage[k] = "complete" => built[k] = Selected(k)
  /\ stage[k] = "cut" => k \in deadline /\ (k \notin indexed \/ built[k] # Selected(k))
  /\ IF stage[k] = "reported" THEN Whole(k) \/ k \in deadline ELSE result[k] = Nothing

\* A finding blames a binding that the program has.
Blames(k, f) == \E b \in program.holds[k] : f \in Owing(k, b)

\* What the built units carry is all of the program's, and nothing else.
CarryInv == \A k \in Packages :
  /\ \A b \in program.holds[k] : \A u \in built[k] : Carries(u, b) =>
       /\ [unit |-> u, is |-> Settled(k, b)] \in recorded[k]
       /\ Owing(k, b) \subseteq findings[k]
  /\ Attached(k) => \A f \in findings[k] : f.at \in built[k] => [unit |-> f.at, is |-> f] \in recorded[k]
  /\ \A f \in findings[k] : Blames(k, f)
  /\ \A r \in recorded[k] :
       \/ \E b \in program.holds[k] : Carries(r.unit, b) /\ r.is = Settled(k, b)
       \/ Blames(k, r.is) /\ r.unit = r.is.at

\* What is reported of a package stays what its units say.
ReportInv == \A k \in Packages :
  stage[k] = "reported" =>
    result[k] = IF program.driver = "vet" /\ k \in deadline THEN Timeout(Summary(k)) ELSE Summary(k)

\* The end of a standalone run; nothing happens after it.
Conclusion == IF deadline # {} THEN Timeout(Total) ELSE Total
EndInv ==
  /\ ~run.ended => run.exit # "ok"
  /\ run.ended =>
       /\ program.driver = "standalone" /\ InProgress = {}
       /\ deadline = {} => \A k \in Packages : stage[k] = "reported"
       /\ run.says = Conclusion
       /\ run.exit = "ok" => ~FailsPolicy(run.says) /\ ~FailsStatusPolicy(run.says)

IInv == Shape /\ BuildInv /\ CarryInv /\ ReportInv /\ EndInv

-----------------------------------------------------------------------------
(* What an entry of Programs is.                                           *)
LEMMA ProgramFacts ==
  ASSUME Shape
  PROVE  /\ program.driver \in {"standalone", "vet"}
         /\ program.max \in Nat
         /\ \A k \in Packages :
              /\ program.named[k] \in Nat /\ program.literals[k] \in Nat
              /\ \A b \in program.holds[k] :
                   /\ b \in Binding /\ ~b.checked /\ b.id # 0
                   /\ b.kind = "goroutine" => b.sites = {}
                   /\ b.at \in Units(k) /\ b.decl \in 1..program.named[k]
                   /\ b.at # b.decl => b.at > program.named[k]
                   /\ \A c \in program.holds[k] : c.id = b.id => c = b
                   /\ \A s \in b.sites : s \in Site /\ s.in \in 1..program.named[k] /\ s.in # b.at
<1>1. PICK i \in DOMAIN Programs : program \in Programs[i]
  BY DEF Shape
<1>2. /\ program.driver \in {"standalone", "vet"}
      /\ program.named \in [Packages -> Nat] /\ program.literals \in [Packages -> Nat]
      /\ program.max \in Nat
  BY <1>1, ProgramsAssumption
<1>3. ASSUME NEW k \in Packages, NEW b \in program.holds[k]
      PROVE  /\ b \in Binding /\ ~b.checked /\ b.id # 0
             /\ b.kind = "goroutine" => b.sites = {}
             /\ b.at \in Units(k) /\ b.decl \in 1..program.named[k]
             /\ b.at # b.decl => b.at > program.named[k]
             /\ \A c \in program.holds[k] : c.id = b.id => c = b
             /\ \A s \in b.sites : s \in Site /\ s.in \in 1..program.named[k] /\ s.in # b.at
  BY <1>1, ProgramsAssumption DEF Units, Binding
<1> QED BY <1>2, <1>3

(* A step never exchanges the program.                                     *)
LEMMA SameProgram == [Next]_vars => program' = program
BY DEF Next, vars, Start, Index, Build, Attach, DeadlinePasses, Cut, Report, Finish

(* The bound leaves a prefix of the declarations and one of the literals,  *)
(* and the count of the units tells whether that is all of them.           *)
LEMMA SelectionFacts ==
  ASSUME Shape, NEW k \in Packages
  PROVE  /\ Limit(k) \in Nat /\ Limit(k) <= program.named[k]
         /\ Selected(k) \subseteq Units(k) /\ Units(k) \subseteq Nat
         /\ Truncated(k) <=> Selected(k) # Units(k)
         /\ \A u \in 1..program.named[k] : u \in Selected(k) <=> u <= Limit(k)
<1> DEFINE n == program.named[k]
           l == program.literals[k]
           a == Limit(k)
           c == LiteralLimit(k)
<1>1. n \in Nat /\ l \in Nat /\ program.max \in Nat  BY ProgramFacts
<1>2. a \in Nat /\ a <= n /\ a <= program.max  BY <1>1 DEF Limit, Least
<1>3. c \in Nat /\ c <= l  BY <1>1, <1>2 DEF LiteralLimit, Least
<1>4. Units(k) = 1..(n + l)  BY DEF Units
<1>5. Selected(k) = 1..a \cup {u \in Units(k) : u > n /\ u <= n + c}  BY DEF Selected
<1>6. Truncated(k) <=> a + c < n + l  BY DEF Truncated
<1> HIDE DEF n, l, a, c
<1>7. Selected(k) \subseteq Units(k)  BY <1>1, <1>2, <1>4, <1>5
<1>8. \A u \in 1..n : u \in Selected(k) <=> u <= a  BY <1>1, <1>2, <1>4, <1>5
<1>9. CASE a < n
  <2>1. n \in Units(k) /\ n \notin Selected(k)  BY <1>1, <1>2, <1>4, <1>5, <1>9
  <2> QED BY <1>1, <1>2, <1>3, <1>4, <1>6, <1>7, <1>8, <1>9, <2>1 DEF a, n
<1>10. CASE a = n /\ c < l
  <2>1. n + l \in Units(k) /\ n + l \notin Selected(k)  BY <1>1, <1>2, <1>3, <1>4, <1>5, <1>10
  <2> QED BY <1>1, <1>2, <1>3, <1>4, <1>6, <1>7, <1>8, <1>10, <2>1 DEF a, n
<1>11. CASE a = n /\ c = l
  <2>1. Units(k) \subseteq Selected(k)  BY <1>1, <1>2, <1>3, <1>4, <1>5, <1>11
  <2>2. Selected(k) = Units(k)  BY <1>7, <2>1
  <2>3. ~Truncated(k)  BY <1>1, <1>6, <1>11
  <2> QED BY <1>1, <1>2, <1>4, <1>7, <1>8, <2>2, <2>3 DEF a, n
<1> QED BY <1>1, <1>2, <1>3, <1>9, <1>10, <1>11

(* What is read of the program is the same after a step.                   *)
LEMMA SameReadings ==
  ASSUME program' = program, NEW k
  PROVE  /\ Selected(k)' = Selected(k) /\ Units(k)' = Units(k) /\ Truncated(k)' = Truncated(k)
         /\ \A b : Settled(k, b)' = Settled(k, b) /\ Owing(k, b)' = Owing(k, b)
         /\ \A f : Blames(k, f)' <=> Blames(k, f)
<1>1. Limit(k)' = Limit(k)  BY DEF Limit
<1>2. LiteralLimit(k)' = LiteralLimit(k)  BY <1>1 DEF LiteralLimit
<1>3. Units(k)' = Units(k)  BY DEF Units
<1>4. Selected(k)' = Selected(k) /\ Truncated(k)' = Truncated(k)
  BY <1>1, <1>2, <1>3 DEF Selected, Truncated
<1>5. \A b : SitesSeen(k, b)' = SitesSeen(k, b)  BY <1>1 DEF SitesSeen, Reached
<1>6. \A b : Settled(k, b)' = Settled(k, b) /\ Owing(k, b)' = Owing(k, b)
  BY <1>5 DEF Settled, Owing
<1>7. \A f : Blames(k, f)' <=> Blames(k, f)  BY <1>6 DEF Blames
<1> QED BY <1>3, <1>4, <1>6, <1>7

(* A package's diagnostics and status are read from its own units.         *)
LEMMA SameSummary ==
  ASSUME program' = program, NEW k, recorded'[k] = recorded[k], k \in indexed' <=> k \in indexed
  PROVE  Summary(k)' = Summary(k)
<1>1. Truncated(k)' = Truncated(k)  BY SameReadings
<1>2. Diagnostics(k)' = Diagnostics(k)  BY <1>1 DEF Diagnostics, Notice
<1>3. \A d : Ignored(d)' <=> Ignored(d)  BY DEF Ignored
<1> QED BY <1>1, <1>2, <1>3 DEF Summary

-----------------------------------------------------------------------------
(* IInv is preserved by every step, which is one of a package or the end.  *)
LEMMA InitIInv == Init => IInv
<1> SUFFICES ASSUME Init PROVE IInv
  OBVIOUS
<1>1. Shape  BY DEF Init, Shape, Stages
<1>2. BuildInv  BY DEF Init, BuildInv
<1>3. CarryInv  BY DEF Init, CarryInv, Attached, Whole
<1>4. ReportInv /\ EndInv  BY DEF Init, ReportInv, EndInv
<1> QED BY <1>1, <1>2, <1>3, <1>4 DEF IInv

(* A run that has ended does nothing any more.                             *)
LEMMA EndIsFinal ==
  ASSUME IInv, run.ended, Next PROVE FALSE
<1>1. \A k \in Packages : stage[k] \notin {"reading", "walking", "complete", "cut"}
  BY DEF IInv, EndInv, InProgress
<1> QED BY <1>1 DEF Next, Start, Index, Build, Attach, DeadlinePasses, Cut, Report, Finish

(* So it is enough to look at the other parts, unless the step is the end. *)
LEMMA EndKept ==
  ASSUME IInv, ~run.ended, run' = run PROVE EndInv'
BY DEF IInv, EndInv

LEMMA EndStays ==
  ASSUME EndInv, UNCHANGED vars PROVE EndInv'
<1>1. Total' = Total /\ InProgress' = InProgress  BY DEF vars, Total, InProgress
<1>2. Conclusion' = Conclusion  BY <1>1 DEF vars, Conclusion, Timeout
<1>3. FailsPolicy(run.says)' = FailsPolicy(run.says) /\ FailsStatusPolicy(run.says)' = FailsStatusPolicy(run.says)
  BY DEF vars, FailsPolicy, FailsStatusPolicy
<1> QED BY <1>1, <1>2, <1>3 DEF vars, EndInv

LEMMA StepShape == ASSUME IInv, Next PROVE Shape'
<1>1. program' = program  BY SameProgram
<1>2. \A k \in Packages : Units(k) \subseteq Nat  BY SelectionFacts DEF IInv
<1> QED BY <1>1, <1>2 DEF IInv, Shape, Stages, Next, Start, Index, Build, Attach, DeadlinePasses, Cut, Report, Finish

(* A package whose units and findings stay as they are keeps its part of   *)
(* CarryInv.                                                               *)
LEMMA CarryOf ==
  ASSUME CarryInv, program' = program, NEW k \in Packages,
         recorded'[k] = recorded[k], findings'[k] = findings[k], built'[k] = built[k],
         Attached(k)' => Attached(k)
  PROVE  (/\ \A b \in program.holds[k] : \A u \in built[k] : Carries(u, b) =>
               /\ [unit |-> u, is |-> Settled(k, b)] \in recorded[k]
               /\ Owing(k, b) \subseteq findings[k]
          /\ Attached(k) => \A f \in findings[k] : f.at \in built[k] => [unit |-> f.at, is |-> f] \in recorded[k]
          /\ \A f \in findings[k] : Blames(k, f)
          /\ \A r \in recorded[k] :
               \/ \E b \in program.holds[k] : Carries(r.unit, b) /\ r.is = Settled(k, b)
               \/ Blames(k, r.is) /\ r.unit = r.is.at)'
<1>1. \A b : Settled(k, b)' = Settled(k, b) /\ Owing(k, b)' = Owing(k, b)  BY SameReadings
<1>2. \A f : Blames(k, f)' <=> Blames(k, f)  BY SameReadings
<1>3. \A b, u : Carries(u, b)' <=> Carries(u, b)  BY DEF Carries
<1>4. (\A b \in program.holds[k] : \A u \in built[k] : Carries(u, b) =>
               /\ [unit |-> u, is |-> Settled(k, b)] \in recorded[k]
               /\ Owing(k, b) \subseteq findings[k])'
  BY <1>1, <1>3 DEF CarryInv
<1>5. (Attached(k) => \A f \in findings[k] : f.at \in built[k] => [unit |-> f.at, is |-> f] \in recorded[k])'
  BY DEF CarryInv
<1>6. (\A f \in findings[k] : Blames(k, f))'
  BY <1>2 DEF CarryInv
<1>7. (\A r \in recorded[k] :
               \/ \E b \in program.holds[k] : Carries(r.unit, b) /\ r.is = Settled(k, b)
               \/ Blames(k, r.is) /\ r.unit = r.is.at)'
  BY <1>1, <1>2, <1>3 DEF CarryInv
<1> QED BY <1>4, <1>5, <1>6, <1>7

(* Steps that build nothing and attach nothing leave CarryInv alone.       *)
LEMMA CarryKept ==
  ASSUME IInv, program' = program, UNCHANGED <<built, recorded, findings>>,
         \A k \in Packages : Attached(k)' => Attached(k)
  PROVE  CarryInv'
<1>1. CarryInv  BY DEF IInv
<1> QED BY <1>1, CarryOf DEF CarryInv

LEMMA ReportKept ==
  ASSUME IInv, program' = program, result' = result, recorded' = recorded, indexed' = indexed,
         \A k \in Packages : stage'[k] = "reported" =>
           stage[k] = "reported" /\ (program.driver = "vet" => (k \in deadline' <=> k \in deadline))
  PROVE  ReportInv'
<1> SUFFICES ASSUME NEW k \in Packages, stage'[k] = "reported"
             PROVE (result[k] = IF program.driver = "vet" /\ k \in deadline THEN Timeout(Summary(k)) ELSE Summary(k))'
  BY DEF ReportInv
<1>1. Summary(k)' = Summary(k)  BY SameSummary
<1>2. Timeout(Summary(k))' = Timeout(Summary(k))  BY <1>1 DEF Timeout
<1> QED BY <1>1, <1>2 DEF IInv, ReportInv

(* The other parts of IInv, one action after another.                      *)
Others == BuildInv /\ CarryInv /\ ReportInv

LEMMA StepStart ==
  ASSUME IInv, NEW k \in Packages, Start(k), program' = program PROVE Others'
<1>1. stage \in [Packages -> Stages] /\ stage' = [stage EXCEPT ![k] = "reading"] /\ stage[k] = "waiting"
  BY DEF IInv, Shape, Start
<1>2. \A j \in Packages : Selected(j)' = Selected(j)  BY SameReadings
<1>3. BuildInv'  BY <1>1, <1>2 DEF IInv, BuildInv, Whole, Start
<1>4. \A j \in Packages : Attached(j)' => Attached(j)  BY <1>1, <1>2 DEF Attached, Whole, Start
<1>5. CarryInv'  BY <1>4, CarryKept DEF Start
<1>6. ReportInv'  BY <1>1, ReportKept DEF Start
<1> QED BY <1>3, <1>5, <1>6 DEF Others

LEMMA StepIndex ==
  ASSUME IInv, NEW k \in Packages, Index(k), program' = program PROVE Others'
<1>1. /\ stage \in [Packages -> Stages] /\ stage' = [stage EXCEPT ![k] = "walking"] /\ stage[k] = "reading"
      /\ indexed' = indexed \cup {k}
  BY DEF IInv, Shape, Index
<1>2. \A j \in Packages : Selected(j)' = Selected(j)  BY SameReadings
<1>3. BuildInv'  BY <1>1, <1>2 DEF IInv, BuildInv, Whole, Index
<1>4. \A j \in Packages : Attached(j)' => Attached(j)  BY <1>1, <1>2 DEF Attached, Whole, Index
<1>5. CarryInv'  BY <1>4, CarryKept DEF Index
<1>6. ReportInv'
  <2> SUFFICES ASSUME NEW j \in Packages, stage'[j] = "reported"
               PROVE (result[j] = IF program.driver = "vet" /\ j \in deadline THEN Timeout(Summary(j)) ELSE Summary(j))'
    BY DEF ReportInv
  <2>1. j # k /\ stage[j] = "reported"  BY <1>1
  <2>2. Summary(j)' = Summary(j)  BY <1>1, <2>1, SameSummary DEF Index
  <2>3. Timeout(Summary(j))' = Timeout(Summary(j))  BY <2>2 DEF Timeout
  <2> QED BY <2>1, <2>2, <2>3 DEF IInv, ReportInv, Index
<1> QED BY <1>3, <1>5, <1>6 DEF Others

LEMMA StepBuild ==
  ASSUME IInv, NEW k \in Packages, NEW u \in Units(k), Build(k, u), program' = program PROVE Others'
<1> DEFINE found == {b \in program.holds[k] : Carries(u, b)}
           now == {[unit |-> u, is |-> Settled(k, b)] : b \in found}
           owed == UNION {Owing(k, b) : b \in found}
<1>1. /\ stage \in [Packages -> Stages] /\ stage' = stage /\ stage[k] = "walking"
      /\ u \in Selected(k)
      /\ built \in [Packages -> SUBSET Nat] /\ built' = [built EXCEPT ![k] = built[k] \cup {u}]
      /\ DOMAIN recorded = Packages /\ recorded' = [recorded EXCEPT ![k] = recorded[k] \cup now]
      /\ DOMAIN findings = Packages /\ findings' = [findings EXCEPT ![k] = findings[k] \cup owed]
      /\ indexed' = indexed /\ deadline' = deadline /\ result' = result
  BY DEF IInv, Shape, Build, IsNext
<1>2. \A j \in Packages : Selected(j)' = Selected(j)  BY SameReadings
<1>3. BuildInv'
  <2>1. \A j \in Packages : j # k => (Whole(j)' <=> Whole(j))  BY <1>1, <1>2 DEF Whole
  <2> QED BY <1>1, <1>2, <2>1 DEF IInv, BuildInv
<1>4. \A j \in Packages : Attached(j)' => Attached(j) /\ j # k  BY <1>1, <1>2 DEF Attached, Whole
<1>5. CarryInv'
  <2> SUFFICES ASSUME NEW j \in Packages
               PROVE
                 (/\ \A b \in program.holds[j] : \A w \in built[j] : Carries(w, b) =>
                      /\ [unit |-> w, is |-> Settled(j, b)] \in recorded[j]
                      /\ Owing(j, b) \subseteq findings[j]
                  /\ Attached(j) => \A f \in findings[j] : f.at \in built[j] => [unit |-> f.at, is |-> f] \in recorded[j]
                  /\ \A f \in findings[j] : Blames(j, f)
                  /\ \A r \in recorded[j] :
                       \/ \E b \in program.holds[j] : Carries(r.unit, b) /\ r.is = Settled(j, b)
                       \/ Blames(j, r.is) /\ r.unit = r.is.at)'
    BY DEF CarryInv
  <2>1. CASE j # k
    <3>1. recorded'[j] = recorded[j] /\ findings'[j] = findings[j] /\ built'[j] = built[j]
      BY <1>1, <2>1
    <3>2. Attached(j)' => Attached(j)  BY <1>4, <2>1
    <3> HIDE DEF found, now, owed
    <3> QED BY <3>1, <3>2, CarryOf DEF IInv
  <2>2. CASE j = k
    <3>1. ASSUME NEW b \in program.holds[k], NEW w \in built'[k], Carries(w, b)
          PROVE [unit |-> w, is |-> Settled(k, b)] \in recorded'[k] /\ Owing(k, b) \subseteq findings'[k]
      <4>1. CASE w \in built[k]  BY <1>1, <3>1, <4>1 DEF IInv, CarryInv
      <4>2. CASE w = u
        <5>1. b \in found  BY <3>1, <4>2
        <5>2. [unit |-> w, is |-> Settled(k, b)] \in now  BY <4>2, <5>1
        <5>3. Owing(k, b) \subseteq owed  BY <5>1
        <5> HIDE DEF found, now, owed
        <5> QED BY <1>1, <5>2, <5>3
      <4> QED BY <1>1, <3>1, <4>1, <4>2
    <3>2. ~Attached(k)'  BY <1>4
    <3>3. ASSUME NEW f \in findings'[k] PROVE Blames(k, f)
      <4>1. CASE f \in findings[k]  BY <4>1 DEF IInv, CarryInv
      <4>2. CASE f \in owed  BY <4>2 DEF Blames
      <4> QED BY <1>1, <3>3, <4>1, <4>2
    <3>4. ASSUME NEW r \in recorded'[k]
          PROVE  \/ \E b \in program.holds[k] : Carries(r.unit, b) /\ r.is = Settled(k, b)
                 \/ Blames(k, r.is) /\ r.unit = r.is.at
      <4>1. CASE r \in recorded[k]  BY <4>1 DEF IInv, CarryInv
      <4>2. CASE r \in now  BY <4>2
      <4> QED BY <1>1, <3>4, <4>1, <4>2
    <3> QED BY <2>2, <3>1, <3>2, <3>3, <3>4, SameReadings DEF Carries
  <2> QED BY <2>1, <2>2
<1>6. ReportInv'
  <2> SUFFICES ASSUME NEW j \in Packages, stage'[j] = "reported"
               PROVE (result[j] = IF program.driver = "vet" /\ j \in deadline THEN Timeout(Summary(j)) ELSE Summary(j))'
    BY DEF ReportInv
  <2>1. j # k /\ stage[j] = "reported"  BY <1>1
  <2>2. Summary(j)' = Summary(j)  BY <1>1, <2>1, SameSummary
  <2>3. Timeout(Summary(j))' = Timeout(Summary(j))  BY <2>2 DEF Timeout
  <2> QED BY <1>1, <2>1, <2>2, <2>3 DEF IInv, ReportInv
<1> QED BY <1>3, <1>5, <1>6 DEF Others

LEMMA StepAttach ==
  ASSUME IInv, NEW k \in Packages, Attach(k), program' = program PROVE Others'
<1> DEFINE now == {[unit |-> f.at, is |-> f] : f \in {g \in findings[k] : g.at \in built[k]}}
<1>1. /\ stage \in [Packages -> Stages] /\ stage' = [stage EXCEPT ![k] = "complete"] /\ stage[k] = "walking"
      /\ Selected(k) \subseteq built[k] /\ built' = built
      /\ DOMAIN recorded = Packages /\ recorded' = [recorded EXCEPT ![k] = recorded[k] \cup now]
      /\ findings' = findings /\ indexed' = indexed /\ deadline' = deadline /\ result' = result
  BY DEF IInv, Shape, Attach
<1>2. \A j \in Packages : Selected(j)' = Selected(j)  BY SameReadings
<1>3. BuildInv'
  <2>1. \A j \in Packages : j # k => (Whole(j)' <=> Whole(j))  BY <1>1, <1>2 DEF Whole
  <2>2. built[k] = Selected(k)  BY <1>1 DEF IInv, BuildInv
  <2> QED BY <1>1, <1>2, <2>1, <2>2 DEF IInv, BuildInv
<1>4. \A j \in Packages : j # k /\ Attached(j)' => Attached(j)  BY <1>1, <1>2 DEF Attached, Whole
<1>5. CarryInv'
  <2> SUFFICES ASSUME NEW j \in Packages
               PROVE
                 (/\ \A b \in program.holds[j] : \A w \in built[j] : Carries(w, b) =>
                      /\ [unit |-> w, is |-> Settled(j, b)] \in recorded[j]
                      /\ Owing(j, b) \subseteq findings[j]
                  /\ Attached(j) => \A f \in findings[j] : f.at \in built[j] => [unit |-> f.at, is |-> f] \in recorded[j]
                  /\ \A f \in findings[j] : Blames(j, f)
                  /\ \A r \in recorded[j] :
                       \/ \E b \in program.holds[j] : Carries(r.unit, b) /\ r.is = Settled(j, b)
                       \/ Blames(j, r.is) /\ r.unit = r.is.at)'
    BY DEF CarryInv
  <2>1. CASE j # k
    <3>1. recorded'[j] = recorded[j] /\ findings'[j] = findings[j] /\ built'[j] = built[j]
      BY <1>1, <2>1
    <3>2. Attached(j)' => Attached(j)  BY <1>4, <2>1
    <3> HIDE DEF now
    <3> QED BY <3>1, <3>2, CarryOf DEF IInv
  <2>2. CASE j = k
    <3>1. recorded[k] \subseteq recorded'[k] /\ now \subseteq recorded'[k]  BY <1>1
    <3>2. \A f \in findings[k] : f.at \in built[k] => [unit |-> f.at, is |-> f] \in now  OBVIOUS
    <3>3. ASSUME NEW r \in recorded'[k]
          PROVE  \/ \E b \in program.holds[k] : Carries(r.unit, b) /\ r.is = Settled(k, b)
                 \/ Blames(k, r.is) /\ r.unit = r.is.at
      <4>1. CASE r \in recorded[k]  BY <4>1 DEF IInv, CarryInv
      <4>2. CASE r \in now  BY <4>2 DEF IInv, CarryInv
      <4> QED BY <1>1, <3>3, <4>1, <4>2
    <3> HIDE DEF now
    <3> QED BY <1>1, <2>2, <3>1, <3>2, <3>3, SameReadings DEF IInv, CarryInv, Carries
  <2> QED BY <2>1, <2>2
<1>6. ReportInv'
  <2> SUFFICES ASSUME NEW j \in Packages, stage'[j] = "reported"
               PROVE (result[j] = IF program.driver = "vet" /\ j \in deadline THEN Timeout(Summary(j)) ELSE Summary(j))'
    BY DEF ReportInv
  <2>1. j # k /\ stage[j] = "reported"  BY <1>1
  <2>2. Summary(j)' = Summary(j)  BY <1>1, <2>1, SameSummary
  <2>3. Timeout(Summary(j))' = Timeout(Summary(j))  BY <2>2 DEF Timeout
  <2> QED BY <1>1, <2>1, <2>2, <2>3 DEF IInv, ReportInv
<1> QED BY <1>3, <1>5, <1>6 DEF Others

LEMMA StepCut ==
  ASSUME IInv, NEW k \in Packages, Cut(k), program' = program PROVE Others'
<1>1. /\ stage \in [Packages -> Stages] /\ stage' = [stage EXCEPT ![k] = "cut"]
      /\ stage[k] \in {"reading", "walking"} /\ k \in deadline
      /\ stage[k] = "walking" => ~(Selected(k) \subseteq built[k])
  BY DEF IInv, Shape, Cut
<1>2. \A j \in Packages : Selected(j)' = Selected(j)  BY SameReadings
<1>3. BuildInv'  BY <1>1, <1>2 DEF IInv, BuildInv, Whole, Cut
<1>4. \A j \in Packages : Attached(j)' => Attached(j)  BY <1>1, <1>2 DEF Attached, Whole, Cut
<1>5. CarryInv'  BY <1>4, CarryKept DEF Cut
<1>6. ReportInv'  BY <1>1, ReportKept DEF Cut
<1> QED BY <1>3, <1>5, <1>6 DEF Others

LEMMA StepReport ==
  ASSUME IInv, NEW k \in Packages, Report(k), program' = program PROVE Others'
<1> DEFINE said == IF program.driver = "vet" /\ k \in deadline THEN Timeout(Summary(k)) ELSE Summary(k)
<1>1. /\ stage \in [Packages -> Stages] /\ stage' = [stage EXCEPT ![k] = "reported"]
      /\ stage[k] \in {"complete", "cut"}
      /\ DOMAIN result = Packages /\ result' = [result EXCEPT ![k] = said]
      /\ UNCHANGED <<indexed, built, recorded, findings, deadline>>
  BY DEF IInv, Shape, Report
<1>2. \A j \in Packages : Selected(j)' = Selected(j)  BY SameReadings
<1>3. BuildInv'  BY <1>1, <1>2 DEF IInv, BuildInv, Whole
<1>4. \A j \in Packages : Attached(j)' => Attached(j)  BY <1>1, <1>2 DEF IInv, BuildInv, Attached, Whole
<1>5. CarryInv'  BY <1>1, <1>4, CarryKept
<1>6. ReportInv'
  <2> SUFFICES ASSUME NEW j \in Packages, stage'[j] = "reported"
               PROVE (result[j] = IF program.driver = "vet" /\ j \in deadline THEN Timeout(Summary(j)) ELSE Summary(j))'
    BY DEF ReportInv
  <2>1. Summary(j)' = Summary(j)  BY <1>1, SameSummary
  <2>2. Timeout(Summary(j))' = Timeout(Summary(j))  BY <2>1 DEF Timeout
  <2>3. CASE j = k  BY <1>1, <2>1, <2>2, <2>3
  <2>4. CASE j # k
    <3>1. stage[j] = "reported" /\ result'[j] = result[j]  BY <1>1, <2>4
    <3> QED BY <1>1, <2>1, <2>2, <3>1 DEF IInv, ReportInv
  <2> QED BY <2>3, <2>4
<1> QED BY <1>3, <1>5, <1>6 DEF Others

LEMMA StepDeadline ==
  ASSUME IInv, NEW k \in Packages, DeadlinePasses(k), program' = program PROVE Others'
<1>1. deadline \subseteq deadline' /\ stage' = stage /\ UNCHANGED <<indexed, built, recorded, findings, result>>
  BY DEF IInv, Shape, DeadlinePasses
<1>2. \A j \in Packages : Selected(j)' = Selected(j)  BY SameReadings
<1>3. BuildInv'  BY <1>1, <1>2 DEF IInv, BuildInv, Whole
<1>4. \A j \in Packages : Attached(j)' => Attached(j)  BY <1>1, <1>2 DEF Attached, Whole
<1>5. CarryInv'  BY <1>1, <1>4, CarryKept
<1>6. program.driver = "vet" => stage[k] # "reported" /\ deadline' = deadline \cup {k}
  BY DEF DeadlinePasses
<1>7. ReportInv'  BY <1>1, <1>6, ReportKept
<1> QED BY <1>3, <1>5, <1>7 DEF Others

LEMMA StepFinish ==
  ASSUME IInv, Finish, program' = program PROVE Others' /\ EndInv'
<1>1. UNCHANGED <<stage, indexed, built, recorded, findings, deadline, result>>  BY DEF Finish
<1>2. \A j \in Packages : Selected(j)' = Selected(j)  BY SameReadings
<1>3. BuildInv'  BY <1>1, <1>2 DEF IInv, BuildInv, Whole
<1>4. CarryInv'
  <2>1. \A j \in Packages : Attached(j)' => Attached(j)  BY <1>1, <1>2 DEF Attached, Whole
  <2> QED BY <1>1, <2>1, CarryKept
<1>5. ReportInv'  BY <1>1, ReportKept
<1>6. EndInv'
  <2>1. Total' = Total /\ InProgress' = InProgress  BY <1>1 DEF Total, InProgress
  <2>2. Conclusion' = Conclusion  BY <1>1, <2>1 DEF Conclusion, Timeout
  <2>3. \A s : (FailsPolicy(s)' <=> FailsPolicy(s)) /\ (FailsStatusPolicy(s)' <=> FailsStatusPolicy(s))
    BY DEF FailsPolicy, FailsStatusPolicy
  <2>4. /\ run' = [ended |-> TRUE, says |-> Conclusion,
                   exit |-> IF FailsPolicy(Conclusion) \/ FailsStatusPolicy(Conclusion) THEN "ci_exit_code" ELSE "ok"]
        /\ program.driver = "standalone" /\ InProgress = {}
        /\ deadline = {} => \A k \in Packages : stage[k] = "reported"
    BY DEF Finish, Conclusion
  <2>5. run'.ended /\ run'.says = Conclusion
        /\ (run'.exit = "ok" => ~FailsPolicy(Conclusion) /\ ~FailsStatusPolicy(Conclusion))
    BY <2>4
  <2>6. run'.says = Conclusion'  BY <2>2, <2>5
  <2>7. run'.exit = "ok" => ~FailsPolicy(run.says)' /\ ~FailsStatusPolicy(run.says)'
    BY <2>5 DEF FailsPolicy, FailsStatusPolicy
  <2> QED BY <1>1, <2>1, <2>4, <2>5, <2>6, <2>7 DEF EndInv
<1> QED BY <1>3, <1>4, <1>5, <1>6 DEF Others

LEMMA Invariant == Spec => []IInv
<1>1. IInv /\ [Next]_vars => IInv'
  <2> SUFFICES ASSUME IInv, [Next]_vars PROVE IInv'
    OBVIOUS
  <2>1. program' = program  BY SameProgram
  <2>2. CASE UNCHANGED vars
    <3>1. Shape'  BY <2>2 DEF vars, IInv, Shape
    <3>2. \A k \in Packages : Selected(k)' = Selected(k)  BY <2>1, SameReadings
    <3>3. BuildInv'  BY <2>2, <3>2 DEF vars, IInv, BuildInv, Whole
    <3>4. \A k \in Packages : Attached(k)' => Attached(k)  BY <2>2, <3>2 DEF vars, Attached, Whole
    <3>5. CarryInv' /\ ReportInv'  BY <2>2, <3>4, CarryKept, ReportKept DEF vars
    <3>6. EndInv'  BY <2>2, EndStays DEF vars, IInv
    <3> QED BY <3>1, <3>3, <3>5, <3>6 DEF IInv
  <2>3. CASE Next
    <3>1. Shape'  BY <2>3, StepShape
    <3>2. ~run.ended  BY <2>3, EndIsFinal
    <3>3. CASE Finish  BY <2>1, <3>1, <3>3, StepFinish DEF IInv, Others
    <3>4. ASSUME NEW k \in Packages,
                 Start(k) \/ Index(k) \/ Attach(k) \/ Cut(k) \/ Report(k) \/ DeadlinePasses(k)
                   \/ \E u \in Units(k) : Build(k, u)
          PROVE IInv'
      <4>1. Others'
        BY <2>1, <3>4, StepStart, StepIndex, StepAttach, StepCut, StepReport, StepDeadline, StepBuild
      <4>2. run' = run
        BY <3>4 DEF Start, Index, Build, Attach, DeadlinePasses, Cut, Report
      <4>3. EndInv'  BY <3>2, <4>2, EndKept
      <4> QED BY <3>1, <4>1, <4>3 DEF IInv, Others
    <3> QED BY <2>3, <3>3, <3>4 DEF Next
  <2> QED BY <2>2, <2>3
<1> QED BY InitIInv, <1>1, PTL DEF Spec

-----------------------------------------------------------------------------
(* What is said includes what the package's own result says.               *)
LEMMA SaysAll ==
  ASSUME IInv, NEW k \in Packages, Said(k), stage[k] = "reported"
  PROVE  /\ Summary(k).shown \subseteq Says(k).shown
         /\ Summary(k).hidden \subseteq Says(k).hidden
         /\ Summary(k).assumed \subseteq Says(k).assumed
         /\ Summary(k).incomplete \/ k \in deadline => Says(k).incomplete
<1> DEFINE r == result[k]
<1>1. r = IF program.driver = "vet" /\ k \in deadline THEN Timeout(Summary(k)) ELSE Summary(k)
  BY DEF IInv, ReportInv
<1>2. /\ Summary(k).shown \subseteq r.shown /\ Summary(k).hidden \subseteq r.hidden
      /\ Summary(k).assumed \subseteq r.assumed
      /\ Summary(k).incomplete => r.incomplete
      /\ program.driver = "vet" /\ k \in deadline => r.incomplete
  BY <1>1 DEF Timeout, Summary
<1>3. CASE program.driver = "vet"  BY <1>2, <1>3 DEF Says
<1>4. CASE program.driver # "vet"
  <2>1. run.ended /\ run.says = Conclusion /\ Says(k) = Conclusion
    BY <1>4 DEF Said, Says, IInv, EndInv
  <2>2. /\ r.shown \subseteq Total.shown /\ r.hidden \subseteq Total.hidden
        /\ r.assumed \subseteq Total.assumed
        /\ r.incomplete => Total.incomplete
    BY DEF Total
  <2>3. /\ Total.shown \subseteq Conclusion.shown /\ Total.hidden \subseteq Conclusion.hidden
        /\ Total.assumed \subseteq Conclusion.assumed
        /\ Total.incomplete => Conclusion.incomplete
        /\ deadline # {} => Conclusion.incomplete
    BY DEF Conclusion, Timeout, Total
  <2> QED BY <1>2, <2>1, <2>2, <2>3
<1> QED BY <1>3, <1>4

(* A package that is not reported when something is said was never         *)
(* finished because the deadline came first.                               *)
LEMMA UnreportedIsIncomplete ==
  ASSUME IInv, NEW k \in Packages, Said(k), ~Whole(k)
  PROVE  Says(k).incomplete
<1>1. CASE stage[k] = "reported"
  <2>1. k \in deadline  BY <1>1 DEF IInv, BuildInv
  <2> QED BY <1>1, <2>1, SaysAll
<1>2. CASE stage[k] # "reported"
  <2>1. run.ended /\ Says(k) = Conclusion /\ deadline # {}
    BY <1>2 DEF Said, Says, IInv, EndInv
  <2> QED BY <2>1 DEF Conclusion, Timeout
<1> QED BY <1>1, <1>2

(* A verdict on what a unit carries is shown or hidden under that unit.    *)
LEMMA VerdictIsNamed ==
  ASSUME IInv, NEW k \in Packages, Said(k), stage[k] = "reported",
         NEW r \in recorded[k], Verdicts(r.is) # {} \/ Assumed(r.is)
  PROVE  Named(Says(k), k, r.unit, r.is.id)
<1>1. CASE Assumed(r.is)
  <2>1. [pkg |-> k, unit |-> r.unit, id |-> r.is.id] \in Summary(k).assumed
    BY <1>1 DEF Summary
  <2> QED BY <2>1, SaysAll DEF Named
<1>2. CASE Verdicts(r.is) # {}
  <2>1. PICK x \in Verdicts(r.is) : TRUE  BY <1>2
  <2> DEFINE d == [pkg |-> k, unit |-> r.unit, id |-> r.is.id, rule |-> x, hush |-> r.is.hush]
  <2>2. d \in {[pkg |-> k, unit |-> r.unit, id |-> r.is.id, rule |-> y, hush |-> r.is.hush] : y \in Verdicts(r.is)}
    BY <2>1
  <2>3. d \in Diagnostics(k)
    <3> HIDE DEF d
    <3> QED BY <2>2 DEF Diagnostics
  <2>4. d.pkg = k /\ d.unit = r.unit /\ d.id = r.is.id  OBVIOUS
  <2> HIDE DEF d
  <2>5. d \in Summary(k).shown \/ d \in Summary(k).hidden  BY <2>3 DEF Summary
  <2> QED BY <2>4, <2>5, SaysAll DEF Named
<1> QED BY <1>1, <1>2

(* A unit that the bound left out makes the status incomplete.             *)
LEMMA LeftOutIsIncomplete ==
  ASSUME IInv, NEW k \in Packages, Said(k), NEW u \in Units(k), ~Whole(k) \/ u \notin built[k]
  PROVE  Says(k).incomplete
<1>1. CASE ~Whole(k)  BY <1>1, UnreportedIsIncomplete
<1>2. CASE Whole(k) /\ u \notin built[k]
  <2>1. Truncated(k) /\ k \in indexed /\ stage[k] = "reported"
    BY <1>2, SelectionFacts DEF Whole, IInv
  <2>2. Summary(k).incomplete  BY <2>1 DEF Summary
  <2> QED BY <2>1, <2>2, SaysAll
<1> QED BY <1>1, <1>2

-----------------------------------------------------------------------------
(* A handle that had escaped before is taken as checked only if some of the *)
(* calls that receive it are overlooked.                                   *)
LEMMA EscapedIsOverlooked ==
  ASSUME NEW k, NEW b, b.escapes, Overlooked(k, b) = {}
  PROVE  SitesSeen(k, b) = {}
BY DEF Overlooked, SitesSeen

(* The constructor's side: whatever is doubtful where it is is named there. *)
LEMMA DoubtfulIsNamed ==
  ASSUME IInv, NEW k \in Packages, Said(k), NEW b \in program.holds[k], Overlooked(k, b) = {}, Doubtful(b)
  PROVE  \/ Named(Says(k), k, Home(b), b.id)
         \/ (~Whole(k) \/ Home(b) \notin built[k]) /\ Says(k).incomplete
<1> DEFINE h == Home(b)
           r == [unit |-> h, is |-> Settled(k, b)]
<1>1. /\ b \in Binding /\ ~b.checked /\ b.at \in Units(k) /\ b.decl \in 1..program.named[k]
      /\ b.escapes => SitesSeen(k, b) = {}
  BY ProgramFacts, EscapedIsOverlooked DEF IInv
<1>2. h \in Units(k)
  <2>1. program.named[k] \in Nat /\ program.literals[k] \in Nat  BY ProgramFacts DEF IInv
  <2> QED BY <1>1, <2>1 DEF Home, Units
<1>3. CASE ~Whole(k) \/ h \notin built[k]
  BY <1>2, <1>3, LeftOutIsIncomplete
<1>4. CASE Whole(k) /\ h \in built[k]
  <2>1. r \in recorded[k]  BY <1>4 DEF IInv, CarryInv, Carries, Home
  <2>2. /\ r.unit = h /\ r.is.id = b.id /\ r.is.kind = b.kind /\ r.is.body = b.body
        /\ r.is.done = b.done /\ r.is.fault = b.fault /\ r.is.late = b.late
        /\ r.is.escapes = (b.escapes \/ b.sites # {}) /\ r.is.checked = (SitesSeen(k, b) # {})
    BY <1>1 DEF Settled, Binding
  <2>3. b.sites = {} => SitesSeen(k, b) = {}  BY DEF SitesSeen, Reached
  <2> HIDE DEF r, h
  <2>4. Verdicts(r.is) # {} \/ Assumed(r.is)
    <3>1. CASE b.kind = "goroutine"
      BY <1>1, <2>2, <3>1 DEF Doubtful, Verdicts, Assumed, Binding
    <3>2. CASE b.kind # "goroutine" /\ b.done # "all" /\ (b.sites = {} \/ b.escapes)
      <4>1. ~r.is.checked  BY <1>1, <2>2, <2>3, <3>2
      <4>2. CASE b.escapes  BY <2>2, <3>2, <4>1, <4>2 DEF Assumed
      <4>3. CASE ~b.escapes /\ b.done = "unplaced"  BY <2>2, <3>2, <4>1, <4>3 DEF Assumed
      <4>4. CASE ~b.escapes /\ b.done \in {"never", "some"}
        <5>1. b.kind = "cancel" \/ b.kind = "group"  BY <1>1, <3>2 DEF Binding, Kinds
        <5>2. Lost(r.is) /\ ~r.is.escapes  BY <2>2, <3>2, <4>4 DEF Lost
        <5> QED BY <2>2, <5>1, <5>2 DEF Verdicts
      <4> QED BY <1>1, <3>2, <4>2, <4>3, <4>4 DEF Binding, Outcomes
    <3>3. CASE b.kind = "group" /\ (b.fault \/ b.late) /\ b.sites = {} /\ ~b.escapes
      BY <2>2, <3>3 DEF Verdicts
    <3> QED BY <3>1, <3>2, <3>3 DEF Doubtful
  <2> QED BY <1>4, <2>1, <2>2, <2>4, VerdictIsNamed DEF Whole, h
<1> QED BY <1>3, <1>4

(* The callers' side: a call that was followed and drops the handle is     *)
(* named where it stands.                                                  *)
LEMMA DroppedIsNamed ==
  ASSUME IInv, NEW k \in Packages, Said(k), NEW b \in program.holds[k], NEW s \in SitesSeen(k, b),
         b.kind # "goroutine", Lost(b), ~b.escapes, s.does # "all",
         Whole(k), Home(b) \in built[k], s.in \in built[k]
  PROVE  Named(Says(k), k, s.in, b.id)
<1> DEFINE f == Blamed(b, s)
           r == [unit |-> f.at, is |-> f]
<1>1. b \in Binding /\ s \in Site  BY ProgramFacts DEF IInv, SitesSeen, Reached
<1>2. f \in Owing(k, b)  BY DEF Owing
<1>3. f \in findings[k]  BY <1>2 DEF IInv, CarryInv, Carries, Home
<1>4. /\ f.at = s.in /\ f.id = b.id /\ f.kind = b.kind /\ f.escapes = b.escapes
      /\ f.done \in {"never", "some"}
  BY <1>1 DEF Blamed, Binding
<1> HIDE DEF f
<1>5. r \in recorded[k]  BY <1>3, <1>4 DEF IInv, CarryInv, Attached
<1>6. r.unit = s.in /\ r.is = f  BY <1>4
<1> HIDE DEF r
<1>7. Lost(f) /\ ~f.escapes  BY <1>4 DEF Lost
<1>8. f.kind = "cancel" \/ f.kind = "group"  BY <1>1, <1>4 DEF Binding, Kinds
<1>9. Verdicts(r.is) # {}  BY <1>6, <1>7, <1>8 DEF Verdicts
<1> QED BY <1>4, <1>5, <1>6, <1>9, VerdictIsNamed DEF Whole

(* If no caller was followed, the binding is counted where it is made.     *)
LEMMA UnfollowedIsCounted ==
  ASSUME IInv, NEW k \in Packages, Said(k), NEW b \in program.holds[k],
         b.kind # "goroutine", Lost(b), b.sites # {}, SitesSeen(k, b) = {},
         Whole(k), Home(b) \in built[k]
  PROVE  Named(Says(k), k, Home(b), b.id)
<1> DEFINE h == Home(b)
           r == [unit |-> h, is |-> Settled(k, b)]
<1>1. b \in Binding  BY ProgramFacts DEF IInv
<1>2. r \in recorded[k]  BY DEF IInv, CarryInv, Carries, Home
<1>3. /\ r.unit = h /\ r.is.id = b.id /\ r.is.kind = b.kind /\ r.is.done = b.done
      /\ r.is.escapes /\ ~r.is.checked
  BY <1>1 DEF Settled, Binding
<1> HIDE DEF r, h
<1>4. Assumed(r.is)  BY <1>3 DEF Assumed, Lost
<1> QED BY <1>2, <1>3, <1>4, VerdictIsNamed DEF Whole, h

(* So a call that is not overlooked and not clean leaves its trace.        *)
LEMMA DropsAreKnown ==
  ASSUME IInv, NEW k \in Packages, Said(k), NEW b \in program.holds[k],
         NEW s \in b.sites \ Overlooked(k, b)
  PROVE  DropIsKnown(k, b, s)
<1> SUFFICES ASSUME b.kind # "goroutine", Lost(b), s.does # "all"
             PROVE  \/ Named(Says(k), k, s.in, b.id) \/ Named(Says(k), k, Home(b), b.id)
                    \/ (~Whole(k) \/ Home(b) \notin built[k] \/ s.in \notin built[k]) /\ Says(k).incomplete
  BY DEF DropIsKnown
<1>1. /\ b \in Binding /\ b.at \in Units(k) /\ b.decl \in 1..program.named[k]
      /\ s \in Site /\ s.in \in 1..program.named[k]
  BY ProgramFacts DEF IInv
<1>2. Home(b) \in Units(k) /\ s.in \in Units(k)
  <2>1. program.named[k] \in Nat /\ program.literals[k] \in Nat  BY ProgramFacts DEF IInv
  <2> QED BY <1>1, <2>1 DEF Home, Units
<1>3. CASE ~Whole(k) \/ Home(b) \notin built[k] \/ s.in \notin built[k]
  BY <1>2, <1>3, LeftOutIsIncomplete
<1>4. CASE Whole(k) /\ Home(b) \in built[k] /\ s.in \in built[k]
  <2>1. s \in Reached(k, b)
    BY <1>1, <1>4, SelectionFacts DEF IInv, Reached, Whole
  <2>2. CASE SitesSeen(k, b) = {}  BY <1>4, <2>2, UnfollowedIsCounted
  <2>3. CASE SitesSeen(k, b) # {}
    <3>1. ~b.escapes /\ s.does # "unverified"  BY <2>1, <2>3 DEF Overlooked
    <3>2. s \in SitesSeen(k, b)  BY <2>1, <3>1 DEF SitesSeen
    <3> QED BY <1>4, <3>1, <3>2, DroppedIsNamed
  <2> QED BY <2>2, <2>3
<1> QED BY <1>3, <1>4

(* Every binding that is not known to be clean leaves a trace: a diagnostic,*)
(* one hidden with a note, a count of what was assumed, or an incomplete   *)
(* status.  This holds for every program, bound, deadline and order of the *)
(* packages; the calls excepted are those that are overlooked beside one   *)
(* that was followed.                                                      *)
THEOREM OnlyOverlookedLost == Spec => []OnlyOverlookedIsLost
<1>1. ASSUME IInv PROVE OnlyOverlookedIsLost
  <2> SUFFICES ASSUME NEW k \in Packages, Said(k), NEW b \in program.holds[k]
               PROVE  /\ Overlooked(k, b) = {} => DoubtIsKnown(k, b)
                      /\ \A s \in b.sites \ Overlooked(k, b) : DropIsKnown(k, b, s)
    BY DEF OnlyOverlookedIsLost
  <2>1. Overlooked(k, b) = {} => DoubtIsKnown(k, b)
    BY <1>1, DoubtfulIsNamed DEF DoubtIsKnown
  <2>2. \A s \in b.sites \ Overlooked(k, b) : DropIsKnown(k, b, s)
    BY <1>1, DropsAreKnown
  <2> QED BY <2>1, <2>2
<1> QED BY <1>1, Invariant, PTL

(* So nothing at all is lost of a program in which no call is overlooked:  *)
(* no returned handle has escaped before, and each has only callers that   *)
(* are followed or only ones that are not.  Two configurations show that   *)
(* neither condition can be left out.                                      *)
Apart == \A k \in Packages : \A b \in program.holds[k] : b.sites # {} => ~b.escapes
AllOrNone ==
  \A k \in Packages : \A b \in program.holds[k] :
    (\E s \in b.sites : s.does = "unverified") => \A s \in b.sites : s.does = "unverified"

THEOREM NothingLost == Spec => [](Apart /\ AllOrNone => NothingIsLost)
<1>1. ASSUME Apart, AllOrNone, NEW k \in Packages, NEW b \in program.holds[k]
      PROVE  Overlooked(k, b) = {}
  <2>1. CASE SitesSeen(k, b) = {}  BY <2>1 DEF Overlooked
  <2>2. CASE SitesSeen(k, b) # {}
    <3>1. PICK t \in b.sites : t.does # "unverified"  BY <2>2 DEF SitesSeen, Reached
    <3>2. \A s \in b.sites : s.does # "unverified"  BY <1>1, <3>1 DEF AllOrNone
    <3>3. ~b.escapes  BY <1>1, <3>1 DEF Apart
    <3> QED BY <3>2, <3>3 DEF Overlooked, Reached
  <2> QED BY <2>1, <2>2
<1>2. OnlyOverlookedIsLost => (Apart /\ AllOrNone => NothingIsLost)
  <2> SUFFICES ASSUME OnlyOverlookedIsLost, Apart, AllOrNone, NEW k \in Packages, Said(k),
                      NEW b \in program.holds[k]
               PROVE  DoubtIsKnown(k, b) /\ \A s \in b.sites : DropIsKnown(k, b, s)
    BY DEF NothingIsLost
  <2>1. Overlooked(k, b) = {}  BY <1>1
  <2> QED BY <2>1 DEF OnlyOverlookedIsLost
<1> QED BY <1>2, OnlyOverlookedLost, PTL

-----------------------------------------------------------------------------
(* A reported package that was not cut has built all units, or had too many.*)
LEMMA UncutIsWhole ==
  ASSUME IInv, NEW k \in Packages, stage[k] = "reported", k \notin deadline
  PROVE  Summary(k).incomplete <=> Units(k) # built[k]
<1>1. Whole(k)  BY DEF IInv, BuildInv
<1>2. Truncated(k) <=> built[k] # Units(k)  BY <1>1, SelectionFacts DEF IInv, Whole
<1>3. Summary(k).incomplete <=> Truncated(k)  BY <1>1 DEF Summary, Whole
<1> QED BY <1>2, <1>3

(* The status says incomplete if and only if the deadline passed or a unit *)
(* was left out, whatever is configured to be shown.                       *)
THEOREM IncompleteExact == Spec => []IncompleteIsExact
<1>1. ASSUME IInv, run.ended
      PROVE  run.says.incomplete <=> deadline # {} \/ \E k \in Packages : Units(k) # built[k]
  <2>1. run.says = Conclusion /\ program.driver = "standalone"
        /\ (deadline = {} => \A k \in Packages : stage[k] = "reported")
    BY <1>1 DEF IInv, EndInv
  <2>2. CASE deadline # {}
    <3>1. Conclusion.incomplete  BY <2>2 DEF Conclusion, Timeout, Total
    <3> QED BY <2>1, <2>2, <3>1
  <2>3. CASE deadline = {}
    <3>1. run.says.incomplete <=> \E k \in Packages : result[k].incomplete
      BY <2>1, <2>3 DEF Conclusion, Total
    <3>2. \A k \in Packages : result[k] = Summary(k)
      BY <1>1, <2>1, <2>3 DEF IInv, ReportInv
    <3>3. \A k \in Packages : Summary(k).incomplete <=> Units(k) # built[k]
      BY <1>1, <2>1, <2>3, UncutIsWhole
    <3> QED BY <2>3, <3>1, <3>2, <3>3
  <2> QED BY <2>2, <2>3
<1>2. ASSUME IInv, program.driver = "vet", NEW k \in Packages, stage[k] = "reported"
      PROVE  result[k].incomplete <=> k \in deadline \/ Units(k) # built[k]
  <2>1. CASE k \in deadline
    <3>1. result[k] = Timeout(Summary(k))  BY <1>2, <2>1 DEF IInv, ReportInv
    <3>2. result[k].incomplete  BY <3>1 DEF Timeout, Summary
    <3> QED BY <2>1, <3>2
  <2>2. CASE k \notin deadline
    <3>1. result[k] = Summary(k)  BY <1>2, <2>2 DEF IInv, ReportInv
    <3> QED BY <1>2, <2>2, <3>1, UncutIsWhole
  <2> QED BY <2>1, <2>2
<1>3. IInv => IncompleteIsExact  BY <1>1, <1>2 DEF IncompleteIsExact
<1> QED BY <1>3, Invariant, PTL

-----------------------------------------------------------------------------
(* What a unit carries is about a binding of the program: in the binding's *)
(* own unit, or in that of a caller it is returned to.                     *)
LEMMA CarriedFacts ==
  ASSUME IInv, NEW k \in Packages, NEW r \in recorded[k]
  PROVE  \E b \in program.holds[k] :
           /\ r.is.id = b.id /\ r.is.kind = b.kind /\ b.kind \in Kinds
           /\ \/ r.unit = Home(b) /\ r.is.escapes = (b.escapes \/ b.sites # {})
              \/ \E s \in b.sites : r.unit = s.in
<1>1. CASE \E b \in program.holds[k] : Carries(r.unit, b) /\ r.is = Settled(k, b)
  <2>1. PICK b \in program.holds[k] : Carries(r.unit, b) /\ r.is = Settled(k, b)  BY <1>1
  <2>2. b \in Binding  BY ProgramFacts DEF IInv
  <2>3. /\ r.is.id = b.id /\ r.is.kind = b.kind /\ b.kind \in Kinds
        /\ r.is.escapes = (b.escapes \/ b.sites # {})
    BY <2>1, <2>2 DEF Settled, Binding
  <2> QED BY <2>1, <2>3 DEF Carries, Home
<1>2. CASE Blames(k, r.is) /\ r.unit = r.is.at
  <2>1. PICK b \in program.holds[k] : r.is \in Owing(k, b)  BY <1>2 DEF Blames
  <2>2. PICK s \in SitesSeen(k, b) : r.is = Blamed(b, s)  BY <2>1 DEF Owing
  <2>3. b \in Binding /\ s \in b.sites  BY <2>2, ProgramFacts DEF IInv, SitesSeen, Reached
  <2>4. r.is.id = b.id /\ r.is.kind = b.kind /\ b.kind \in Kinds /\ r.is.at = s.in
    BY <2>2, <2>3 DEF Blamed, Binding
  <2> QED BY <1>2, <2>3, <2>4
<1> QED BY <1>1, <1>2 DEF IInv, CarryInv

(* A diagnostic is the notice of a bound, or the verdict on what a unit has.*)
LEMMA DiagnosticFacts ==
  ASSUME IInv, NEW k \in Packages, NEW d \in Diagnostics(k)
  PROVE  \/ d.id = 0 /\ d.pkg = k
         \/ \E r \in recorded[k] : /\ Verdicts(r.is) # {} /\ d.rule \in Rules
                                   /\ d.pkg = k /\ d.unit = r.unit /\ d.id = r.is.id
<1>1. CASE d = Notice(k)  BY <1>1 DEF Notice
<1>2. CASE d # Notice(k)
  <2>0. d \in UNION {{[pkg |-> k, unit |-> r.unit, id |-> r.is.id, rule |-> x, hush |-> r.is.hush] : x \in Verdicts(r.is)}
                       : r \in recorded[k]}
    BY <1>2 DEF Diagnostics
  <2>1. PICK r \in recorded[k] :
          d \in {[pkg |-> k, unit |-> r.unit, id |-> r.is.id, rule |-> x, hush |-> r.is.hush] : x \in Verdicts(r.is)}
    BY <2>0
  <2>2. PICK x \in Verdicts(r.is) :
          d = [pkg |-> k, unit |-> r.unit, id |-> r.is.id, rule |-> x, hush |-> r.is.hush]
    BY <2>1
  <2>3. r.is.kind \in Kinds  BY CarriedFacts
  <2>4. x \in Rules  BY <2>3 DEF Verdicts, Rules, Kinds
  <2> QED BY <2>2, <2>4
<1> QED BY <1>1, <1>2

(* What is shown or hidden in the end was so for a package, or is the      *)
(* notice of the run's own deadline.                                       *)
LEMMA SaysNothingElse ==
  ASSUME IInv, NEW k \in Packages, Said(k), NEW d \in Says(k).shown \cup Says(k).hidden
  PROVE  d.id = 0 \/ \E j \in Packages : stage[j] = "reported" /\ d \in Diagnostics(j)
<1>1. ASSUME NEW s, NEW e \in Timeout(s).shown \cup Timeout(s).hidden,
             DOMAIN s = {"shown", "hidden", "assumed", "incomplete"}
      PROVE  e.id = 0 \/ e \in s.shown \cup s.hidden
  BY <1>1 DEF Timeout
<1>2. ASSUME NEW j \in Packages, stage[j] = "reported", NEW e \in result[j].shown \cup result[j].hidden
      PROVE  e.id = 0 \/ e \in Diagnostics(j)
  <2>1. DOMAIN Summary(j) = {"shown", "hidden", "assumed", "incomplete"}
        /\ Summary(j).shown \cup Summary(j).hidden \subseteq Diagnostics(j)
    BY DEF Summary
  <2>2. result[j] = Summary(j) \/ result[j] = Timeout(Summary(j))
    BY <1>2 DEF IInv, ReportInv
  <2> QED BY <1>1, <1>2, <2>1, <2>2
<1>3. CASE program.driver = "vet"  BY <1>2, <1>3 DEF Said, Says
<1>4. CASE program.driver # "vet"
  <2>1. run.ended /\ Says(k) = Conclusion  BY <1>4 DEF Said, Says, IInv, EndInv
  <2>2. DOMAIN Total = {"shown", "hidden", "assumed", "incomplete"}  BY DEF Total
  <2>3. d.id = 0 \/ d \in Total.shown \cup Total.hidden
    BY <1>1, <2>1, <2>2 DEF Conclusion
  <2>4. ASSUME d \in Total.shown \cup Total.hidden
        PROVE  \E j \in Packages : d \in result[j].shown \cup result[j].hidden
    BY <2>4 DEF Total
  <2>5. \A j \in Packages : stage[j] # "reported" => result[j] = Nothing
    BY DEF IInv, BuildInv
  <2> QED BY <1>2, <2>3, <2>4, <2>5 DEF Nothing
<1> QED BY <1>3, <1>4

(* One obligation is reported in one place: where the binding is, or at    *)
(* the callers it is returned to.                                          *)
THEOREM NeverTwice == Spec => []ReportedOnce
<1>1. ASSUME IInv, NEW k \in Packages, Said(k), NEW b \in program.holds[k],
             NEW d \in Says(k).shown \cup Says(k).hidden, d.pkg = k, d.id = b.id
      PROVE  IF b.sites = {} THEN d.unit = Home(b) ELSE \E s \in b.sites : d.unit = s.in
  <2>1. /\ b.id # 0
        /\ b.kind = "goroutine" => b.sites = {}
        /\ \A c \in program.holds[k] : c.id = b.id => c = b
    <3>1. Shape  BY <1>1 DEF IInv
    <3> QED BY <3>1, ProgramFacts
  <2>2. PICK j \in Packages : stage[j] = "reported" /\ d \in Diagnostics(j)
    BY <1>1, <2>1, SaysNothingElse
  <2>3. PICK r \in recorded[j] : Verdicts(r.is) # {} /\ d.pkg = j /\ d.unit = r.unit /\ d.id = r.is.id
    BY <1>1, <2>1, <2>2, DiagnosticFacts
  <2>4. /\ r.is.id = b.id /\ r.is.kind = b.kind /\ b.kind \in Kinds
        /\ \/ r.unit = Home(b) /\ r.is.escapes = (b.escapes \/ b.sites # {})
           \/ \E s \in b.sites : r.unit = s.in
    <3>1. r \in recorded[k]  BY <1>1, <2>3
    <3>2. PICK c \in program.holds[k] :
            /\ r.is.id = c.id /\ r.is.kind = c.kind /\ c.kind \in Kinds
            /\ \/ r.unit = Home(c) /\ r.is.escapes = (c.escapes \/ c.sites # {})
               \/ \E s \in c.sites : r.unit = s.in
      BY <1>1, <3>1, CarriedFacts
    <3>3. c = b  BY <1>1, <2>1, <2>3, <3>2
    <3> QED BY <3>2, <3>3
  <2>5. ASSUME b.sites # {}, r.is.escapes = (b.escapes \/ b.sites # {}) PROVE FALSE
    <3>1. r.is.kind \in {"cancel", "group"} /\ r.is.escapes
      <4>1. b.kind # "goroutine"
        <5>1. ~(b.sites = {})  BY <2>5
        <5> QED BY <2>1, <5>1
      <4> QED BY <2>4, <2>5, <4>1 DEF Kinds
    <3> QED BY <2>3, <3>1 DEF Verdicts
  <2> QED BY <2>3, <2>4, <2>5
<1>2. ASSUME IInv PROVE ReportedOnce
  <2> SUFFICES ASSUME NEW k \in Packages, Said(k), NEW b \in program.holds[k]
               PROVE
                 LET at == {d.unit : d \in {e \in Says(k).shown \cup Says(k).hidden : e.pkg = k /\ e.id = b.id}}
                 IN  at \subseteq {Home(b)} \/ at \subseteq {s.in : s \in b.sites}
    BY DEF ReportedOnce
  <2> QED BY <1>1, <1>2
<1> QED BY <1>2, Invariant, PTL

(* A strict run that exits 0 and hid nothing vouches for every unit and    *)
(* every binding of every package, at every call that is not overlooked.   *)
THEOREM StrictIsClean == Spec => []StrictExitIsClean
<1>1. ASSUME IInv, OnlyOverlookedIsLost, IncompleteIsExact, run.exit = "ok", "all" \in program.failOn,
             program.failOnIncomplete, program.failOnUnsupported, run.says.hidden = {}
      PROVE  /\ deadline = {}
             /\ \A k \in Packages :
                  /\ built[k] = Units(k)
                  /\ \A b \in program.holds[k] :
                       /\ Overlooked(k, b) = {} => ~Doubtful(b)
                       /\ b.kind # "goroutine" /\ Lost(b) =>
                            \A s \in b.sites \ Overlooked(k, b) : s.does = "all"
  <2>1. /\ run.ended /\ program.driver = "standalone" /\ run.says = Conclusion
        /\ deadline = {} => \A k \in Packages : stage[k] = "reported"
        /\ ~FailsPolicy(run.says) /\ ~FailsStatusPolicy(run.says)
    BY <1>1 DEF IInv, EndInv
  <2>2. ~run.says.incomplete /\ run.says.assumed = {}  BY <1>1, <2>1 DEF FailsStatusPolicy
  <2>3. \A d \in run.says.shown : d.rule = "LL9001"  BY <1>1, <2>1 DEF FailsPolicy
  <2>4. deadline = {} /\ \A k \in Packages : Units(k) = built[k]
    BY <1>1, <2>1, <2>2 DEF IncompleteIsExact
  <2>5. \A k \in Packages : Said(k) /\ Says(k) = run.says  BY <2>1 DEF Said, Says
  <2>6. ASSUME NEW k \in Packages, NEW u, NEW b \in program.holds[k] PROVE ~Named(Says(k), k, u, b.id)
    <3>1. b.id # 0  BY ProgramFacts, <1>1 DEF IInv
    <3>2. ASSUME NEW d \in Says(k).shown, d.id = b.id PROVE FALSE
      <4>1. PICK j \in Packages : d \in Diagnostics(j)
        BY <1>1, <2>5, <3>1, <3>2, SaysNothingElse
      <4>2. d.rule \in Rules  BY <1>1, <3>1, <3>2, <4>1, DiagnosticFacts
      <4>3. d.rule = "LL9001"  BY <2>3, <2>5, <3>2
      <4> QED BY <4>2, <4>3 DEF Rules
    <3> QED BY <1>1, <2>2, <2>5, <3>2 DEF Named
  <2>7. ASSUME NEW k \in Packages, NEW b \in program.holds[k]
        PROVE  /\ Overlooked(k, b) = {} => ~Doubtful(b)
               /\ b.kind # "goroutine" /\ Lost(b) =>
                    \A s \in b.sites \ Overlooked(k, b) : s.does = "all"
    <3>1. Overlooked(k, b) = {} => DoubtIsKnown(k, b)
      BY <1>1, <2>5 DEF OnlyOverlookedIsLost
    <3>2. \A s \in b.sites \ Overlooked(k, b) : DropIsKnown(k, b, s)
      BY <1>1, <2>5 DEF OnlyOverlookedIsLost
    <3>3. ~Says(k).incomplete  BY <2>2, <2>5
    <3> QED BY <2>6, <3>1, <3>2, <3>3 DEF DoubtIsKnown, DropIsKnown
  <2> QED BY <2>4, <2>7
<1>2. IInv /\ OnlyOverlookedIsLost /\ IncompleteIsExact => StrictExitIsClean
  BY <1>1 DEF StrictExitIsClean
<1> QED BY <1>2, Invariant, OnlyOverlookedLost, IncompleteExact, PTL
=============================================================================
