--------------------------- MODULE RuntimeProofs ---------------------------
(***************************************************************************)
(* Theorems about run_plan, for every plan over every vocabulary: type     *)
(* correctness, that it implements the order-free execution, that a plan   *)
(* the validator passes is run in one pass to its end, and that a run that *)
(* ends well refutes the hard errors.  The validator's search for cycles   *)
(* comes last: module Tarjan finds every cyclic component once.            *)
(***************************************************************************)
EXTENDS Runtime, Tarjan, ListsProofs

\* The domain of a plan's step list is an interval of integers.
LEMMA StepDomain ==
  ASSUME NEW p \in AgentPlan
  PROVE  /\ p.steps \in Seq(Step)
         /\ Len(p.steps) \in Nat
         /\ DOMAIN p.steps = 1 .. Len(p.steps)
         /\ \A i \in DOMAIN p.steps : p.steps[i] \in Step
  BY DEF AgentPlan

\* A list with steps has a last one.
LEMMA EmptyIsShort ==
  ASSUME NEW ss \in Seq(Step), ss # <<>>
  PROVE  Len(ss) \in 1 .. Len(ss)
  OBVIOUS

\* A step that fails on its own does so for a reason of the runtime's list.
LEMMA LocalFailureType ==
  ASSUME NEW s
  PROVE  LocalFailure(s) \in Reason \cup {NoReason}
  BY DEF LocalFailure, Reason, NoReason, UNKNOWN_TOOL, UNUSABLE_ARGUMENT

\* run_plan keeps its bookkeeping well formed: the snapshot of a pass holds only
\* pending indices, and every verdict and reason is one of the declared ones.
THEOREM TypeCorrect == Spec => []TypeOK
<1>1. Init => TypeOK
  BY DEF Init, Start, TypeOK, Verdict, Pending
<1>2. TypeOK /\ [Next]_vars => TypeOK'
  <2> SUFFICES ASSUME TypeOK, [Next]_vars PROVE TypeOK'
    OBVIOUS
  <2> USE DEF TypeOK, Pending, Verdict, steps
  <2>1. CASE BeginPass
    BY <2>1 DEF BeginPass
  <2>2. CASE EndPass
    BY <2>2 DEF EndPass
  <2>3. CASE Drain
    BY <2>3 DEF Drain, Reason
  <2>4. ASSUME NEW i \in DOMAIN plan.steps, NEW v \in Verdict \ {"undecided"},
               NEW r \in Reason \cup {NoReason}, Settle(i, v, r), pc = "pass"
        PROVE  TypeOK'
    BY <2>4 DEF Settle
  <2>5. ASSUME NEW i \in DOMAIN plan.steps, FailLocally(i) PROVE TypeOK'
    BY <2>4, <2>5, LocalFailureType DEF FailLocally, Visits
  <2>6. ASSUME NEW i \in DOMAIN plan.steps, FailUnknownDependency(i) PROVE TypeOK'
    BY <2>4, <2>6 DEF FailUnknownDependency, Visits, Reason
  <2>7. ASSUME NEW i \in DOMAIN plan.steps, Revisit(i) PROVE TypeOK'
    BY <2>7 DEF Revisit, Judged
  <2>8. ASSUME NEW i \in DOMAIN plan.steps, Succeed(i) PROVE TypeOK'
    BY <2>4, <2>8 DEF Succeed, Judged, Visits
  <2>9. ASSUME NEW i \in DOMAIN plan.steps, FailDependency(i) PROVE TypeOK'
    BY <2>4, <2>9 DEF FailDependency, Judged, Visits, Reason
  <2>10. CASE UNCHANGED vars
    BY <2>10 DEF vars
  <2>11. QED
    BY <2>1, <2>2, <2>3, <2>5, <2>6, <2>7, <2>8, <2>9, <2>10 DEF Next
<1>3. QED BY <1>1, <1>2, PTL DEF Spec

-----------------------------------------------------------------------------
(***************************************************************************)
(* Giving up.  While a pass has settled nothing, every pending step it has *)
(* already passed over still waits for an undecided one: verdicts change   *)
(* only by settling a step.                                                *)
(***************************************************************************)
StillWaits(i) ==
  /\ LocalFailure(steps[i]) = NoReason
  /\ MissingDeps(steps, i) = {}
  /\ Waits(steps, decided, i)

StallInv ==
  /\ (pc = "pass" /\ ~progressed) => \A i \in Pending \ queue : StillWaits(i)
  /\ pc = "drain" => \A i \in Pending : StillWaits(i)

LEMMA StallInductive == TypeOK /\ StallInv /\ [Next]_vars => StallInv'
<1> SUFFICES ASSUME TypeOK, StallInv, [Next]_vars PROVE StallInv'
  OBVIOUS
<1> USE DEF StallInv, steps
<1>1. CASE BeginPass
  BY <1>1 DEF BeginPass, Pending
<1>2. CASE EndPass
  <2>1. steps' = steps /\ decided' = decided /\ Pending' = Pending
    BY <1>2 DEF EndPass, Pending
  <2>2. \A i : StillWaits(i)' <=> StillWaits(i)
    BY <2>1 DEF StillWaits, MissingDeps, Waits, Suppliers
  <2>3. pc' = "drain" => ~progressed /\ pc = "pass" /\ queue = {}
    BY <1>2 DEF EndPass
  <2>4. pc' # "pass"
    BY <1>2 DEF EndPass
  <2>5. QED BY <2>1, <2>2, <2>3, <2>4
<1>3. CASE Drain
  BY <1>3 DEF Drain
<1>4. ASSUME NEW i \in DOMAIN plan.steps, NEW v, NEW r, Settle(i, v, r), pc = "pass"
      PROVE  StallInv'
  BY <1>4 DEF Settle
<1>5. ASSUME NEW i \in DOMAIN plan.steps, Revisit(i) PROVE StallInv'
  <2>1. steps' = steps /\ decided' = decided /\ Pending' = Pending /\ pc' = "pass"
        /\ pc = "pass" /\ progressed' = progressed /\ queue' = queue \ {i}
    BY <1>5 DEF Revisit, Judged, Visits, Pending
  <2>2. \A j : StillWaits(j)' <=> StillWaits(j)
    BY <2>1 DEF StillWaits, MissingDeps, Waits, Suppliers
  <2>3. StillWaits(i)
    BY <1>5 DEF Revisit, Judged, StillWaits
  <2>4. QED BY <2>1, <2>2, <2>3
<1>6. CASE \E i \in DOMAIN plan.steps :
             FailLocally(i) \/ FailUnknownDependency(i) \/ Succeed(i) \/ FailDependency(i)
  BY <1>4, <1>6 DEF FailLocally, FailUnknownDependency, Succeed, FailDependency, Judged, Visits
<1>7. CASE UNCHANGED vars
  <2>1. steps' = steps /\ decided' = decided /\ Pending' = Pending /\ pc' = pc
        /\ progressed' = progressed /\ queue' = queue
    BY <1>7 DEF vars, Pending
  <2>2. \A j : StillWaits(j)' <=> StillWaits(j)
    BY <2>1 DEF StillWaits, MissingDeps, Waits, Suppliers
  <2>3. QED BY <2>1, <2>2
<1>8. QED BY <1>1, <1>2, <1>3, <1>5, <1>6, <1>7 DEF Next

\* When run_plan breaks out of its loop, no pending step can be decided any more.
THEOREM StallIsFinal == Spec => []StalledPassIsFinal
<1>1. Init => StallInv
  BY DEF Init, Start, StallInv
<1>2. StallInv => StalledPassIsFinal
  BY DEF StallInv, StalledPassIsFinal, StillWaits
<1>3. QED BY <1>1, <1>2, StallInductive, TypeCorrect, PTL DEF Spec

-----------------------------------------------------------------------------
\* The instance brings its own copy of the rules; they are the same rules.
LEMMA SameRules ==
  /\ \A ss, i : Flow!OwnFailure(ss, i) = OwnFailure(ss, i)
  /\ \A ss, d, i : Flow!Waits(ss, d, i) <=> Waits(ss, d, i)
  /\ \A ss, d, i : Flow!Supplied(ss, d, i) <=> Supplied(ss, d, i)
  /\ Flow!NoReason = NoReason
  /\ Flow!FAILED_DEPENDENCY = FAILED_DEPENDENCY
  /\ Flow!UNRESOLVABLE = UNRESOLVABLE
<1>1. \A s : Flow!LocalFailure(s) = LocalFailure(s)
  BY DEF Flow!LocalFailure, LocalFailure, Flow!NoReason, NoReason, Flow!UNKNOWN_TOOL,
         UNKNOWN_TOOL, Flow!UNUSABLE_ARGUMENT, UNUSABLE_ARGUMENT
<1>2. \A ss, i : Flow!MissingDeps(ss, i) = MissingDeps(ss, i)
  BY DEF Flow!MissingDeps, MissingDeps, Flow!KnownIds, KnownIds
<1>3. \A ss, i : Flow!OwnFailure(ss, i) = OwnFailure(ss, i)
  BY <1>1, <1>2 DEF Flow!OwnFailure, OwnFailure, Flow!NoReason, NoReason,
                    Flow!UNKNOWN_DEPENDENCY, UNKNOWN_DEPENDENCY
<1>4. \A ss, i : Flow!Suppliers(ss, i) = Suppliers(ss, i)
  BY DEF Flow!Suppliers, Suppliers
<1>5. QED
  BY <1>3, <1>4 DEF Flow!Waits, Waits, Flow!Supplied, Supplied, Flow!NoReason, NoReason,
     Flow!FAILED_DEPENDENCY, FAILED_DEPENDENCY, Flow!UNRESOLVABLE, UNRESOLVABLE

\* And they define the same final reasons.
LEMMA SameOutcome ==
  /\ \A ss, i : Flow!FinalReason(ss, i) = FinalReason(ss, i)
  /\ Flow!NoReason = NoReason
<1>1. \A F, id : Flow!Upstream(F, id) = Upstream(F, id)
  BY DEF Flow!Upstream, Upstream
<1>2. \A ss : Flow!WaitsFor(ss) = WaitsFor(ss)
  <2>1. \A ss, i : Flow!Suppliers(ss, i) = Suppliers(ss, i)
    BY DEF Flow!Suppliers, Suppliers
  <2> QED BY <2>1, SameRules DEF Flow!WaitsFor, WaitsFor
<1> QED BY <1>1, <1>2, SameRules DEF Flow!FinalReason, FinalReason

\* Walking the list pass by pass is one way of executing by dependencies alone:
\* every step of run_plan is a step of Dataflow or changes nothing it can see.
THEOREM RefinesDataflow == Spec => ImplementsDataflow
<1>1. Init => Flow!Init
  BY SameRules DEF Init, Start, steps, AgentPlan, Step, StopCondition, Flow!Init, Flow!Start,
                   Flow!AgentPlan, Flow!Step, Flow!StopCondition
<1>2. TypeOK /\ StallInv /\ [Next]_vars => [Flow!Next]_(Flow!vars)
  <2> SUFFICES ASSUME TypeOK, StallInv, [Next]_vars PROVE [Flow!Next]_(Flow!vars)
    OBVIOUS
  <2> USE DEF steps
  <2>1. CASE BeginPass \/ EndPass \/ \E i \in DOMAIN plan.steps : Revisit(i)
    BY <2>1 DEF BeginPass, EndPass, Revisit, Judged, Visits, Flow!vars
  <2>2. CASE Drain
    <3>1. \A i \in DOMAIN plan.steps : ~Flow!Decidable(i)
      BY <2>2, SameRules DEF Drain, Pending, StallInv, StillWaits, OwnFailure,
                  Flow!Decidable, Flow!Undecided
    <3>2. pc # "done" /\ pc' = "done" /\ plan' = plan
      BY <2>2 DEF Drain
    <3>3. /\ decided' = [i \in DOMAIN plan.steps |->
                           IF Flow!Undecided(i) THEN "failed" ELSE decided[i]]
          /\ reasons' = [i \in DOMAIN plan.steps |->
                           IF Flow!Undecided(i) THEN UNRESOLVABLE ELSE reasons[i]]
      BY <2>2 DEF Drain, Pending, Flow!Undecided
    <3>4. Flow!Finish
      BY <3>1, <3>2, <3>3, SameRules DEF Flow!Finish
    <3>5. QED BY <3>4 DEF Flow!Next
  <2>3. ASSUME NEW i \in DOMAIN plan.steps, Visits(i),
               NEW why \in Reason \cup {NoReason},
               why = (IF OwnFailure(plan.steps, i) # NoReason THEN OwnFailure(plan.steps, i)
                      ELSE IF Supplied(plan.steps, decided, i) THEN NoReason
                      ELSE FAILED_DEPENDENCY),
               OwnFailure(plan.steps, i) # NoReason \/ ~Waits(plan.steps, decided, i),
               Settle(i, IF why = NoReason THEN "succeeded" ELSE "failed", why)
        PROVE  Flow!Next
    <3>1. Flow!Decidable(i)
      BY <2>3, SameRules DEF Visits, TypeOK, Pending, Flow!Decidable, Flow!Undecided
    <3>2. Flow!Decide(i)
      BY <2>3, <3>1, SameRules DEF Settle, Flow!Decide
    <3>3. QED BY <3>2 DEF Flow!Next
  <2>4. ASSUME NEW i \in DOMAIN plan.steps, FailLocally(i) PROVE Flow!Next
    BY <2>3, <2>4, LocalFailureType DEF FailLocally, OwnFailure
  <2>5. ASSUME NEW i \in DOMAIN plan.steps, FailUnknownDependency(i) PROVE Flow!Next
    BY <2>3, <2>5 DEF FailUnknownDependency, OwnFailure, Reason, NoReason, UNKNOWN_DEPENDENCY
  <2>6. ASSUME NEW i \in DOMAIN plan.steps, Succeed(i) PROVE Flow!Next
    BY <2>3, <2>6 DEF Succeed, Judged, OwnFailure
  <2>7. ASSUME NEW i \in DOMAIN plan.steps, FailDependency(i) PROVE Flow!Next
    BY <2>3, <2>7 DEF FailDependency, Judged, OwnFailure, Reason, NoReason, FAILED_DEPENDENCY
  <2>8. CASE UNCHANGED vars
    BY <2>8 DEF vars, Flow!vars
  <2>9. QED
    BY <2>1, <2>2, <2>4, <2>5, <2>6, <2>7, <2>8 DEF Next
<1>3. Init => StallInv
  BY DEF Init, Start, StallInv
<1>4. QED
  BY <1>1, <1>2, <1>3, StallInductive, TypeCorrect, PTL
  DEF Spec, ImplementsDataflow, Flow!Spec

-----------------------------------------------------------------------------
(***************************************************************************)
(* The outcome depends on the dependencies alone.  Upstream is a closure.  *)
(***************************************************************************)
LEMMA UpstreamCloses ==
  ASSUME NEW X, NEW F \in [X -> SUBSET X], NEW id \in X
  PROVE  /\ Upstream(F, id) \subseteq X
         /\ F[id] \subseteq Upstream(F, id)
         /\ \A y \in Upstream(F, id) : F[y] \subseteq Upstream(F, id)
  BY DEF Upstream

LEMMA UpstreamIsLeast ==
  ASSUME NEW X, NEW F \in [X -> SUBSET X], NEW id \in X,
         NEW S \in SUBSET X, F[id] \subseteq S, \A y \in S : F[y] \subseteq S
  PROVE  Upstream(F, id) \subseteq S
  BY DEF Upstream

LEMMA UpstreamIsTransitive ==
  ASSUME NEW X, NEW F \in [X -> SUBSET X], NEW id \in X,
         NEW k \in Upstream(F, id)
  PROVE  k \in X /\ Upstream(F, k) \subseteq Upstream(F, id)
<1>1. k \in X /\ Upstream(F, id) \in SUBSET X
  BY UpstreamCloses
<1>2. F[k] \subseteq Upstream(F, id)
  BY UpstreamCloses
<1>3. \A y \in Upstream(F, id) : F[y] \subseteq Upstream(F, id)
  BY UpstreamCloses
<1>4. QED BY <1>1, <1>2, <1>3, UpstreamIsLeast

\* In a finite graph, a set of nodes each of which has an edge into the set
\* reaches a cycle: a node of it with the fewest nodes upstream is on one.
LEMMA StuckReachesCycle ==
  ASSUME NEW X, IsFiniteSet(X), NEW F \in [X -> SUBSET X],
         NEW U \in SUBSET X, U # {}, \A j \in U : \E k \in U : k \in F[j]
  PROVE  \E j \in U : j \in Upstream(F, j)
<1> DEFINE up(j) == Upstream(F, j)
           T == {up(j) : j \in U}
           R == StrictSubsetOrdering(X)
<1>1. T \subseteq SUBSET X /\ T # {}
  BY UpstreamCloses
<1>2. IsWellFoundedOn(R, SUBSET X)
  BY FS_StrictSubsetOrderingWellFounded, FS_FiniteSubsetsOfFinite
<1>3. PICK t \in T : \A y \in T : ~(<<y, t>> \in R)
  <2> HIDE DEF T, R
  <2> QED BY <1>1, <1>2, WFMin
<1>4. PICK j \in U : t = up(j)
  OBVIOUS
<1>5. PICK k \in U : k \in F[j]
  OBVIOUS
<1>6. k \in up(j)
  BY <1>5, UpstreamCloses
<1>7. up(k) \subseteq up(j)
  BY <1>6, UpstreamIsTransitive
<1>8. up(k) = up(j)
  <2>1. up(k) \in T /\ up(k) \in SUBSET X /\ up(j) \in SUBSET X
    BY <1>1
  <2>2. <<up(k), up(j)>> \notin R
    BY <1>3, <1>4, <2>1
  <2>3. QED BY <1>7, <2>1, <2>2 DEF StrictSubsetOrdering
<1>9. QED BY <1>6, <1>8

(***************************************************************************)
(* The invariant.  Before the end, a decided step is grounded: everything  *)
(* upstream of it is decided and it is not upstream of itself; it          *)
(* succeeded only if its suppliers did and nothing upstream fails on its   *)
(* own, and it failed for a failure that is really there.                  *)
(***************************************************************************)
Waiting == WaitsFor(plan.steps)
Own(i) == OwnFailure(plan.steps, i)
Up(i) == Upstream(Waiting, i)

Grounded(i) ==
  /\ \A j \in Up(i) : decided[j] # "undecided"
  /\ i \notin Up(i)
  /\ decided[i] = "succeeded" =>
       /\ reasons[i] = NoReason /\ Own(i) = NoReason
       /\ \A k \in Waiting[i] : decided[k] = "succeeded"
       /\ \A j \in Up(i) : Own(j) = NoReason
  /\ decided[i] = "failed" =>
       \/ Own(i) # NoReason /\ reasons[i] = Own(i)
       \/ /\ Own(i) = NoReason /\ reasons[i] = FAILED_DEPENDENCY
          /\ \E j \in Up(i) : Own(j) # NoReason

FlowInv ==
  /\ plan \in AgentPlan
  /\ decided \in [DOMAIN plan.steps -> Verdict]
  /\ reasons \in [DOMAIN plan.steps -> Reason \cup {NoReason}]
  /\ pc # "done" => \A i \in DOMAIN plan.steps : decided[i] # "undecided" => Grounded(i)
  /\ pc = "done" => OutcomeIsOrderFree

LEMMA WaitingType ==
  ASSUME plan \in AgentPlan
  PROVE  /\ Waiting \in [DOMAIN plan.steps -> SUBSET DOMAIN plan.steps]
         /\ IsFiniteSet(DOMAIN plan.steps)
         /\ \A i \in DOMAIN plan.steps :
              Waiting[i] = IF Own(i) = NoReason THEN Suppliers(plan.steps, i) ELSE {}
<1>1. DOMAIN plan.steps = 1 .. Len(plan.steps) /\ Len(plan.steps) \in Nat
  BY DEF AgentPlan
<1>2. IsFiniteSet(DOMAIN plan.steps)
  BY <1>1, FS_Interval
<1>3. QED BY <1>2 DEF Waiting, WaitsFor, Suppliers, Own

LEMMA OwnType == \A i : Own(i) \in Reason \cup {NoReason}
  BY DEF Own, OwnFailure, LocalFailure, Reason, NoReason, UNKNOWN_TOOL, UNUSABLE_ARGUMENT,
         UNKNOWN_DEPENDENCY

\* What the two actions of the execution say in terms of the rules of this module.
LEMMA DecideMeans ==
  ASSUME NEW i, Flow!Decide(i)
  PROVE  /\ plan' = plan /\ (pc' = "done" <=> pc = "done")
         /\ decided[i] = "undecided"
         /\ Own(i) # NoReason \/ ~Waits(plan.steps, decided, i)
         /\ LET why == IF Own(i) # NoReason THEN Own(i)
                       ELSE IF Supplied(plan.steps, decided, i) THEN NoReason
                       ELSE FAILED_DEPENDENCY
            IN  /\ decided' = [decided EXCEPT ![i] = IF why = NoReason THEN "succeeded" ELSE "failed"]
                /\ reasons' = [reasons EXCEPT ![i] = why]
  BY SameRules DEF Flow!Decide, Flow!Decidable, Flow!Undecided, Own

LEMMA FinishMeans ==
  ASSUME Flow!Finish
  PROVE  /\ plan' = plan /\ pc' = "done" /\ pc # "done"
         /\ \A i \in DOMAIN plan.steps :
              decided[i] = "undecided" => Own(i) = NoReason /\ Waits(plan.steps, decided, i)
         /\ decided' = [i \in DOMAIN plan.steps |-> IF decided[i] = "undecided" THEN "failed" ELSE decided[i]]
         /\ reasons' = [i \in DOMAIN plan.steps |-> IF decided[i] = "undecided" THEN UNRESOLVABLE ELSE reasons[i]]
  BY SameRules DEF Flow!Finish, Flow!Decidable, Flow!Undecided, Own

\* Deciding a step grounds it and leaves the grounded steps grounded.
LEMMA DecideKeepsGrounded ==
  ASSUME FlowInv, pc # "done", NEW i \in DOMAIN plan.steps, Flow!Decide(i)
  PROVE  FlowInv'
<1> DEFINE D == DOMAIN plan.steps
           done == {j \in D : decided[j] # "undecided"}
           good == {j \in D : decided[j] = "succeeded"}
<1>1. /\ plan' = plan /\ (pc' = "done" <=> pc = "done") /\ Waiting' = Waiting
      /\ \A j : Own(j)' = Own(j) /\ Up(j)' = Up(j)
  BY DecideMeans DEF Waiting, Own, Up
<1>2. Waiting \in [D -> SUBSET D] /\ IsFiniteSet(D)
  BY WaitingType DEF FlowInv
<1>3. \A j \in D : j \in done => Grounded(j)
  BY DEF FlowInv
<1>4. \A j \in D : Waiting[j] \subseteq Up(j) /\ Up(j) \subseteq D
  BY <1>2, UpstreamCloses DEF Up
<1>5. i \notin done /\ Waiting[i] \subseteq done
  BY WaitingType, DecideMeans DEF Waits, Suppliers, FlowInv, Own
<1>6. \A j \in done : Waiting[j] \subseteq done
  BY <1>3, <1>4 DEF Grounded
<1>7. Up(i) \subseteq done
  <2>1. done \in SUBSET D
    OBVIOUS
  <2> HIDE DEF done, D
  <2>2. i \in D
    BY DEF D
  <2>3. QED BY <1>2, <1>5, <1>6, <2>1, <2>2, UpstreamIsLeast DEF Up
<1>8. /\ decided' \in [D -> Verdict]
      /\ reasons' \in [D -> Reason \cup {NoReason}]
      /\ \A j \in D \ {i} : decided'[j] = decided[j] /\ reasons'[j] = reasons[j]
      /\ reasons'[i] = IF Own(i) # NoReason THEN Own(i)
                       ELSE IF Supplied(plan.steps, decided, i) THEN NoReason
                       ELSE FAILED_DEPENDENCY
      /\ decided'[i] = IF reasons'[i] = NoReason THEN "succeeded" ELSE "failed"
  BY OwnType, DecideMeans DEF FlowInv, Verdict, Reason
<1>9. ASSUME NEW j \in done PROVE Grounded(j)'
  BY <1>1, <1>3, <1>4, <1>5, <1>6, <1>8 DEF Grounded
<1>10. Grounded(i)'
  <2>1. (\A j \in Up(i) : decided[j] # "undecided")' /\ (i \notin Up(i))'
    BY <1>1, <1>5, <1>7, <1>8
  <2>2. CASE Own(i) # NoReason
    BY <1>1, <1>8, <2>1, <2>2 DEF Grounded
  <2>3. CASE Own(i) = NoReason /\ Supplied(plan.steps, decided, i)
    <3>1. Waiting[i] \subseteq good
      BY <2>3, WaitingType DEF Supplied, FlowInv, Suppliers
    <3>2. \A j \in good : Waiting[j] \subseteq good
      BY <1>3, <1>6 DEF Grounded
    <3>3. Up(i) \subseteq good
      <4>1. good \in SUBSET D /\ i \in D
        OBVIOUS
      <4> HIDE DEF good, D
      <4>2. QED BY <1>2, <3>1, <3>2, <4>1, UpstreamIsLeast DEF Up
    <3>4. \A j \in good : Own(j) = NoReason
      BY <1>3 DEF Grounded
    <3>5. \A j \in Waiting[i] : decided'[j] = "succeeded"
      BY <1>5, <1>8, <3>1
    <3>6. QED BY <1>1, <1>8, <2>1, <2>3, <3>3, <3>4, <3>5 DEF Grounded
  <2>4. CASE Own(i) = NoReason /\ ~Supplied(plan.steps, decided, i)
    <3>1. PICK k \in Suppliers(plan.steps, i) : decided[k] # "succeeded"
      BY <2>4 DEF Supplied
    <3>2. k \in Waiting[i] /\ k \in done /\ k \in D
      BY <1>5, <2>4, <3>1, WaitingType DEF FlowInv
    <3>3. decided[k] = "failed" /\ Grounded(k)
      BY <1>3, <3>1, <3>2 DEF FlowInv, Verdict
    <3>4. k \in Up(i) /\ Up(k) \subseteq Up(i)
      BY <1>2, <1>4, <3>2, UpstreamIsTransitive DEF Up
    <3>5. \E j \in Up(i) : Own(j) # NoReason
      BY <3>3, <3>4 DEF Grounded
    <3>6. reasons'[i] = FAILED_DEPENDENCY /\ decided'[i] = "failed"
      BY <1>8, <2>4 DEF FAILED_DEPENDENCY, NoReason
    <3>7. QED BY <1>1, <2>1, <2>4, <3>5, <3>6 DEF Grounded
  <2>5. QED BY <2>2, <2>3, <2>4
<1>11. \A j \in D : decided'[j] # "undecided" => j \in done \/ j = i
  BY <1>8
<1>12. QED BY <1>1, <1>8, <1>9, <1>10, <1>11 DEF FlowInv

\* What finishing writes is what FinalReason says, step by step.
LEMMA FinishIsFinal ==
  ASSUME FlowInv, Flow!Finish
  PROVE  FlowInv'
<1> DEFINE D == DOMAIN plan.steps
           needed(i) == {i} \cup Up(i)
<1>1. plan' = plan /\ pc' = "done" /\ pc # "done"
  BY FinishMeans
<1>2. Waiting \in [D -> SUBSET D] /\ IsFiniteSet(D)
  BY WaitingType DEF FlowInv
<1>3. \A i \in D : decided[i] # "undecided" => Grounded(i)
  BY <1>1 DEF FlowInv
<1>4. \A i \in D : FinalReason(plan.steps, i) =
        IF Own(i) # NoReason THEN Own(i)
        ELSE IF \E j \in needed(i) : j \in Up(j) THEN UNRESOLVABLE
        ELSE IF \E j \in needed(i) : Own(j) # NoReason THEN FAILED_DEPENDENCY
        ELSE NoReason
  BY DEF FinalReason, Up, Waiting, Own
<1>5. ASSUME NEW i \in D, decided[i] # "undecided"
      PROVE  /\ reasons[i] = FinalReason(plan.steps, i)
             /\ decided[i] = IF FinalReason(plan.steps, i) = NoReason
                             THEN "succeeded" ELSE "failed"
  <2>1. Grounded(i) /\ Up(i) \subseteq D
    BY <1>2, <1>3, <1>5, UpstreamCloses DEF Up
  <2>2. \A j \in needed(i) : j \notin Up(j)
    BY <1>3, <1>5, <2>1 DEF Grounded
  <2>3. decided[i] \in {"succeeded", "failed"}
    BY <1>5 DEF FlowInv, Verdict
  <2>4. CASE decided[i] = "succeeded"
    BY <1>4, <2>1, <2>2, <2>4 DEF Grounded
  <2>5. CASE decided[i] = "failed"
    BY <1>4, <2>1, <2>2, <2>5 DEF Grounded, FAILED_DEPENDENCY, NoReason
  <2>6. QED BY <2>3, <2>4, <2>5
<1>6. ASSUME NEW i \in D, decided[i] = "undecided"
      PROVE  FinalReason(plan.steps, i) = UNRESOLVABLE
  <2> DEFINE U == {j \in needed(i) : decided[j] = "undecided"}
  <2>1. Up(i) \subseteq D /\ Waiting[i] \subseteq Up(i)
        /\ \A y \in Up(i) : Waiting[y] \subseteq Up(i)
    BY <1>2, UpstreamCloses DEF Up
  <2>2. U \in SUBSET D /\ U # {}
    BY <1>6, <2>1
  <2>3. ASSUME NEW j \in U PROVE \E k \in U : k \in Waiting[j]
    <3>1. Own(j) = NoReason /\ Waits(plan.steps, decided, j)
      BY <2>2, <2>3, FinishMeans
    <3>2. PICK k \in Suppliers(plan.steps, j) : decided[k] = "undecided"
      BY <3>1 DEF Waits
    <3>3. k \in Waiting[j]
      BY <2>2, <3>1, <3>2, WaitingType DEF FlowInv
    <3>4. k \in Up(i)
      BY <2>1, <2>3, <3>3
    <3>5. QED BY <3>2, <3>3, <3>4
  <2>4. \E j \in U : j \in Up(j)
    <3> HIDE DEF U
    <3> QED BY <1>2, <2>2, <2>3, StuckReachesCycle DEF Up
  <2>5. Own(i) = NoReason
    BY <1>6, FinishMeans
  <2>6. QED BY <1>4, <2>4, <2>5
<1>7. /\ decided' = [i \in D |-> IF decided[i] = "undecided" THEN "failed" ELSE decided[i]]
      /\ reasons' = [i \in D |-> IF decided[i] = "undecided" THEN UNRESOLVABLE ELSE reasons[i]]
  BY FinishMeans
<1>8. OutcomeIsOrderFree'
  BY <1>1, <1>5, <1>6, <1>7, SameOutcome
  DEF OutcomeIsOrderFree, Flow!OutcomeIsOrderFree, UNRESOLVABLE, NoReason
<1>9. decided' \in [D -> Verdict] /\ reasons' \in [D -> Reason \cup {NoReason}]
  BY <1>7 DEF FlowInv, Verdict, Reason
<1>10. QED BY <1>1, <1>8, <1>9 DEF FlowInv

LEMMA FlowInit == Flow!Init => FlowInv
BY SameRules DEF Flow!Init, Flow!Start, Flow!AgentPlan, AgentPlan, Flow!Step, Step,
   Flow!StopCondition, StopCondition, FlowInv, Verdict

LEMMA FlowNext == FlowInv /\ [Flow!Next]_(Flow!vars) => FlowInv'
<1> SUFFICES ASSUME FlowInv, [Flow!Next]_(Flow!vars) PROVE FlowInv'
  OBVIOUS
<1>1. CASE Flow!Finish
  BY <1>1, FinishIsFinal
<1>2. ASSUME NEW i \in DOMAIN plan.steps, Flow!Decide(i), pc # "done" PROVE FlowInv'
  BY <1>2, DecideKeepsGrounded
<1>3. ASSUME NEW i \in DOMAIN plan.steps, Flow!Decide(i), pc = "done" PROVE FALSE
  BY <1>3, DecideMeans DEF FlowInv, OutcomeIsOrderFree, Flow!OutcomeIsOrderFree
<1>4. CASE UNCHANGED Flow!vars
  BY <1>4 DEF Flow!vars, FlowInv, Grounded, Waiting, Own, Up, OutcomeIsOrderFree,
              Flow!OutcomeIsOrderFree
<1> QED BY <1>1, <1>2, <1>3, <1>4 DEF Flow!Next

\* Whatever order steps are decided in, each ends with the verdict and reason that
\* FinalReason gives it.
THEOREM AnyOrderAgrees == ImplementsDataflow => []OutcomeIsOrderFree
<1>1. FlowInv => OutcomeIsOrderFree
  BY DEF FlowInv, OutcomeIsOrderFree, Flow!OutcomeIsOrderFree
<1> QED BY <1>1, FlowInit, FlowNext, PTL DEF ImplementsDataflow, Flow!Spec

\* So a step ends with the verdict and reason its dependencies alone determine: no
\* order of the list, and no number of passes, makes a plan turn out differently.
THEOREM RunIsOrderFree == Spec => []OutcomeIsOrderFree
  BY AnyOrderAgrees, RefinesDataflow, PTL

-----------------------------------------------------------------------------
(***************************************************************************)
(* What a clean validation says about a plan.                              *)
(***************************************************************************)
\* A dependency of a name is upstream of it.
LEMMA DirectIsUpstream ==
  ASSUME NEW F, NEW id \in DOMAIN F, NEW d \in F[id], d \in DOMAIN F
  PROVE  d \in Upstream(F, id)
  BY DEF Upstream

\* What is upstream of a node is closed under the F.
LEMMA UpstreamIsClosed ==
  ASSUME NEW X, NEW F \in [X -> SUBSET X], NEW id \in X
  PROVE  /\ F[id] \subseteq Upstream(F, id)
         /\ \A y \in Upstream(F, id) : F[y] \subseteq Upstream(F, id)
  BY DEF Upstream

\* The dict of the last step of each name finds a name's only step.
LEMMA LastOfUnique ==
  ASSUME NEW ss \in Seq(Step), UniqueIds(ss), NEW i \in DOMAIN ss
  PROVE  LastAt(ss, ss[i].id) = i
<1>1. At(ss, ss[i].id) = {i}
  BY DEF At, UniqueIds
<1>2. i \in Int
  OBVIOUS
<1>3. i \in At(ss, ss[i].id) /\ \A j \in At(ss, ss[i].id) : j <= i
  BY <1>1, <1>2
<1>4. QED BY <1>1, <1>3 DEF LastAt

\* No clash of names is reported.
LEMMA ValidIsUnique ==
  ASSUME NEW p \in AgentPlan, Valid(p)
  PROVE  UniqueIds(p.steps)
<1>1. DuplicateErrors(p.steps) = {}
  BY DEF Valid, Errors
<1>2. \A i, k \in DOMAIN p.steps : k # i => p.steps[k].id # p.steps[i].id
  BY <1>1 DEF DuplicateErrors
<1>3. QED BY <1>2 DEF UniqueIds

\* Every name a step consumes is carried by an earlier step, whatever the list.
LEMMA ValidIsOrdered ==
  ASSUME NEW p \in AgentPlan, Valid(p), NEW i \in DOMAIN p.steps
  PROVE  /\ p.steps[i].tool \in Available
         /\ MissingDeps(p.steps, i) = {}
         /\ \A j \in Suppliers(p.steps, i) : j < i
<1> DEFINE ss == p.steps
<1>1. UnknownTools(ss) = {} /\ UnknownDependencies(ss) = {} /\ CycleErrors(ss) = {}
      /\ OrderingErrors(ss) = {}
  BY DEF Valid, Errors
<1>2. ss[i].tool \in Available
  BY <1>1 DEF UnknownTools
<1>3. MissingDeps(ss, i) = {}
  BY <1>1 DEF UnknownDependencies
<1>4. LateDeps(ss, i) = {}
  BY <1>1 DEF OrderingErrors
<1>5. CyclicComponents(Edges(ss)) = {}
  BY <1>1 DEF CycleErrors
<1>6. \A id \in DOMAIN Edges(ss) : id \notin Upstream(Edges(ss), id)
  <2> DEFINE F == Edges(ss)
             up == [id \in DOMAIN F |-> Upstream(F, id)]
             onCycle == {id \in DOMAIN F : id \in up[id]}
  <2>1. {{y \in up[x] : x \in up[y]} : x \in onCycle} = {}
    BY <1>5 DEF CyclicComponents
  <2>2. onCycle = {}
    <3> SUFFICES ASSUME NEW x \in onCycle PROVE FALSE
      OBVIOUS
    <3> HIDE DEF F, onCycle, up
    <3>1. {y \in up[x] : x \in up[y]} \in {{y \in up[z] : z \in up[y]} : z \in onCycle}
      OBVIOUS
    <3>2. QED BY <2>1, <3>1
  <2>3. QED BY <2>2
<1>7. ss[i].id \notin ss[i].input_from
  <2> SUFFICES ASSUME ss[i].id \in ss[i].input_from PROVE FALSE
    OBVIOUS
  <2>1. ss[i].id \in KnownIds(ss) /\ DOMAIN Edges(ss) = KnownIds(ss)
    BY DEF KnownIds, Edges
  <2>2. LastAt(ss, ss[i].id) = i
    BY ValidIsUnique, StepDomain, LastOfUnique
  <2>3. ss[i].id \in Edges(ss)[ss[i].id]
    BY <2>1, <2>2 DEF Edges
  <2>4. QED BY <1>6, <2>1, <2>3, DirectIsUpstream
<1>8. ASSUME NEW j \in Suppliers(ss, i) PROVE j < i
  <2>1. j \in DOMAIN ss /\ ss[j].id \in ss[i].input_from /\ i \in Int /\ j \in Int
    BY StepDomain DEF Suppliers
  <2>2. j # i
    BY <1>7, <2>1
  <2>3. ~(j > i)
    BY <1>4, <2>1 DEF LateDeps
  <2>4. QED BY <2>1, <2>2, <2>3
<1>9. QED BY <1>2, <1>3, <1>8

(***************************************************************************)
(* Running a valid plan: the pass never leaves a pending step behind, and  *)
(* without blank arguments no step fails.                                  *)
(***************************************************************************)
Usable == \A i \in DOMAIN steps : steps[i].arguments \notin BlankArgument

RunInv ==
  Valid(plan) =>
    /\ pc = "pass" => queue = Pending
    /\ pc \in {"drain", "done"} => Pending = {}
    /\ Usable => \A i \in DOMAIN steps : decided[i] # "failed"
    /\ \A i \in DOMAIN steps : decided[i] = "succeeded" => steps[i].arguments \notin BlankArgument

\* The suppliers of the step a pass visits were visited before it.
LEMMA NeverRevisits == TypeOK /\ RunInv => ValidPlanNeverRevisits
<1> SUFFICES ASSUME TypeOK, RunInv, Valid(plan), NEW i \in DOMAIN steps, Judged(i)
             PROVE  ~Waits(steps, decided, i)
  BY DEF ValidPlanNeverRevisits
<1>1. queue = Pending /\ \A j \in queue : i <= j
  BY DEF RunInv, Judged, Visits
<1>2. \A j \in Suppliers(steps, i) : j < i /\ j \in DOMAIN steps
  BY ValidIsOrdered DEF TypeOK, steps, Suppliers
<1>3. \A j \in DOMAIN steps : j \in Int
  BY StepDomain DEF TypeOK, steps
<1>4. \A j \in Suppliers(steps, i) : j \notin Pending
  BY <1>1, <1>2, <1>3
<1>5. QED BY <1>2, <1>4 DEF Waits, Pending

LEMMA RunInductive == TypeOK /\ RunInv /\ [Next]_vars => RunInv'
<1> SUFFICES ASSUME TypeOK, RunInv, [Next]_vars, Valid(plan)'
             PROVE  (/\ pc = "pass" => queue = Pending
                     /\ pc \in {"drain", "done"} => Pending = {}
                     /\ Usable => \A i \in DOMAIN steps : decided[i] # "failed"
                     /\ \A i \in DOMAIN steps : decided[i] = "succeeded" => steps[i].arguments \notin BlankArgument)'
  BY DEF RunInv
<1>1. plan' = plan
  BY DEF Next, vars, BeginPass, EndPass, Drain, FailLocally, FailUnknownDependency,
         Revisit, Succeed, FailDependency, Settle
<1>2. Valid(plan)
  BY <1>1
<1>3. /\ pc = "pass" => queue = Pending
      /\ pc \in {"drain", "done"} => Pending = {}
      /\ Usable => \A i \in DOMAIN steps : decided[i] # "failed"
      /\ \A i \in DOMAIN steps : decided[i] = "succeeded" => steps[i].arguments \notin BlankArgument
  BY <1>2 DEF RunInv
<1>4. Usable' <=> Usable
  BY <1>1 DEF Usable, steps
<1> USE <1>1, <1>3, <1>4 DEF steps
<1>5. CASE BeginPass
  BY <1>5 DEF BeginPass, Pending
<1>6. CASE EndPass
  BY <1>6 DEF EndPass, Pending
<1>7. CASE Drain
  BY <1>7 DEF Drain, Pending
<1>8. ASSUME NEW i \in DOMAIN plan.steps, NEW v \in {"succeeded", "failed"}, NEW r,
             Settle(i, v, r), pc = "pass", Usable => v # "failed",
             v = "succeeded" => steps[i].arguments \notin BlankArgument
      PROVE  (/\ pc = "pass" => queue = Pending
              /\ pc \in {"drain", "done"} => Pending = {}
              /\ Usable => \A k \in DOMAIN steps : decided[k] # "failed"
              /\ \A k \in DOMAIN steps : decided[k] = "succeeded" => steps[k].arguments \notin BlankArgument)'
  BY <1>8 DEF Settle, Pending, TypeOK
<1>9. ASSUME NEW i \in DOMAIN plan.steps, FailLocally(i) PROVE ~Usable
  BY <1>2, <1>9, ValidIsOrdered DEF FailLocally, LocalFailure, Usable, TypeOK
<1>10. ASSUME NEW i \in DOMAIN plan.steps PROVE ~FailUnknownDependency(i)
  BY <1>2, ValidIsOrdered DEF FailUnknownDependency, TypeOK
<1>11. ASSUME NEW i \in DOMAIN plan.steps PROVE ~Revisit(i)
  BY <1>2, NeverRevisits DEF Revisit, ValidPlanNeverRevisits
<1>12. ASSUME NEW i \in DOMAIN plan.steps, FailDependency(i) PROVE ~Usable
  <2>1. PICK j \in Suppliers(steps, i) : decided[j] # "succeeded" /\ decided[j] # "undecided"
    BY <1>12 DEF FailDependency, Waits, Supplied
  <2>2. j \in DOMAIN steps /\ decided[j] \in Verdict
    BY DEF Suppliers, TypeOK
  <2>3. QED BY <2>1, <2>2 DEF Verdict
<1>13. ASSUME NEW i \in DOMAIN plan.steps, Succeed(i)
       PROVE  steps[i].arguments \notin BlankArgument
  BY <1>13 DEF Succeed, Judged, LocalFailure, UNKNOWN_TOOL, UNUSABLE_ARGUMENT, NoReason
<1>14. ASSUME NEW i \in DOMAIN plan.steps, FailLocally(i) \/ Succeed(i) \/ FailDependency(i)
       PROVE  (/\ pc = "pass" => queue = Pending
               /\ pc \in {"drain", "done"} => Pending = {}
               /\ Usable => \A k \in DOMAIN steps : decided[k] # "failed"
               /\ \A k \in DOMAIN steps : decided[k] = "succeeded" => steps[k].arguments \notin BlankArgument)'
  BY <1>8, <1>9, <1>12, <1>14, <1>13 DEF FailLocally, Succeed, FailDependency, Judged, Visits
<1>15. CASE UNCHANGED vars
  BY <1>15 DEF vars, Pending
<1>16. QED
  BY <1>5, <1>6, <1>7, <1>10, <1>11, <1>14, <1>15 DEF Next

LEMMA RunInvHolds == Spec => [](TypeOK /\ RunInv)
<1>1. Init => RunInv
  BY DEF Init, Start, RunInv
<1>2. QED BY <1>1, RunInductive, TypeCorrect, PTL DEF Spec

\* The static order is an execution order: a pass never comes to a step of a valid
\* plan before everything that step consumes is decided.
THEOREM ValidRunsInOnePass == Spec => []ValidPlanNeverRevisits
  BY RunInvHolds, NeverRevisits, PTL

\* A plan the validator passes runs to its end just when it is not empty and none of its
\* arguments is blank: a static verdict of valid is wrong about execution in those two
\* ways only.
THEOREM ValidRuns == Spec => []ValidPlanRuns
<1>1. TypeOK /\ RunInv => ValidPlanRuns
  <2> SUFFICES ASSUME TypeOK, RunInv, pc = "done", Valid(plan)
               PROVE  RunSucceeded <=> steps # <<>> /\ Usable
    BY DEF ValidPlanRuns, Usable
  <2>1. \A i \in DOMAIN steps : decided[i] \in Verdict /\ decided[i] # "undecided"
    BY DEF RunInv, TypeOK, Pending
  <2>2. ASSUME steps # <<>>, Usable PROVE RunSucceeded
    <3>1. \A i \in DOMAIN steps : decided[i] = "succeeded"
      BY <2>1, <2>2 DEF RunInv, Verdict
    <3>2. Len(steps) \in DOMAIN steps
      BY <2>2, StepDomain, EmptyIsShort DEF TypeOK, steps
    <3>3. QED BY <2>2, <3>1, <3>2 DEF RunSucceeded, StopReached
  <2>3. ASSUME RunSucceeded PROVE steps # <<>> /\ Usable
    BY <2>3 DEF RunSucceeded, StopReached, RunInv, Usable
  <2>4. QED BY <2>2, <2>3
<1>2. QED BY <1>1, RunInvHolds, PTL

-----------------------------------------------------------------------------
(***************************************************************************)
(* The other direction.  A plan that ran fine has no step that waits for   *)
(* itself, so no name is upstream of itself either: the names a name       *)
(* consumes, taken at their last steps, are among the steps waited for.    *)
(***************************************************************************)
LEMMA LastAtIsAt ==
  ASSUME NEW ss \in Seq(Step), NEW id \in KnownIds(ss)
  PROVE  LastAt(ss, id) \in DOMAIN ss /\ ss[LastAt(ss, id)].id = id
<1>1. At(ss, id) # {} /\ At(ss, id) \in SUBSET (1 .. Len(ss)) /\ Len(ss) \in Nat
  BY DEF At, KnownIds
<1>2. \E i \in At(ss, id) : \A j \in At(ss, id) : j <= i
  BY <1>1, IndicesAreFinite, GreatestOf
<1>3. LastAt(ss, id) \in At(ss, id)
  BY <1>2 DEF LastAt
<1> QED BY <1>3 DEF At

LEMMA NameCyclesAreWaits ==
  ASSUME NEW ss \in Seq(Step), \A i \in DOMAIN ss : OwnFailure(ss, i) = NoReason,
         NEW id \in KnownIds(ss), id \in Upstream(Edges(ss), id)
  PROVE  LastAt(ss, id) \in Upstream(WaitsFor(ss), LastAt(ss, id))
<1> DEFINE D == DOMAIN ss
           named == Edges(ss)
           waits == WaitsFor(ss)
           last(x) == LastAt(ss, x)
           S == {x \in KnownIds(ss) : last(x) \in Upstream(waits, last(id))}
<1>1. waits \in [D -> SUBSET D] /\ \A i \in D : waits[i] = Suppliers(ss, i)
  BY DEF WaitsFor, Suppliers
<1>2. /\ DOMAIN named = KnownIds(ss)
      /\ \A x \in KnownIds(ss) : named[x] = ss[last(x)].input_from \cap KnownIds(ss)
  BY DEF Edges
<1>3. ASSUME NEW x \in KnownIds(ss), NEW d \in named[x]
      PROVE  last(d) \in waits[last(x)] /\ d \in KnownIds(ss)
  BY <1>1, <1>2, <1>3, LastAtIsAt DEF Suppliers
<1>4. last(id) \in D
  BY LastAtIsAt
<1>5. \A x \in D : waits[last(id)] \subseteq Upstream(waits, last(id))
      /\ \A y \in Upstream(waits, last(id)) : waits[y] \subseteq Upstream(waits, last(id))
  <2> HIDE DEF waits, D
  <2> QED BY <1>1, <1>4, UpstreamIsClosed
<1>6. named[id] \subseteq S
  BY <1>3, <1>4, <1>5
<1>7. \A y \in S : named[y] \subseteq S
  BY <1>3, <1>4, <1>5
<1>8. id \in S
  <2>1. S \in SUBSET DOMAIN named
    BY <1>2
  <2> HIDE DEF S, named
  <2> QED BY <1>6, <1>7, <2>1 DEF Upstream, named
<1> QED BY <1>8

\* Every check reports errors of its own type.
LEMMA ErrorType ==
  ASSUME NEW t, NEW ids, NEW paths, NEW kind
  PROVE  Error(t, ids, paths, kind).type = t
BY DEF Error

LEMMA OrderingType == ASSUME NEW ss, NEW e \in OrderingErrors(ss) PROVE e.type = "ordering"
<1>1. PICK i \in {j \in DOMAIN ss : LateDeps(ss, j) # {}} :
        e = Error(ORDERING, {ss[i].id} \cup LateDeps(ss, i), {StepPath(ss[i].id)}, "")
  BY Zenon DEF OrderingErrors
<1> QED BY <1>1, ErrorType DEF ORDERING

LEMMA DuplicateType == ASSUME NEW ss, NEW e \in DuplicateErrors(ss) PROVE e.type = "duplicate_step"
BY DEF DuplicateErrors, Error, DUPLICATE_STEP

LEMMA DanglingType == ASSUME NEW ss, NEW e \in DanglingErrors(ss) PROVE e.type = "dangling_step"
<1>1. PICK id \in {x \in KnownIds(ss) \ Consumed(ss) : x # ss[Len(ss)].id} :
        e = Error(DANGLING_STEP, {id}, {StepPath(id)}, "")
  BY Zenon DEF DanglingErrors
<1> QED BY <1>1, ErrorType DEF DANGLING_STEP

LEMMA StopType == ASSUME NEW p, NEW e \in MissingStop(p) PROVE e.type = "missing_stop_condition"
<1>1. e = Error(MISSING_STOP_CONDITION, {}, {StopPath}, "")
  BY Zenon DEF MissingStop
<1> QED BY <1>1, ErrorType DEF MISSING_STOP_CONDITION

LEMMA CoverageType ==
  ASSUME NEW ss, NEW e \in CoverageErrors(ss)
  PROVE  e.type \in {"missing_evidence", "missing_operation"}
<1>1. \/ \E t \in RequiredEvidence \ Produced(ss) :
           e = Error(MISSING_EVIDENCE, {}, {EvidencePath(t)}, "")
      \/ \E t \in RequiredOperation \ Produced(ss) :
           e = Error(MISSING_OPERATION, {}, {OperationPath(t)}, "")
  BY Zenon DEF CoverageErrors
<1>2. ASSUME NEW t, e = Error(MISSING_EVIDENCE, {}, {EvidencePath(t)}, "")
      PROVE  e.type = "missing_evidence"
  BY <1>2, ErrorType DEF MISSING_EVIDENCE
<1>3. ASSUME NEW t, e = Error(MISSING_OPERATION, {}, {OperationPath(t)}, "")
      PROVE  e.type = "missing_operation"
  BY <1>3, ErrorType DEF MISSING_OPERATION
<1> QED BY <1>1, <1>2, <1>3

\* Where the runtime succeeds on a plan the validator rejects, it is never for a tool, a
\* reference or a cycle: what those checks report is a failure of some step.
THEOREM RunsRefute == Spec => []RunRefutesHardErrors
<1> DEFINE waits == WaitsFor(steps)
<1>1. TypeOK /\ OutcomeIsOrderFree => RunRefutesHardErrors
  <2> SUFFICES ASSUME TypeOK, OutcomeIsOrderFree, pc = "done", RunSucceeded
               PROVE  ErrorTypes(Errors(plan)) \cap {UNKNOWN_TOOL, UNKNOWN_DEPENDENCY, DEP_CYCLE} = {}
    BY DEF RunRefutesHardErrors, Agreement
  <2>1. \A i \in DOMAIN steps : FinalReason(steps, i) = NoReason
    BY SameOutcome DEF OutcomeIsOrderFree, Flow!OutcomeIsOrderFree, RunSucceeded, steps
  <2>2. ASSUME NEW i \in DOMAIN steps
        PROVE  OwnFailure(steps, i) = NoReason /\ i \notin Upstream(waits, i)
    BY <2>1 DEF FinalReason, NoReason, UNRESOLVABLE
  <2>3. UnknownTools(steps) = {}
    BY <2>2 DEF UnknownTools, OwnFailure, LocalFailure, NoReason, UNKNOWN_TOOL
  <2>4. UnknownDependencies(steps) = {}
    BY <2>2 DEF UnknownDependencies, OwnFailure, NoReason, UNKNOWN_DEPENDENCY
  <2>5. CycleErrors(steps) = {}
    <3> DEFINE F == Edges(steps)
    <3>1. steps \in Seq(Step) /\ DOMAIN F = KnownIds(steps)
      BY StepDomain DEF TypeOK, steps, Edges
    <3>2. \A id \in DOMAIN F : id \notin Upstream(F, id)
      BY <2>2, <3>1, LastAtIsAt, NameCyclesAreWaits
    <3>3. CyclicComponents(F) = {}
      <4> HIDE DEF F
      <4> QED BY <3>2 DEF CyclicComponents
    <3> QED BY <3>3 DEF CycleErrors
  <2>6. ASSUME NEW e \in Errors(plan)
        PROVE  e.type \notin {"unknown_tool", "unknown_dependency", "dep_cycle"}
    <3>1. \/ e \in OrderingErrors(steps) \/ e \in DuplicateErrors(steps) \/ e \in DanglingErrors(steps)
          \/ e \in MissingStop(plan) \/ e \in CoverageErrors(steps)
      BY <2>3, <2>4, <2>5, <2>6 DEF Errors, steps
    <3> QED BY <3>1, OrderingType, DuplicateType, DanglingType, StopType, CoverageType
  <2> QED BY <2>6 DEF ErrorTypes, UNKNOWN_TOOL, UNKNOWN_DEPENDENCY, DEP_CYCLE
<1> QED BY <1>1, TypeCorrect, RunIsOrderFree, PTL

-----------------------------------------------------------------------------
(***************************************************************************)
(* The validator's search for cycles.  One name leads to another if it is  *)
(* that name or has it upstream.                                           *)
(***************************************************************************)
Leads(F, x, y) == x = y \/ y \in Upstream(F, x)

\* A dependency leads on, and so does a way made of two.
LEMMA LeadsOn ==
  ASSUME NEW X, NEW F \in [X -> SUBSET X]
  PROVE  /\ \A x \in X : \A y \in F[x] : Leads(F, x, y)
         /\ \A x, y \in X : \A z : Leads(F, x, y) /\ Leads(F, y, z) => Leads(F, x, z)
<1>1. ASSUME NEW x \in X, NEW y \in F[x] PROVE Leads(F, x, y)
  BY UpstreamCloses DEF Leads
<1>2. ASSUME NEW x \in X, NEW y \in X, NEW z, Leads(F, x, y), Leads(F, y, z) PROVE Leads(F, x, z)
  BY <1>2, UpstreamIsTransitive DEF Leads
<1> QED BY <1>1, <1>2

(***************************************************************************)
(* The invariant.  The names in progress, those of the work list, cut the  *)
(* stack into stretches, the regions: what was put on the stack since one  *)
(* of them was numbered and before the next was.                           *)
(***************************************************************************)
Names == DOMAIN edges
Closed == Seen \ OnStack
Node(i) == work[i].node
Entered(i) == i \in DOMAIN work /\ Node(i) \in Seen

Reaches(x, y) == Leads(edges, x, y)

\* The stretch of the stack that belongs to the i-th name in progress.
InRegion(x, i) ==
  /\ x \in OnStack /\ Entered(i) /\ index_of[Node(i)] <= index_of[x]
  /\ \A j \in DOMAIN work : (j > i /\ Node(j) \in Seen) => index_of[x] < index_of[Node(j)]

\* The state is well formed.
TarjanTypes ==
  /\ edges \in [Names -> SUBSET Names]
  /\ order \in Seq(Names)
  /\ Seen \subseteq Names /\ index_of \in [Seen -> Nat] /\ low \in [Seen -> Nat]
  /\ counter \in Nat
  /\ stack \in Seq(Seen)
  /\ work \in Seq([node : Names, rest : SUBSET Names])
  /\ \A i \in DOMAIN work : work[i].rest \subseteq edges[Node(i)]

\* No number is given twice, and the stack is in the order of the numbers.
Numbers ==
  /\ \A x \in Seen : index_of[x] < counter
  /\ \A x, y \in Seen : index_of[x] = index_of[y] => x = y
  /\ \A j, k \in DOMAIN stack : j < k => index_of[stack[j]] < index_of[stack[k]]

\* The names in progress are a path, the last one perhaps not numbered yet; every
\* open name is in the region of one of them, and no name is forgotten.
Trail ==
  /\ \A i \in DOMAIN work : IF Node(i) \in Seen THEN Node(i) \in OnStack
                            ELSE i = Len(work) /\ work[i].rest = edges[Node(i)]
  /\ \A i, j \in DOMAIN work : i < j =>
       Reaches(Node(i), Node(j)) /\ (Node(j) \in Seen => index_of[Node(i)] < index_of[Node(j)])
  /\ \A x \in OnStack : \E i \in DOMAIN work : InRegion(x, i)
  /\ \A x \in Names : x \in Seen \/ x \in ToSet(order) \/ (\E i \in DOMAIN work : Node(i) = x)

\* A region is strongly connected: what is in it and its name in progress lead to each other.
Regions ==
  \A i \in DOMAIN work, x \in OnStack : InRegion(x, i) => Reaches(x, Node(i)) /\ Reaches(Node(i), x)

\* A closed name has only closed dependencies; a dependency of an open one was seen,
\* or is still to be looked at, or is the next name in progress.
Looked ==
  /\ \A x \in Closed : edges[x] \subseteq Closed
  /\ \A x \in OnStack : \A y \in edges[x] :
       \/ y \in Seen
       \/ \E i \in DOMAIN work : Node(i) = x /\ (y \in work[i].rest \/ (i + 1 \in DOMAIN work /\ y = Node(i + 1)))

\* A name in progress has in low the number of an open name it leads to, no later than
\* that of any open name its region depends on but those it has not looked at yet.
Lows ==
  \A i \in DOMAIN work : Node(i) \in Seen =>
    /\ low[Node(i)] <= index_of[Node(i)]
    /\ \E y \in OnStack : index_of[y] = low[Node(i)] /\ Reaches(Node(i), y)
    /\ \A x \in OnStack : InRegion(x, i) =>
         \A y \in edges[x] \cap OnStack : (x = Node(i) /\ y \in work[i].rest) \/ low[Node(i)] <= index_of[y]

\* What was reported is what is cyclic among the closed names.
Found == components = {C \in CyclicComponents(edges) : C \subseteq Closed}

TarjanInv == TarjanTypes /\ Numbers /\ Trail /\ Regions /\ Looked /\ Lows /\ Found

\* The call _cycle_errors makes establishes it.
LEMMA Beginning ==
  ASSUME NEW p \in AgentPlan, Call(Edges(p.steps), [i \in DOMAIN p.steps |-> p.steps[i].id])
  PROVE  TarjanInv
<1>1. /\ edges = Edges(p.steps) /\ order = [i \in DOMAIN p.steps |-> p.steps[i].id]
      /\ index_of = <<>> /\ low = <<>> /\ counter = 0 /\ stack = <<>> /\ work = <<>> /\ components = {}
  BY DEF Call
<1>2. edges \in [KnownIds(p.steps) -> SUBSET KnownIds(p.steps)] /\ Names = KnownIds(p.steps)
  BY <1>1 DEF Edges, Names
<1>3. p.steps \in Seq(Step) /\ DOMAIN p.steps = 1 .. Len(p.steps) /\ Len(p.steps) \in Nat
  BY DEF AgentPlan
<1>4. order \in Seq(Names) /\ ToSet(order) = Names
  BY <1>1, <1>2, <1>3 DEF KnownIds, ToSet
<1>5. Seen = {} /\ OnStack = {} /\ DOMAIN work = {} /\ DOMAIN stack = {}
  BY <1>1 DEF Seen, OnStack, ToSet
<1>6. TarjanTypes
  BY <1>1, <1>2, <1>4, <1>5 DEF TarjanTypes
<1>7. Numbers /\ Trail /\ Regions /\ Lows
  BY <1>4, <1>5 DEF Numbers, Trail, Regions, Lows
<1>8. Looked
  BY <1>5 DEF Looked, Closed
<1>9. \A C \in CyclicComponents(edges) : C # {}
  BY DEF CyclicComponents
<1>10. Found
  BY <1>1, <1>5, <1>9 DEF Found, Closed
<1> QED BY <1>6, <1>7, <1>8, <1>10 DEF TarjanInv

\* A root starts a path of its own: nothing is open between two of them.
LEMMA TryRootKeeps == TarjanInv /\ TryRoot => TarjanInv'
<1> SUFFICES ASSUME TarjanInv, TryRoot PROVE TarjanInv'
  OBVIOUS
<1> DEFINE root == Head(order)
<1>1. /\ TarjanTypes /\ Numbers /\ Trail /\ Regions /\ Looked /\ Lows /\ Found
      /\ work = <<>> /\ order # <<>> /\ order' = Tail(order)
      /\ work' = IF root \in Seen THEN <<>> ELSE <<Frame(root, edges[root])>>
      /\ edges' = edges /\ index_of' = index_of /\ low' = low /\ counter' = counter /\ stack' = stack
      /\ components' = components
  BY DEF TarjanInv, TryRoot
<1>2. /\ Seen' = Seen /\ OnStack' = OnStack /\ Names' = Names /\ Closed' = Closed
  BY <1>1 DEF Seen, OnStack, Names, Closed
<1>3. OnStack = {}
  BY <1>1 DEF Trail, InRegion, Entered
<1>4. root \in Names /\ order' \in Seq(Names) /\ ToSet(order) = {root} \cup ToSet(order')
  BY <1>1, RestOfList DEF TarjanTypes
<1>5. /\ root \in Seen => DOMAIN work' = {}
      /\ root \notin Seen => /\ DOMAIN work' = {1} /\ Len(work') = 1
                             /\ work'[1].node = root /\ work'[1].rest = edges[root]
  BY <1>1 DEF Frame
<1>6. TarjanTypes'
  <2>1. work' \in Seq([node : Names, rest : SUBSET Names])
    <3> DEFINE f == Frame(root, edges[root])
    <3>1. f \in [node : Names, rest : SUBSET Names]
      BY <1>1, <1>4 DEF TarjanTypes, Frame
    <3>2. work' = <<>> \/ work' = <<f>>
      BY <1>1
    <3>3. \A S : <<>> \in Seq(S) /\ \A x \in S : <<x>> \in Seq(S)
      OBVIOUS
    <3> HIDE DEF f
    <3> QED BY <3>1, <3>2, <3>3
  <2> QED BY <1>1, <1>2, <1>4, <1>5, <2>1 DEF TarjanTypes, Node
<1>7. Numbers'
  BY <1>1, <1>2 DEF Numbers
<1>8. Trail'
  BY <1>1, <1>2, <1>3, <1>4, <1>5 DEF Trail, Node
<1>9. Regions'
  BY <1>2, <1>3 DEF Regions
<1>10. Looked'
  BY <1>1, <1>2, <1>3 DEF Looked
<1>11. Lows'
  BY <1>2, <1>5 DEF Lows, Node
<1>12. Found'
  BY <1>1, <1>2 DEF Found
<1> QED BY <1>6, <1>7, <1>8, <1>9, <1>10, <1>11, <1>12 DEF TarjanInv

\* A name that is numbered becomes a region of its own, the last one.
LEMMA EnterKeeps == TarjanInv /\ Enter => TarjanInv'
<1> SUFFICES ASSUME TarjanInv, Enter PROVE TarjanInv'
  OBVIOUS
<1>0. PICK n, last : n = Top.node /\ last = Len(work)
  OBVIOUS
<1>1. /\ TarjanTypes /\ Numbers /\ Trail /\ Regions /\ Looked /\ Lows /\ Found
      /\ work # <<>> /\ n \notin Seen
      /\ index_of' = [x \in Seen \cup {n} |-> IF x = n THEN counter ELSE index_of[x]]
      /\ low' = [x \in Seen \cup {n} |-> IF x = n THEN counter ELSE low[x]]
      /\ counter' = counter + 1 /\ stack' = Append(stack, n) /\ work' = work
      /\ edges' = edges /\ order' = order /\ components' = components
  BY <1>0 DEF TarjanInv, Enter
<1>2. /\ last \in DOMAIN work /\ n = Node(last) /\ DOMAIN work = 1 .. last /\ last \in Nat /\ n \in Names
      /\ work[last].rest = edges[n]
  <2>1. /\ last \in DOMAIN work /\ n = Node(last) /\ DOMAIN work = 1 .. last /\ last \in Nat /\ n \in Names
    <3>1. work \in Seq([node : Names, rest : SUBSET Names])
      BY <1>1 DEF TarjanTypes
    <3>2. Len(work) \in DOMAIN work /\ DOMAIN work = 1 .. Len(work) /\ Len(work) \in Nat /\ Top = work[Len(work)]
          /\ Top \in [node : Names, rest : SUBSET Names]
      BY <1>1, <3>1, LastOfList DEF Top
    <3> QED BY <1>0, <3>2 DEF Node
  <2>2. work[last].rest = edges[n]
    BY <1>0, <1>1, <2>1 DEF Trail
  <2> QED BY <2>1, <2>2
<1>3. /\ Seen' = Seen \cup {n} /\ Names' = Names /\ \A i : Node(i)' = Node(i)
  BY <1>1 DEF Seen, Names, Node
<1>4. /\ OnStack' = OnStack \cup {n} /\ n \notin OnStack /\ OnStack \subseteq Seen
      /\ stack' \in Seq(Seen') /\ Len(stack') = Len(stack) + 1 /\ Len(stack) \in Nat
      /\ stack'[Len(stack) + 1] = n /\ \A i \in 1 .. Len(stack) : stack'[i] = stack[i] /\ stack[i] \in Seen
  <2>1. stack \in Seq(Seen) /\ stack \in Seq(Seen') /\ n \in Seen'
    BY <1>1, <1>3 DEF TarjanTypes
  <2>2. ToSet(stack') = ToSet(stack) \cup {n} /\ ToSet(stack) \subseteq Seen
    BY <1>1, <2>1, ListedAre
  <2>3. stack' \in Seq(Seen') /\ Len(stack') = Len(stack) + 1 /\ Len(stack) \in Nat
        /\ stack'[Len(stack) + 1] = n /\ \A i \in 1 .. Len(stack) : stack'[i] = stack[i] /\ stack[i] \in Seen
    BY <1>1, <2>1
  <2> QED BY <1>1, <2>2, <2>3 DEF OnStack
<1>5. Closed' = Closed
  BY <1>1, <1>3, <1>4 DEF Closed
<1>6. /\ \A x \in Seen : index_of'[x] = index_of[x] /\ low'[x] = low[x] /\ index_of[x] < counter
      /\ index_of'[n] = counter /\ low'[n] = counter /\ counter \in Nat
      /\ \A x \in Seen : index_of[x] \in Nat /\ low[x] \in Nat
  BY <1>1 DEF TarjanTypes, Numbers
<1>7. \A i \in DOMAIN work : i # last => Node(i) \in Seen /\ Node(i) \in OnStack
  BY <1>0, <1>1, <1>2 DEF Trail
<1>8. ASSUME NEW x, NEW i \in DOMAIN work
      PROVE  InRegion(x, i)' <=> \/ x = n /\ i = last
                                 \/ x # n /\ i # last /\ InRegion(x, i)
  <2>1. CASE x = n
    <3>1. CASE i = last
      <4>1. \A j \in DOMAIN work : ~(j > last)
        BY <1>2
      <4>2. Node(i)' = n /\ index_of'[n] = counter /\ counter <= counter /\ n \in OnStack' /\ n \in Seen'
        BY <1>2, <1>3, <1>4, <1>6, <3>1
      <4> QED BY <1>1, <2>1, <3>1, <4>1, <4>2 DEF InRegion, Entered
    <3>2. CASE i # last
      <4>1. last > i /\ last \in DOMAIN work'
        BY <1>1, <1>2, <3>2
      <4>2. Node(last)' = n /\ n \in Seen'
        BY <1>2, <1>3
      <4>3. ~(index_of'[n] < index_of'[n])
        BY <1>6
      <4>4. ~InRegion(x, i)'
        BY <2>1, <4>1, <4>2, <4>3 DEF InRegion
      <4> QED BY <2>1, <3>2, <4>4
    <3> QED BY <3>1, <3>2
  <2>2. CASE x # n /\ i = last
    BY <1>1, <1>2, <1>3, <1>4, <1>6, <2>2 DEF InRegion, Entered
  <2>3. CASE x # n /\ i # last
    BY <1>1, <1>2, <1>3, <1>4, <1>6, <1>7, <2>3 DEF InRegion, Entered
  <2> QED BY <2>1, <2>2, <2>3
<1>9. TarjanTypes'
  <2>1. index_of' \in [Seen' -> Nat] /\ low' \in [Seen' -> Nat] /\ counter' \in Nat
    BY <1>1, <1>3, <1>6 DEF TarjanTypes
  <2> QED BY <1>1, <1>2, <1>3, <1>4, <2>1 DEF TarjanTypes
<1>10. Numbers'
  <2>1. ASSUME NEW j \in DOMAIN stack', NEW k \in DOMAIN stack', j < k
        PROVE  index_of'[stack'[j]] < index_of'[stack'[k]]
    <3>1. DOMAIN stack' = 1 .. Len(stack) + 1 /\ DOMAIN stack = 1 .. Len(stack)
      BY <1>1, <1>4 DEF TarjanTypes
    <3>2. j \in 1 .. Len(stack)
      BY <1>4, <2>1, <3>1
    <3>3. CASE k = Len(stack) + 1
      BY <1>4, <1>6, <3>2, <3>3
    <3>4. CASE k # Len(stack) + 1
      <4>1. k \in 1 .. Len(stack)
        BY <1>4, <3>1, <3>4
      <4>2. index_of[stack[j]] < index_of[stack[k]]
        BY <1>1, <2>1, <3>1, <3>2, <4>1 DEF Numbers
      <4> QED BY <1>4, <1>6, <3>2, <4>1, <4>2
    <3> QED BY <3>3, <3>4
  <2>2. ASSUME NEW x \in Seen', NEW y \in Seen', index_of'[x] = index_of'[y] PROVE x = y
    BY <1>1, <1>3, <1>6, <2>2 DEF Numbers
  <2>3. \A x \in Seen' : index_of'[x] < counter'
    BY <1>1, <1>3, <1>6
  <2> QED BY <2>1, <2>2, <2>3 DEF Numbers
<1>11. Trail'
  <2>1. ASSUME NEW i \in DOMAIN work' PROVE Node(i)' \in OnStack' /\ Node(i)' \in Seen'
    BY <1>1, <1>2, <1>3, <1>4, <1>7
  <2>2. ASSUME NEW i \in DOMAIN work', NEW j \in DOMAIN work', i < j
        PROVE  Reaches(Node(i), Node(j))' /\ index_of'[Node(i)] < index_of'[Node(j)]
    <3>1. Reaches(Node(i), Node(j)) /\ i # last
      BY <1>1, <1>2, <2>2 DEF Trail
    <3>2. j # last => index_of[Node(i)] < index_of[Node(j)]
      BY <1>1, <1>7, <2>2 DEF Trail
    <3> QED BY <1>1, <1>2, <1>3, <1>6, <1>7, <3>1, <3>2 DEF Reaches
  <2>3. ASSUME NEW x \in OnStack' PROVE \E i \in DOMAIN work' : InRegion(x, i)'
    <3>1. CASE x = n
      BY <1>1, <1>2, <1>8, <3>1
    <3>2. CASE x # n
      <4>1. PICK i \in DOMAIN work : InRegion(x, i)
        BY <1>1, <1>4, <3>2 DEF Trail
      <4>2. i # last
        BY <1>1, <1>2, <4>1 DEF InRegion, Entered
      <4> QED BY <1>1, <1>8, <3>2, <4>1, <4>2
    <3> QED BY <3>1, <3>2
  <2>4. \A x \in Names' : x \in Seen' \/ x \in ToSet(order)' \/ (\E i \in DOMAIN work' : Node(i)' = x)
    BY <1>1, <1>3 DEF Trail
  <2> QED BY <1>3, <2>1, <2>2, <2>3, <2>4 DEF Trail
<1>12. Regions'
  BY <1>1, <1>2, <1>3, <1>4, <1>8 DEF Regions, Reaches, Leads
<1>13. Looked'
  <2>1. \A x \in Closed' : edges'[x] \subseteq Closed'
    BY <1>1, <1>5 DEF Looked
  <2>2. ASSUME NEW x \in OnStack', NEW y \in edges'[x]
        PROVE  \/ y \in Seen'
               \/ \E i \in DOMAIN work' : Node(i)' = x /\ (y \in work'[i].rest \/ (i + 1 \in DOMAIN work' /\ y = Node(i + 1)'))
    <3>1. CASE x = n
      BY <1>1, <1>2, <1>3, <2>2, <3>1
    <3>2. CASE x # n
      BY <1>1, <1>3, <1>4, <2>2, <3>2 DEF Looked
    <3> QED BY <3>1, <3>2
  <2> QED BY <2>1, <2>2 DEF Looked
<1>14. Lows'
  <2> SUFFICES ASSUME NEW i \in DOMAIN work
               PROVE  /\ low'[Node(i)] <= index_of'[Node(i)]
                      /\ \E y \in OnStack' : index_of'[y] = low'[Node(i)] /\ Reaches(Node(i), y)'
                      /\ \A x \in OnStack' : InRegion(x, i)' =>
                           \A y \in edges'[x] \cap OnStack' :
                             (x = Node(i) /\ y \in work[i].rest) \/ low'[Node(i)] <= index_of'[y]
    BY <1>1, <1>3 DEF Lows
  <2>1. CASE i = last
    <3>1. Reaches(n, n)'
      BY DEF Reaches, Leads
    <3>2. low'[n] <= index_of'[n] /\ n \in OnStack' /\ index_of'[n] = low'[n]
      BY <1>4, <1>6
    <3>3. ASSUME NEW x \in OnStack', InRegion(x, i)' PROVE x = Node(i)
      BY <1>2, <1>8, <2>1, <3>3
    <3>4. edges'[n] \subseteq work[i].rest
      BY <1>1, <1>2, <2>1
    <3>5. \E y \in OnStack' : index_of'[y] = low'[Node(i)] /\ Reaches(Node(i), y)'
      BY <1>2, <1>3, <2>1, <3>1, <3>2 DEF Reaches
    <3>6. \A x \in OnStack' : InRegion(x, i)' =>
            \A y \in edges'[x] \cap OnStack' : x = Node(i) /\ y \in work[i].rest
      BY <1>2, <2>1, <3>3, <3>4
    <3> QED BY <1>2, <2>1, <3>2, <3>5, <3>6
  <2>2. CASE i # last
    <3>1. /\ low[Node(i)] <= index_of[Node(i)]
          /\ \E y \in OnStack : index_of[y] = low[Node(i)] /\ Reaches(Node(i), y)
          /\ \A x \in OnStack : InRegion(x, i) =>
               \A y \in edges[x] \cap OnStack :
                 (x = Node(i) /\ y \in work[i].rest) \/ low[Node(i)] <= index_of[y]
      BY <1>1, <1>7, <2>2 DEF Lows
    <3>2. Node(i) \in Seen /\ low'[Node(i)] = low[Node(i)] /\ index_of'[Node(i)] = index_of[Node(i)]
      BY <1>6, <1>7, <2>2
    <3>3. \E y \in OnStack' : index_of'[y] = low'[Node(i)] /\ Reaches(Node(i), y)'
      <4>1. PICK y \in OnStack : index_of[y] = low[Node(i)] /\ Reaches(Node(i), y)
        BY <3>1
      <4>2. y \in OnStack' /\ index_of'[y] = low'[Node(i)]
        BY <1>4, <1>6, <3>2, <4>1
      <4>3. Reaches(Node(i), y)'
        BY <1>1, <4>1 DEF Reaches, Node
      <4> QED BY <4>2, <4>3
    <3>4. ASSUME NEW x \in OnStack', InRegion(x, i)', NEW y \in edges'[x] \cap OnStack'
          PROVE  (x = Node(i) /\ y \in work[i].rest) \/ low'[Node(i)] <= index_of'[y]
      <4>1. x # n /\ InRegion(x, i) /\ x \in OnStack
        BY <1>4, <1>8, <2>2, <3>4
      <4>2. CASE y = n
        BY <1>6, <3>1, <3>2, <4>2
      <4>3. CASE y # n
        BY <1>1, <1>4, <1>6, <3>1, <3>2, <3>4, <4>1, <4>3
      <4> QED BY <4>2, <4>3
    <3> QED BY <3>1, <3>2, <3>3, <3>4
  <2> QED BY <2>1, <2>2
<1>15. Found'
  BY <1>1, <1>5 DEF Found
<1> QED BY <1>9, <1>10, <1>11, <1>12, <1>13, <1>14, <1>15 DEF TarjanInv

\* Of the name on top, one neighbour less is left; it is looked at next, or was seen.
LEMMA DescendKeeps ==
  ASSUME NEW child \in DOMAIN edges, TarjanInv, Descend(child)
  PROVE  TarjanInv'
<1>0. PICK n, last, left : n = Top.node /\ last = Len(work) /\ left = Top.rest \ {child}
  OBVIOUS
<1>1. /\ TarjanTypes /\ Numbers /\ Trail /\ Regions /\ Looked /\ Lows /\ Found
      /\ work # <<>> /\ n \in Seen /\ child \in Top.rest /\ child \notin Seen
      /\ work' = Append(Append(Front(work), Frame(n, left)), Frame(child, edges[child]))
      /\ edges' = edges /\ order' = order /\ index_of' = index_of /\ low' = low /\ counter' = counter
      /\ stack' = stack /\ components' = components
  BY <1>0 DEF TarjanInv, Descend
<1>2. /\ last \in DOMAIN work /\ n = Node(last) /\ DOMAIN work = 1 .. last /\ last \in Nat /\ n \in Names
      /\ work[last].rest = left \cup {child} /\ child \notin left /\ child \in edges[n] /\ child \in Names
      /\ left \in SUBSET Names
  <2>1. work \in Seq([node : Names, rest : SUBSET Names])
    BY <1>1 DEF TarjanTypes
  <2>2. Len(work) \in DOMAIN work /\ DOMAIN work = 1 .. Len(work) /\ Len(work) \in Nat /\ Top = work[Len(work)]
        /\ Top \in [node : Names, rest : SUBSET Names]
    BY <1>1, <2>1, LastOfList DEF Top
  <2>3. work[last].rest \subseteq edges[Node(last)]
    BY <1>0, <1>1, <2>2 DEF TarjanTypes
  <2> QED BY <1>0, <1>1, <2>2, <2>3 DEF Node, Names
<1>3. /\ work' \in Seq([node : Names, rest : SUBSET Names]) /\ DOMAIN work' = 1 .. last + 1 /\ Len(work') = last + 1
      /\ work'[last + 1].node = child /\ work'[last + 1].rest = edges[child]
      /\ work'[last].node = n /\ work'[last].rest = left
      /\ \A i \in DOMAIN work : i # last => work'[i] = work[i]
  <2> DEFINE R == [node : Names, rest : SUBSET Names]
             f == Frame(n, left)
             g == Frame(child, edges[child])
             w == Append(Front(work), f)
  <2>1. /\ work \in Seq(R) /\ f \in R /\ g \in R /\ f.node = n /\ f.rest = left
        /\ g.node = child /\ g.rest = edges[child]
    BY <1>1, <1>2 DEF TarjanTypes, Frame
  <2> HIDE DEF R, f, g
  <2>2. /\ w \in Seq(R) /\ Len(w) = last /\ DOMAIN w = DOMAIN work /\ w[last] = f
        /\ \A i \in DOMAIN work : i # last => w[i] = work[i]
    BY <1>0, <1>1, <2>1, LastReplaced
  <2>3. work' = Append(w, g)
    BY <1>1 DEF f, g
  <2> HIDE DEF w
  <2>4. /\ work' \in Seq(R) /\ Len(work') = last + 1 /\ work'[last + 1] = g
        /\ \A i \in 1 .. last : work'[i] = w[i]
    BY <2>1, <2>2, <2>3
  <2>5. DOMAIN work' = 1 .. last + 1
    BY <1>2, <2>4
  <2> QED BY <1>2, <2>1, <2>2, <2>4, <2>5 DEF R
<1>4. /\ Seen' = Seen /\ OnStack' = OnStack /\ Names' = Names /\ Closed' = Closed
      /\ Node(last + 1)' = child /\ \A i \in DOMAIN work : i \in DOMAIN work' /\ Node(i)' = Node(i)
      /\ \A i \in DOMAIN work' : i = last + 1 \/ i \in DOMAIN work
  BY <1>1, <1>2, <1>3 DEF Seen, OnStack, Names, Closed, Node
<1>5. \A x, y : Reaches(x, y)' <=> Reaches(x, y)
  BY <1>1 DEF Reaches
<1>6. \A i \in DOMAIN work : \A x : InRegion(x, i)' <=> InRegion(x, i)
  BY <1>1, <1>2, <1>3, <1>4 DEF InRegion, Entered
<1>7. ASSUME NEW i \in DOMAIN work PROVE Reaches(Node(i), child)
  <2>1. \A j \in DOMAIN work : Node(j) \in Names
    <3>1. work \in Seq([node : Names, rest : SUBSET Names])
      BY <1>1 DEF TarjanTypes
    <3>2. \A j \in DOMAIN work : work[j] \in [node : Names, rest : SUBSET Names]
      <4> DEFINE R == [node : Names, rest : SUBSET Names]
      <4>1. work \in Seq(R)
        BY <3>1
      <4> HIDE DEF R
      <4>2. \A j \in DOMAIN work : work[j] \in R
        BY <4>1
      <4> QED BY <4>2 DEF R
    <3> QED BY <3>2 DEF Node
  <2>2. Reaches(Node(i), n)
    <3>1. CASE i = last
      BY <1>2, <3>1 DEF Reaches, Leads
    <3>2. CASE i # last
      BY <1>1, <1>2, <3>2 DEF Trail
    <3> QED BY <3>1, <3>2
  <2>3. edges \in [Names -> SUBSET Names]
    BY <1>1 DEF TarjanTypes
  <2> QED BY <1>2, <2>1, <2>2, <2>3, LeadsOn DEF Reaches
<1>8. TarjanTypes'
  <2>1. ASSUME NEW i \in DOMAIN work' PROVE work'[i].rest \subseteq edges[Node(i)']
    <3>1. CASE i = last + 1
      BY <1>3, <1>4, <3>1
    <3>2. CASE i = last
      BY <1>2, <1>3, <1>4, <1>1, <3>2 DEF TarjanTypes
    <3>3. CASE i \in DOMAIN work /\ i # last
      BY <1>1, <1>3, <1>4, <3>3 DEF TarjanTypes
    <3> QED BY <1>4, <3>1, <3>2, <3>3
  <2> QED BY <1>1, <1>3, <1>4, <2>1 DEF TarjanTypes
<1>9. Numbers'
  BY <1>1, <1>4 DEF Numbers
<1>10. Trail'
  <2>1. ASSUME NEW i \in DOMAIN work'
        PROVE  IF Node(i)' \in Seen' THEN Node(i)' \in OnStack' ELSE i = last + 1 /\ work'[i].rest = edges'[Node(i)']
    <3>1. CASE i = last + 1
      BY <1>1, <1>3, <1>4, <3>1
    <3>2. CASE i \in DOMAIN work
      BY <1>1, <1>2, <1>4, <3>2 DEF Trail
    <3> QED BY <1>4, <3>1, <3>2
  <2>2. ASSUME NEW i \in DOMAIN work', NEW j \in DOMAIN work', i < j
        PROVE  Reaches(Node(i), Node(j))' /\ (Node(j)' \in Seen' => index_of'[Node(i)'] < index_of'[Node(j)'])
    <3>1. i \in DOMAIN work
      BY <1>2, <1>3, <2>2
    <3>2. CASE j = last + 1
      BY <1>1, <1>4, <1>7, <3>1, <3>2 DEF Reaches
    <3>3. CASE j \in DOMAIN work
      BY <1>1, <1>4, <2>2, <3>1, <3>3 DEF Trail, Reaches
    <3> QED BY <1>4, <3>2, <3>3
  <2>3. \A x \in OnStack' : \E i \in DOMAIN work' : InRegion(x, i)'
    BY <1>1, <1>4, <1>6 DEF Trail
  <2>4. \A x \in Names' : x \in Seen' \/ x \in ToSet(order)' \/ (\E i \in DOMAIN work' : Node(i)' = x)
    BY <1>1, <1>4 DEF Trail
  <2> QED BY <1>3, <2>1, <2>2, <2>3, <2>4 DEF Trail
<1>11. \A x : ~InRegion(x, last + 1)'
  BY <1>1, <1>4 DEF InRegion, Entered
<1>12. Regions'
  BY <1>1, <1>4, <1>6, <1>11 DEF Regions, Reaches
<1>13. Looked'
  <2>1. ASSUME NEW x \in OnStack, NEW y \in edges[x]
        PROVE  \/ y \in Seen'
               \/ \E i \in DOMAIN work' : Node(i)' = x /\ (y \in work'[i].rest \/ (i + 1 \in DOMAIN work' /\ y = Node(i + 1)'))
    <3>1. CASE y \in Seen
      BY <1>4, <3>1
    <3>2. CASE y \notin Seen
      <4>1. PICK i \in DOMAIN work : Node(i) = x /\ (y \in work[i].rest \/ (i + 1 \in DOMAIN work /\ y = Node(i + 1)))
        BY <1>1, <2>1, <3>2 DEF Looked
      <4>2. CASE i = last
        <5>1. y = child \/ y \in left
          BY <1>2, <4>1, <4>2
        <5>2. last + 1 \in DOMAIN work'
          BY <1>2, <1>3
        <5> QED BY <1>3, <1>4, <4>1, <4>2, <5>1, <5>2
      <4>3. CASE i # last
        <5>1. i + 1 \in DOMAIN work => Node(i + 1)' = Node(i + 1) /\ i + 1 \in DOMAIN work'
          BY <1>4
        <5> QED BY <1>3, <1>4, <4>1, <4>3, <5>1
      <4> QED BY <4>2, <4>3
    <3> QED BY <3>1, <3>2
  <2> QED BY <1>1, <1>4, <2>1 DEF Looked
<1>14. Lows'
  <2> SUFFICES ASSUME NEW i \in DOMAIN work, Node(i) \in Seen
               PROVE  /\ low[Node(i)] <= index_of[Node(i)]
                      /\ \E y \in OnStack : index_of[y] = low[Node(i)] /\ Reaches(Node(i), y)
                      /\ \A x \in OnStack : InRegion(x, i) =>
                           \A y \in edges[x] \cap OnStack :
                             (x = Node(i) /\ y \in work'[i].rest) \/ low[Node(i)] <= index_of[y]
    BY <1>1, <1>4, <1>5, <1>6 DEF Lows, Reaches
  <2>1. /\ low[Node(i)] <= index_of[Node(i)]
        /\ \E y \in OnStack : index_of[y] = low[Node(i)] /\ Reaches(Node(i), y)
        /\ \A x \in OnStack : InRegion(x, i) =>
             \A y \in edges[x] \cap OnStack :
               (x = Node(i) /\ y \in work[i].rest) \/ low[Node(i)] <= index_of[y]
    BY <1>1 DEF Lows
  <2>2. child \notin OnStack
    BY <1>1, ListedAre DEF TarjanTypes, OnStack
  <2>3. \A y \in OnStack : y \in work[i].rest => y \in work'[i].rest
    BY <1>2, <1>3, <2>2
  <2> QED BY <2>1, <2>3
<1>15. Found'
  BY <1>1, <1>4 DEF Found
<1> QED BY <1>8, <1>9, <1>10, <1>12, <1>13, <1>14, <1>15 DEF TarjanInv

\* A neighbour seen before lowers the name on top if its component is open.
LEMMA GlanceKeeps ==
  ASSUME NEW child \in DOMAIN edges, TarjanInv, Glance(child)
  PROVE  TarjanInv'
<1>0. PICK n, last, left : n = Top.node /\ last = Len(work) /\ left = Top.rest \ {child}
  OBVIOUS
<1>1. /\ TarjanTypes /\ Numbers /\ Trail /\ Regions /\ Looked /\ Lows /\ Found
      /\ work # <<>> /\ n \in Seen /\ child \in Top.rest /\ child \in Seen
      /\ work' = Append(Front(work), Frame(n, left))
      /\ low' = IF child \in OnStack THEN [low EXCEPT ![n] = Min2(@, index_of[child])] ELSE low
      /\ edges' = edges /\ order' = order /\ index_of' = index_of /\ counter' = counter
      /\ stack' = stack /\ components' = components
  BY <1>0 DEF TarjanInv, Glance
<1>2. /\ last \in DOMAIN work /\ n = Node(last) /\ DOMAIN work = 1 .. last /\ last \in Nat /\ n \in Names
      /\ work[last].rest = left \cup {child} /\ child \notin left /\ child \in edges[n] /\ child \in Names
      /\ left \in SUBSET Names
  <2>1. work \in Seq([node : Names, rest : SUBSET Names])
    BY <1>1 DEF TarjanTypes
  <2>2. Len(work) \in DOMAIN work /\ DOMAIN work = 1 .. Len(work) /\ Len(work) \in Nat /\ Top = work[Len(work)]
        /\ Top \in [node : Names, rest : SUBSET Names]
    BY <1>1, <2>1, LastOfList DEF Top
  <2>3. work[last].rest \subseteq edges[Node(last)]
    BY <1>0, <1>1, <2>2 DEF TarjanTypes
  <2> QED BY <1>0, <1>1, <2>2, <2>3 DEF Node, Names
<1>3. /\ work' \in Seq([node : Names, rest : SUBSET Names]) /\ DOMAIN work' = DOMAIN work /\ Len(work') = last
      /\ work'[last].node = n /\ work'[last].rest = left
      /\ \A i \in DOMAIN work : i # last => work'[i] = work[i]
  <2> DEFINE R == [node : Names, rest : SUBSET Names]
             f == Frame(n, left)
  <2>1. work \in Seq(R) /\ f \in R /\ f.node = n /\ f.rest = left
    BY <1>1, <1>2 DEF TarjanTypes, Frame
  <2>2. work' = Append(Front(work), f)
    BY <1>1
  <2> HIDE DEF R, f
  <2>3. /\ work' \in Seq(R) /\ Len(work') = last /\ DOMAIN work' = DOMAIN work /\ work'[last] = f
        /\ \A i \in DOMAIN work : i # last => work'[i] = work[i]
    BY <1>0, <1>1, <2>1, <2>2, LastReplaced
  <2> QED BY <2>1, <2>3 DEF R
<1>4. /\ Seen' = Seen /\ OnStack' = OnStack /\ Names' = Names /\ Closed' = Closed
      /\ \A i \in DOMAIN work : Node(i)' = Node(i)
  BY <1>1, <1>2, <1>3 DEF Seen, OnStack, Names, Closed, Node
<1>5. \A x, y : Reaches(x, y)' <=> Reaches(x, y)
  BY <1>1 DEF Reaches
<1>6. \A i \in DOMAIN work : \A x : InRegion(x, i)' <=> InRegion(x, i)
  BY <1>1, <1>3, <1>4 DEF InRegion, Entered
<1>7. /\ low' \in [Seen -> Nat] /\ \A x \in Seen : x # n => low'[x] = low[x]
      /\ low'[n] <= low[n] /\ low[n] \in Nat
      /\ child \in OnStack => low'[n] <= index_of[child]
      /\ low'[n] = low[n] \/ (child \in OnStack /\ low'[n] = index_of[child])
  <2>1. low \in [Seen -> Nat] /\ index_of \in [Seen -> Nat]
    BY <1>1 DEF TarjanTypes
  <2> QED BY <1>1, <2>1 DEF Min2
<1>8. TarjanTypes'
  <2>1. ASSUME NEW i \in DOMAIN work' PROVE work'[i].rest \subseteq edges[Node(i)']
    <3>1. CASE i = last
      BY <1>2, <1>3, <1>4, <1>1, <3>1 DEF TarjanTypes
    <3>2. CASE i # last
      BY <1>1, <1>3, <1>4, <3>2 DEF TarjanTypes
    <3> QED BY <3>1, <3>2
  <2> QED BY <1>1, <1>3, <1>4, <1>7, <2>1 DEF TarjanTypes
<1>9. Numbers'
  BY <1>1, <1>4 DEF Numbers
<1>10. Trail'
  <2>1. ASSUME NEW i \in DOMAIN work'
        PROVE  IF Node(i)' \in Seen' THEN Node(i)' \in OnStack' ELSE i = last /\ work'[i].rest = edges'[Node(i)']
    BY <1>1, <1>2, <1>3, <1>4 DEF Trail
  <2>2. ASSUME NEW i \in DOMAIN work', NEW j \in DOMAIN work', i < j
        PROVE  Reaches(Node(i), Node(j))' /\ (Node(j)' \in Seen' => index_of'[Node(i)'] < index_of'[Node(j)'])
    BY <1>1, <1>3, <1>4, <2>2 DEF Trail, Reaches
  <2>3. \A x \in OnStack' : \E i \in DOMAIN work' : InRegion(x, i)'
    BY <1>1, <1>3, <1>4, <1>6 DEF Trail
  <2>4. \A x \in Names' : x \in Seen' \/ x \in ToSet(order)' \/ (\E i \in DOMAIN work' : Node(i)' = x)
    BY <1>1, <1>3, <1>4 DEF Trail
  <2> QED BY <1>3, <2>1, <2>2, <2>3, <2>4 DEF Trail
<1>11. Regions'
  BY <1>1, <1>3, <1>4, <1>6 DEF Regions, Reaches
<1>12. Looked'
  <2>1. ASSUME NEW x \in OnStack, NEW y \in edges[x]
        PROVE  \/ y \in Seen'
               \/ \E i \in DOMAIN work' : Node(i)' = x /\ (y \in work'[i].rest \/ (i + 1 \in DOMAIN work' /\ y = Node(i + 1)'))
    <3>1. CASE y \in Seen
      BY <1>4, <3>1
    <3>2. CASE y \notin Seen
      <4>1. PICK i \in DOMAIN work : Node(i) = x /\ (y \in work[i].rest \/ (i + 1 \in DOMAIN work /\ y = Node(i + 1)))
        BY <1>1, <2>1, <3>2 DEF Looked
      <4>2. y \in work[i].rest => y \in work'[i].rest
        BY <1>1, <1>2, <1>3, <3>2
      <4> QED BY <1>3, <1>4, <4>1, <4>2
    <3> QED BY <3>1, <3>2
  <2> QED BY <1>1, <1>4, <2>1 DEF Looked
<1>13. Lows'
  <2> SUFFICES ASSUME NEW i \in DOMAIN work, Node(i) \in Seen
               PROVE  /\ low'[Node(i)] <= index_of[Node(i)]
                      /\ \E y \in OnStack : index_of[y] = low'[Node(i)] /\ Reaches(Node(i), y)
                      /\ \A x \in OnStack : InRegion(x, i) =>
                           \A y \in edges[x] \cap OnStack :
                             (x = Node(i) /\ y \in work'[i].rest) \/ low'[Node(i)] <= index_of[y]
    BY <1>1, <1>3, <1>4, <1>5, <1>6 DEF Lows, Reaches
  <2>1. /\ low[Node(i)] <= index_of[Node(i)]
        /\ \E y \in OnStack : index_of[y] = low[Node(i)] /\ Reaches(Node(i), y)
        /\ \A x \in OnStack : InRegion(x, i) =>
             \A y \in edges[x] \cap OnStack :
               (x = Node(i) /\ y \in work[i].rest) \/ low[Node(i)] <= index_of[y]
    BY <1>1 DEF Lows
  <2>2. /\ \A x \in Seen : index_of[x] \in Nat /\ low[x] \in Nat /\ low'[x] \in Nat
        /\ OnStack \subseteq Seen
    BY <1>1, <1>7, ListedAre DEF TarjanTypes, OnStack
  <2>3. CASE i = last
    <3>1. Node(i) = n
      BY <1>2, <2>3
    <3>2. \E y \in OnStack : index_of[y] = low'[n] /\ Reaches(n, y)
      <4>1. CASE low'[n] = low[n]
        BY <2>1, <3>1, <4>1
      <4>2. CASE child \in OnStack /\ low'[n] = index_of[child]
        <5>1. edges \in [Names -> SUBSET Names]
          BY <1>1 DEF TarjanTypes
        <5>2. Reaches(n, child)
          BY <1>2, <5>1, LeadsOn DEF Reaches
        <5> QED BY <4>2, <5>2
      <4> QED BY <1>7, <4>1, <4>2
    <3>3. ASSUME NEW x \in OnStack, InRegion(x, i), NEW y \in edges[x] \cap OnStack
          PROVE  (x = Node(i) /\ y \in work'[i].rest) \/ low'[Node(i)] <= index_of[y]
      <4>1. CASE x = n /\ y = child
        BY <1>7, <3>1, <3>3, <4>1
      <4>2. CASE low[n] <= index_of[y]
        BY <1>1, <1>7, <2>2, <3>1, <4>2
      <4>3. CASE x = n /\ y \in left
        BY <1>3, <2>3, <3>1, <4>3
      <4> QED BY <1>2, <2>1, <2>3, <3>1, <3>3, <4>1, <4>2, <4>3
    <3>4. low'[n] <= index_of[n]
      BY <1>1, <1>7, <2>1, <2>2, <3>1
    <3> QED BY <3>1, <3>2, <3>3, <3>4
  <2>4. CASE i # last
    <3>1. Node(i) # n
      <4>1. i < last
        BY <1>2, <2>4
      <4>2. index_of[Node(i)] < index_of[n]
        BY <1>1, <1>2, <4>1 DEF Trail
      <4> QED BY <1>1, <2>2, <4>2
    <3> QED BY <1>3, <1>7, <2>1, <2>4, <3>1
  <2> QED BY <2>3, <2>4
<1>14. Found'
  BY <1>1, <1>4 DEF Found
<1> QED BY <1>8, <1>9, <1>10, <1>11, <1>12, <1>13, <1>14 DEF TarjanInv

\* A class that is closed but for what is closed already is the next cyclic
\* component, if it is a cycle.
Joins(F, Done, D, n) ==
  {C \in CyclicComponents(F) : C \subseteq Done \cup D}
    = {C \in CyclicComponents(F) : C \subseteq Done} \cup (IF D # {n} \/ n \in F[n] THEN {D} ELSE {})

LEMMA NextComponent ==
  ASSUME NEW X, NEW F \in [X -> SUBSET X], NEW Done \in SUBSET X, NEW D \in SUBSET X,
         NEW n \in D, D \cap Done = {},
         \A y \in Done : F[y] \subseteq Done, \A y \in D : F[y] \subseteq Done \cup D,
         \A x \in D : Leads(F, x, n) /\ Leads(F, n, x)
  PROVE  Joins(F, Done, D, n)
<1> DEFINE up == [id \in X |-> Upstream(F, id)]
           class(x) == {y \in up[x] : x \in up[y]}
<1>1. CyclicComponents(F) = {class(x) : x \in {id \in X : id \in up[id]}}
  BY DEF CyclicComponents
<1>2. \A x \in X : /\ up[x] \subseteq X /\ F[x] \subseteq up[x]
                   /\ \A y \in up[x] : up[y] \subseteq up[x]
  BY UpstreamCloses, UpstreamIsTransitive
<1>3. \A x \in X : \A y : Leads(F, x, y) <=> x = y \/ y \in up[x]
  BY DEF Leads
<1>4. \A x \in Done : up[x] \subseteq Done
  BY UpstreamIsLeast
<1>5. \A x \in Done \cup D : up[x] \subseteq Done \cup D
  BY UpstreamIsLeast
<1>6. n \in up[n] <=> D # {n} \/ n \in F[n]
  <2>1. CASE n \in F[n]
    BY <1>2, <2>1
  <2>2. CASE D # {n}
    <3>1. PICK z \in D : z # n
      BY <2>2
    <3> QED BY <1>2, <1>3, <2>2, <3>1
  <2>3. CASE D = {n} /\ n \notin F[n]
    <3>1. F[n] \subseteq Done
      BY <2>3
    <3>2. Upstream(F, n) \subseteq Done
      BY <3>1, UpstreamIsLeast
    <3> QED BY <2>3, <3>2
  <2> QED BY <2>1, <2>2, <2>3
<1> HIDE DEF up
<1>7. ASSUME NEW x \in X, x \in up[x], class(x) \subseteq Done \cup D, ~(class(x) \subseteq Done)
      PROVE  class(x) = D /\ n \in up[n]
  <2>1. PICK y \in D : y \in up[x] /\ x \in up[y]
    BY <1>7
  <2>2. ASSUME NEW z \in D PROVE z \in class(x)
    <3>1. z \in up[x]
      <4>1. z = y \/ z \in up[y] \/ (n \in up[y] /\ z \in up[n])
        BY <1>3, <2>2
      <4> QED BY <1>2, <2>1, <4>1
    <3>2. x \in up[z]
      <4>1. y = z \/ y \in up[z] \/ (n \in up[z] /\ y \in up[n])
        BY <1>3, <2>2
      <4>2. y = z \/ y \in up[z]
        BY <1>2, <2>2, <4>1
      <4> QED BY <1>2, <2>1, <2>2, <4>2
    <3> QED BY <3>1, <3>2
  <2>3. ASSUME NEW z \in class(x) PROVE z \in D
    <3>1. z \in X /\ x \in up[z] /\ y \in up[z]
      BY <1>2, <1>7, <2>1, <2>3
    <3>2. z \notin Done
      BY <1>4, <2>1, <3>1
    <3> QED BY <1>7, <2>3, <3>2
  <2>4. n \in class(x)
    BY <2>2
  <2> QED BY <1>2, <1>7, <2>2, <2>3, <2>4
<1>8. ASSUME n \in up[n] PROVE class(n) = D
  <2>1. \A z \in class(n) : z \in Done \cup D /\ z \notin Done
    BY <1>2, <1>4, <1>5
  <2>2. \A z \in D : z \in class(n)
    BY <1>3, <1>8
  <2> QED BY <2>1, <2>2
<1> HIDE DEF class
<1>9. ASSUME NEW C \in CyclicComponents(F), C \subseteq Done \cup D, ~(C \subseteq Done) PROVE C = D /\ n \in up[n]
  BY <1>1, <1>7, <1>9
<1>10. ASSUME n \in up[n] PROVE D \in CyclicComponents(F)
  BY <1>1, <1>8, <1>10
<1> QED BY <1>6, <1>9, <1>10 DEF Joins

\* A name with nothing left is done: its region is a component if low is its own number,
\* for then nothing open before it is within its reach; else it leads back to its parent,
\* whose region takes it in.
LEMMA LeaveKeeps == TarjanInv /\ Leave => TarjanInv'
<1> SUFFICES ASSUME TarjanInv, Leave PROVE TarjanInv'
  OBVIOUS
<1>0. PICK n, last, up, D, done :
        /\ n = Top.node /\ last = Len(work) /\ up = Last(Front(work)).node
        /\ D = {x \in OnStack : index_of[n] <= index_of[x]} /\ done = Closed
  OBVIOUS
<1>1. /\ TarjanTypes /\ Numbers /\ Trail /\ Regions /\ Looked /\ Lows /\ Found
      /\ work # <<>> /\ n \in Seen /\ Top.rest = {} /\ work' = Front(work)
      /\ stack' = IF low[n] = index_of[n] THEN SubSeq(stack, 1, Place(n) - 1) ELSE stack
      /\ components' = IF low[n] = index_of[n] /\ (Cardinality(Popped(n)) > 1 \/ n \in edges[n])
                       THEN components \cup {Popped(n)} ELSE components
      /\ low' = IF last = 1 THEN low ELSE [low EXCEPT ![up] = Min2(@, low[n])]
      /\ edges' = edges /\ order' = order /\ index_of' = index_of /\ counter' = counter
  BY <1>0 DEF TarjanInv, Leave
<1>2. /\ last \in DOMAIN work /\ n = Node(last) /\ DOMAIN work = 1 .. last /\ last \in Nat /\ last # 0
      /\ n \in Names /\ work[last].rest = {}
      /\ work' \in Seq([node : Names, rest : SUBSET Names]) /\ Len(work') = last - 1 /\ DOMAIN work' = 1 .. last - 1
      /\ \A i \in 1 .. last - 1 : work'[i] = work[i] /\ i \in DOMAIN work
      /\ last # 1 => last - 1 \in DOMAIN work' /\ up = Node(last - 1)
  <2> DEFINE R == [node : Names, rest : SUBSET Names]
  <2>1. work \in Seq(R)
    BY <1>1 DEF TarjanTypes
  <2> HIDE DEF R
  <2>2. /\ Len(work) \in DOMAIN work /\ DOMAIN work = 1 .. Len(work) /\ Len(work) \in Nat /\ Len(work) # 0
        /\ Top = work[Len(work)] /\ Top \in R
        /\ Front(work) \in Seq(R) /\ Len(Front(work)) = Len(work) - 1 /\ DOMAIN Front(work) = 1 .. Len(work) - 1
        /\ \A i \in 1 .. Len(work) - 1 : Front(work)[i] = work[i]
    BY <1>1, <2>1, LastOfList DEF Top
  <2>3. last # 1 => last - 1 \in 1 .. last - 1 /\ up = work[last - 1].node
    <3>1. CASE last # 1
      <4>1. Len(Front(work)) # 0 /\ last - 1 \in 1 .. last - 1
        BY <1>0, <2>2, <3>1
      <4>2. Front(work) # <<>>
        BY <4>1
      <4>3. Last(Front(work)) = Front(work)[Len(Front(work))]
        BY <2>2, <4>2, LastOfList
      <4> QED BY <1>0, <2>2, <4>1, <4>3
    <3> QED BY <3>1
  <2>4. \A i \in 1 .. last - 1 : i \in 1 .. last
    BY <1>0, <2>2
  <2> QED BY <1>0, <1>1, <2>2, <2>3, <2>4 DEF Node, R
<1>3. /\ Seen' = Seen /\ Names' = Names
      /\ \A i \in 1 .. last - 1 : Node(i)' = Node(i) /\ i \in DOMAIN work /\ i < last /\ i # last
      /\ \A i \in DOMAIN work : i = last \/ i \in 1 .. last - 1
  BY <1>1, <1>2 DEF Seen, Names, Node
<1>4. \A x, y : Reaches(x, y)' <=> Reaches(x, y)
  BY <1>1 DEF Reaches
<1>5. /\ OnStack \in SUBSET Seen /\ Seen \in SUBSET Names /\ done \cap OnStack = {} /\ done \cup OnStack = Seen
      /\ \A x \in Seen : index_of[x] \in Nat /\ low[x] \in Nat
      /\ edges \in [Names -> SUBSET Names]
  BY <1>0, <1>1, ListedAre DEF TarjanTypes, OnStack, Closed
<1>6. /\ \A i \in DOMAIN work : Node(i) \in Seen /\ Node(i) \in OnStack /\ Node(i) \in Names
      /\ \A i \in 1 .. last - 1 : index_of[Node(i)] < index_of[n] /\ Node(i) # n
  <2>1. \A i \in DOMAIN work : Node(i) \in Seen /\ Node(i) \in OnStack
    BY <1>0, <1>1, <1>2 DEF Trail
  <2>2. \A i \in 1 .. last - 1 : index_of[Node(i)] < index_of[n]
    BY <1>1, <1>2, <1>3 DEF Trail
  <2> QED BY <1>1, <1>5, <2>1, <2>2
<1>7. \A x : InRegion(x, last) <=> x \in D
  <2>1. \A j \in DOMAIN work : ~(j > last)
    BY <1>2
  <2> QED BY <1>0, <1>2, <1>6, <2>1 DEF InRegion, Entered
<1>8. /\ n \in D /\ D \in SUBSET OnStack
      /\ \A i \in 1 .. last - 1 : Node(i) \notin D
      /\ \A x \in D : Reaches(x, n) /\ Reaches(n, x)
      /\ \A i \in DOMAIN work : Node(i) \in D => i = last
  <2>1. n \in D /\ D \in SUBSET OnStack
    BY <1>0, <1>2, <1>5, <1>6
  <2>2. \A i \in 1 .. last - 1 : Node(i) \notin D
    BY <1>0, <1>1, <1>3, <1>5, <1>6
  <2>3. \A x \in D : Reaches(x, n) /\ Reaches(n, x)
    BY <1>1, <1>2, <1>7, <2>1 DEF Regions
  <2> QED BY <1>3, <2>1, <2>2, <2>3
<1>9. \A x \in D : \A y \in edges[x] : y \in done \/ (y \in OnStack /\ low[n] <= index_of[y])
  <2> SUFFICES ASSUME NEW x \in D, NEW y \in edges[x]
               PROVE  y \in done \/ (y \in OnStack /\ low[n] <= index_of[y])
    OBVIOUS
  <2>1. y \in Seen
    <3>1. CASE \E i \in DOMAIN work : Node(i) = x /\ (y \in work[i].rest \/ (i + 1 \in DOMAIN work /\ y = Node(i + 1)))
      <4>1. PICK i \in DOMAIN work : Node(i) = x /\ (y \in work[i].rest \/ (i + 1 \in DOMAIN work /\ y = Node(i + 1)))
        BY <3>1
      <4>2. i = last
        BY <1>8, <4>1
      <4>3. last + 1 \notin DOMAIN work
        BY <1>2
      <4> QED BY <1>2, <4>1, <4>2, <4>3
    <3> QED BY <1>1, <1>8, <3>1 DEF Looked
  <2>2. ASSUME y \in OnStack PROVE low[n] <= index_of[y]
    <3>1. InRegion(x, last) /\ x \in OnStack /\ Node(last) \in Seen
      BY <1>2, <1>6, <1>7, <1>8
    <3>2. (x = Node(last) /\ y \in work[last].rest) \/ low[Node(last)] <= index_of[y]
      BY <1>1, <1>2, <2>2, <3>1 DEF Lows
    <3> QED BY <1>2, <3>2
  <2> QED BY <1>5, <2>1, <2>2
<1>10. /\ low[n] <= index_of[n]
       /\ \E y \in OnStack : index_of[y] = low[n] /\ Reaches(n, y)
  BY <1>1, <1>2 DEF Lows
<1>11. ASSUME low[n] # index_of[n]
       PROVE  /\ last # 1 /\ Reaches(n, up) /\ stack' = stack /\ OnStack' = OnStack /\ Closed' = done
              /\ components' = components
  <2>1. last # 1 /\ Reaches(n, up)
    <3>1. PICK y \in OnStack : index_of[y] = low[n] /\ Reaches(n, y)
      BY <1>10
    <3>2. index_of[y] < index_of[n]
      BY <1>1, <1>5, <1>10, <1>11, <3>1
    <3>3. PICK j \in DOMAIN work : InRegion(y, j)
      BY <1>1 DEF Trail
    <3>4. j \in 1 .. last - 1
      BY <1>0, <1>1, <1>3, <1>5, <1>7, <3>2, <3>3
    <3>5. Reaches(y, Node(j))
      BY <1>1, <3>3 DEF Regions
    <3>6. last # 1 /\ (j = last - 1 \/ j < last - 1) /\ last - 1 \in DOMAIN work
      BY <1>2, <1>3, <3>4
    <3>7. Reaches(Node(j), up)
      <4>1. CASE j = last - 1
        BY <1>2, <3>6, <4>1 DEF Reaches, Leads
      <4>2. CASE j < last - 1
        BY <1>1, <1>2, <3>6, <4>2 DEF Trail
      <4> QED BY <3>6, <4>1, <4>2
    <3>8. n \in Names /\ y \in Names /\ Node(j) \in Names
      BY <1>1, <1>5, <1>6
    <3> QED BY <1>5, <3>1, <3>5, <3>6, <3>7, <3>8, LeadsOn DEF Reaches
  <2>2. stack' = stack /\ components' = components
    BY <1>1, <1>11
  <2> QED BY <1>0, <1>3, <2>1, <2>2 DEF OnStack, Closed
<1>12. ASSUME low[n] = index_of[n]
       PROVE  /\ stack' \in Seq(Seen) /\ DOMAIN stack' \subseteq DOMAIN stack
              /\ \A j \in DOMAIN stack' : stack'[j] = stack[j]
              /\ OnStack' = OnStack \ D /\ Closed' = done \cup D
              /\ components' = components \cup (IF D # {n} \/ n \in edges[n] THEN {D} ELSE {})
  <2>1. PICK k : k = Place(n)
    OBVIOUS
  <2>2. k \in DOMAIN stack /\ stack[k] = n
    <3>1. \E j \in DOMAIN stack : stack[j] = n
      BY <1>2, <1>6 DEF OnStack, ToSet
    <3> QED BY <2>1, <3>1 DEF Place
  <2>3. /\ stack \in Seq(Seen) /\ index_of \in [Seen -> Nat]
        /\ \A i, j \in DOMAIN stack : i < j => index_of[stack[i]] < index_of[stack[j]]
    BY <1>1 DEF TarjanTypes, Numbers
  <2>4. Popped(n) = {stack[j] : j \in k .. Len(stack)} /\ stack' = SubSeq(stack, 1, k - 1)
    BY <1>1, <1>12, <2>1 DEF Popped
  <2>5. /\ Popped(n) = {x \in ToSet(stack) : index_of[n] <= index_of[x]} /\ IsFiniteSet(Popped(n))
        /\ stack' \in Seq(Seen) /\ DOMAIN stack' \subseteq DOMAIN stack
        /\ \A j \in DOMAIN stack' : stack'[j] = stack[j]
        /\ ToSet(stack') = {x \in ToSet(stack) : index_of[x] < index_of[n]}
    <3> DEFINE top == {stack[j] : j \in k .. Len(stack)}
               left == SubSeq(stack, 1, k - 1)
    <3>1. SplitAt(Seen, stack, index_of, k, top, left)
      <4> HIDE DEF Seen
      <4> QED BY <2>2, <2>3, CutByRank
    <3>2. Popped(n) = top /\ stack' = left
      BY <2>4
    <3> HIDE DEF top, left
    <3> QED BY <2>2, <3>1, <3>2 DEF SplitAt
  <2>6. Popped(n) = D /\ IsFiniteSet(D) /\ OnStack' = {x \in OnStack : index_of[x] < index_of[n]}
    BY <1>0, <2>5 DEF OnStack
  <2>7. OnStack' = OnStack \ D
    BY <1>0, <1>1, <1>5, <2>6
  <2>8. Closed' = done \cup D
    <3>1. Closed' = Seen \ OnStack'
      BY <1>3 DEF Closed
    <3> QED BY <1>5, <1>8, <2>7, <3>1
  <2>9. Cardinality(D) > 1 <=> D # {n}
    BY <1>8, <2>6, MoreThanOne
  <2> QED BY <1>1, <1>12, <2>5, <2>6, <2>7, <2>8, <2>9
<1>13. /\ stack' \in Seq(Seen) /\ DOMAIN stack' \subseteq DOMAIN stack /\ \A j \in DOMAIN stack' : stack'[j] = stack[j]
       /\ OnStack' \subseteq OnStack /\ \A x \in OnStack : index_of[x] < index_of[n] => x \in OnStack'
  <2>1. \A x \in OnStack : index_of[x] < index_of[n] => x \notin D
    BY <1>0, <1>1, <1>5
  <2>2. stack \in Seq(Seen)
    BY <1>1 DEF TarjanTypes
  <2> QED BY <1>11, <1>12, <2>1, <2>2
<1>14. /\ low' \in [Seen -> Nat] /\ \A x \in Seen : low'[x] <= low[x]
       /\ \A i \in 1 .. last - 1 : low'[Node(i)] = low[Node(i)]
                                   \/ (i = last - 1 /\ low'[Node(i)] = low[n] /\ low[n] < low[Node(i)])
       /\ last # 1 => low'[up] <= low[n]
  <2>1. low \in [Seen -> Nat] /\ low[n] \in Nat /\ \A x \in Seen : low[x] \in Nat
    BY <1>1 DEF TarjanTypes
  <2>2. CASE last = 1
    <3>1. low' = low
      BY <1>1, <2>2
    <3> QED BY <1>5, <1>6, <1>3, <2>1, <2>2, <3>1
  <2>3. CASE last # 1
    <3>1. up \in Seen /\ up = Node(last - 1) /\ last - 1 \in 1 .. last - 1
      BY <1>2, <1>6, <2>3
    <3>2. low' = [low EXCEPT ![up] = IF low[up] <= low[n] THEN low[up] ELSE low[n]]
      BY <1>1, <2>3 DEF Min2
    <3>3. /\ low' \in [Seen -> Nat] /\ \A x \in Seen : x # up => low'[x] = low[x]
          /\ low'[up] = IF low[up] <= low[n] THEN low[up] ELSE low[n]
      BY <2>1, <3>1, <3>2
    <3>4. ASSUME NEW i \in 1 .. last - 1, Node(i) = up PROVE i = last - 1
      <4>1. i \in DOMAIN work /\ last - 1 \in DOMAIN work
        BY <1>3, <3>1
      <4>2. ~(i < last - 1)
        BY <1>1, <1>5, <3>1, <3>4, <4>1 DEF Trail
      <4> QED BY <1>2, <4>2
    <3>5. low[up] \in Nat /\ (low[up] <= low[n] \/ low[n] < low[up])
      BY <2>1, <3>1
    <3>6. \A x \in Seen : low'[x] <= low[x]
      BY <2>1, <3>3, <3>5
    <3>7. low'[up] <= low[n]
      BY <2>1, <3>3, <3>5
    <3> QED BY <1>3, <1>6, <3>3, <3>4, <3>5, <3>6, <3>7
  <2> QED BY <2>2, <2>3
<1>15. ASSUME NEW i \in 1 .. last - 1, NEW x
       PROVE  InRegion(x, i)' <=> x \in OnStack' /\ (InRegion(x, i) \/ (i = last - 1 /\ x \in D))
  <2>1. /\ Node(i) \in Seen /\ Node(i)' = Node(i) /\ i \in DOMAIN work /\ i \in DOMAIN work' /\ i < last
        /\ index_of[Node(i)] \in Nat /\ index_of[n] \in Nat /\ index_of[Node(i)] < index_of[n]
    BY <1>1, <1>2, <1>3, <1>5, <1>6
  <2>2. InRegion(x, i)' <=>
          /\ x \in OnStack' /\ index_of[Node(i)] <= index_of[x]
          /\ \A j \in 1 .. last - 1 : j > i => index_of[x] < index_of[Node(j)]
    BY <1>1, <1>2, <1>3, <1>6, <2>1 DEF InRegion, Entered
  <2>3. InRegion(x, i) <=>
          /\ x \in OnStack /\ index_of[Node(i)] <= index_of[x]
          /\ \A j \in 1 .. last - 1 : j > i => index_of[x] < index_of[Node(j)]
          /\ index_of[x] < index_of[n]
    BY <1>2, <1>3, <1>6, <2>1 DEF InRegion, Entered
  <2>4. x \in D <=> x \in OnStack /\ index_of[n] <= index_of[x]
    BY <1>0
  <2>5. x \in OnStack => index_of[x] \in Nat
    BY <1>5
  <2>6. ASSUME x \in OnStack', x \in D
        PROVE  (\A j \in 1 .. last - 1 : j > i => index_of[x] < index_of[Node(j)]) <=> i = last - 1
    <3>1. \A j \in 1 .. last - 1 : ~(index_of[x] < index_of[Node(j)])
      BY <1>3, <1>5, <1>6, <2>1, <2>4, <2>5, <2>6
    <3>2. i # last - 1 => last - 1 \in 1 .. last - 1 /\ last - 1 > i
      BY <1>2
    <3>3. i = last - 1 => \A j \in 1 .. last - 1 : ~(j > i)
      BY <1>2
    <3> QED BY <3>1, <3>2, <3>3
  <2> QED BY <1>13, <2>1, <2>2, <2>3, <2>4, <2>5, <2>6
<1>16. ASSUME NEW x \in D, x \in OnStack' PROVE last # 1 /\ Reaches(n, up)
  BY <1>11, <1>12, <1>16
<1>17. TarjanTypes'
  <2>1. \A i \in DOMAIN work' : work'[i].rest \subseteq edges[Node(i)']
    BY <1>1, <1>2, <1>3 DEF TarjanTypes
  <2> QED BY <1>1, <1>2, <1>3, <1>13, <1>14, <2>1 DEF TarjanTypes
<1>18. Numbers'
  BY <1>1, <1>3, <1>13 DEF Numbers
<1>19. Trail'
  <2>1. ASSUME NEW i \in DOMAIN work' PROVE Node(i)' \in Seen' /\ Node(i)' \in OnStack'
    BY <1>2, <1>3, <1>6, <1>13
  <2>2. ASSUME NEW i \in DOMAIN work', NEW j \in DOMAIN work', i < j
        PROVE  Reaches(Node(i), Node(j))' /\ index_of'[Node(i)'] < index_of'[Node(j)']
    BY <1>1, <1>2, <1>3, <1>6, <2>2 DEF Trail, Reaches
  <2>3. ASSUME NEW x \in OnStack' PROVE \E i \in DOMAIN work' : InRegion(x, i)'
    <3>1. PICK i \in DOMAIN work : InRegion(x, i)
      BY <1>1, <1>13 DEF Trail
    <3>2. CASE i # last
      <4>1. i \in 1 .. last - 1
        BY <1>3, <3>2
      <4> QED BY <1>2, <1>15, <3>1, <4>1
    <3>3. CASE i = last
      <4>1. x \in D /\ last # 1
        BY <1>7, <1>16, <3>1, <3>3
      <4> QED BY <1>2, <1>15, <4>1
    <3> QED BY <3>2, <3>3
  <2>4. \A x \in Names' : x \in Seen' \/ x \in ToSet(order)'
    BY <1>1, <1>3, <1>6 DEF Trail
  <2> QED BY <2>1, <2>2, <2>3, <2>4 DEF Trail
<1>20. Regions'
  <2> SUFFICES ASSUME NEW i \in 1 .. last - 1, NEW x \in OnStack', InRegion(x, i)'
               PROVE  Reaches(x, Node(i)) /\ Reaches(Node(i), x)
    BY <1>2, <1>3, <1>4 DEF Regions, Reaches
  <2>1. CASE InRegion(x, i)
    BY <1>1, <1>3, <1>13, <2>1 DEF Regions
  <2>2. CASE i = last - 1 /\ x \in D
    <3>1. up = Node(i) /\ Reaches(n, up) /\ Reaches(x, n) /\ Reaches(n, x)
      BY <1>2, <1>8, <1>16, <2>2
    <3>2. Reaches(Node(i), n)
      BY <1>1, <1>2, <1>3 DEF Trail
    <3>3. x \in Names /\ n \in Names /\ Node(i) \in Names
      BY <1>2, <1>3, <1>5, <1>6, <1>13
    <3> QED BY <1>5, <3>1, <3>2, <3>3, LeadsOn DEF Reaches
  <2> QED BY <1>15, <2>1, <2>2
<1>21. Looked'
  <2>1. \A x \in Closed' : edges[x] \subseteq Closed'
    <3>1. \A x \in done : edges[x] \subseteq done
      BY <1>0, <1>1 DEF Looked
    <3>2. CASE low[n] # index_of[n]
      BY <1>11, <3>1, <3>2
    <3>3. CASE low[n] = index_of[n]
      <4>1. \A x \in D : edges[x] \subseteq done \cup D
        BY <1>0, <1>9, <3>3
      <4> QED BY <1>12, <3>1, <3>3, <4>1
    <3> QED BY <3>2, <3>3
  <2>2. ASSUME NEW x \in OnStack', NEW y \in edges[x]
        PROVE  \/ y \in Seen'
               \/ \E i \in DOMAIN work' : Node(i)' = x /\ (y \in work'[i].rest \/ (i + 1 \in DOMAIN work' /\ y = Node(i + 1)'))
    <3>1. CASE y \in Seen
      BY <1>3, <3>1
    <3>2. CASE y \notin Seen
      <4>1. PICK i \in DOMAIN work : Node(i) = x /\ (y \in work[i].rest \/ (i + 1 \in DOMAIN work /\ y = Node(i + 1)))
        BY <1>1, <1>13, <2>2, <3>2 DEF Looked
      <4>2. y \in work[i].rest
        BY <1>6, <3>2, <4>1
      <4>3. i \in 1 .. last - 1
        BY <1>2, <1>3, <4>2
      <4> QED BY <1>2, <1>3, <4>1, <4>2, <4>3
    <3> QED BY <3>1, <3>2
  <2> QED BY <1>1, <2>1, <2>2 DEF Looked
<1>22. Lows'
  <2> SUFFICES ASSUME NEW i \in 1 .. last - 1
               PROVE  /\ low'[Node(i)] <= index_of[Node(i)]
                      /\ \E y \in OnStack' : index_of[y] = low'[Node(i)] /\ Reaches(Node(i), y)
                      /\ \A x \in OnStack' : InRegion(x, i)' =>
                           \A y \in edges[x] \cap OnStack' :
                             (x = Node(i) /\ y \in work'[i].rest) \/ low'[Node(i)] <= index_of[y]
    BY <1>1, <1>2, <1>3 DEF Lows, Reaches
  <2>1. /\ i \in DOMAIN work /\ Node(i) \in Seen /\ index_of[Node(i)] \in Nat /\ index_of[n] \in Nat
        /\ low[Node(i)] \in Nat /\ low[n] \in Nat /\ low'[Node(i)] \in Nat /\ index_of[Node(i)] < index_of[n]
        /\ low'[Node(i)] <= low[Node(i)] /\ work'[i] = work[i]
    BY <1>1, <1>2, <1>3, <1>5, <1>6, <1>14
  <2>2. /\ low[Node(i)] <= index_of[Node(i)]
        /\ \E y \in OnStack : index_of[y] = low[Node(i)] /\ Reaches(Node(i), y)
        /\ \A x \in OnStack : InRegion(x, i) =>
             \A y \in edges[x] \cap OnStack :
               (x = Node(i) /\ y \in work[i].rest) \/ low[Node(i)] <= index_of[y]
    BY <1>1, <2>1 DEF Lows
  <2>3. low'[Node(i)] <= index_of[Node(i)]
    BY <2>1, <2>2
  <2>4. \E y \in OnStack' : index_of[y] = low'[Node(i)] /\ Reaches(Node(i), y)
    <3>1. PICK y \in OnStack : index_of[y] = low'[Node(i)] /\ Reaches(Node(i), y)
      <4>1. CASE low'[Node(i)] = low[Node(i)]
        BY <2>2, <4>1
      <4>2. CASE i = last - 1 /\ low'[Node(i)] = low[n] /\ low[n] < low[Node(i)]
        <5>1. PICK y \in OnStack : index_of[y] = low[n] /\ Reaches(n, y)
          BY <1>10
        <5>2. Reaches(Node(i), n)
          BY <1>1, <1>2, <1>3 DEF Trail
        <5>3. Node(i) \in Names /\ n \in Names /\ y \in Names
          BY <1>2, <1>5, <1>6, <2>1
        <5> QED BY <1>5, <4>2, <5>1, <5>2, <5>3, LeadsOn DEF Reaches
      <4> QED BY <1>14, <4>1, <4>2
    <3>2. index_of[y] < index_of[n]
      BY <2>1, <2>3, <3>1
    <3> QED BY <1>13, <3>1, <3>2
  <2>5. ASSUME NEW x \in OnStack', InRegion(x, i)', NEW y \in edges[x] \cap OnStack'
        PROVE  (x = Node(i) /\ y \in work'[i].rest) \/ low'[Node(i)] <= index_of[y]
    <3>1. x \in OnStack /\ y \in OnStack /\ index_of[y] \in Nat
      BY <1>5, <1>13, <2>5
    <3>2. CASE InRegion(x, i)
      BY <2>1, <2>2, <2>5, <3>1, <3>2
    <3>3. CASE i = last - 1 /\ x \in D
      <4>1. low[n] <= index_of[y]
        BY <1>5, <1>9, <2>5, <3>1, <3>3
      <4>2. low'[Node(i)] <= low[n]
        BY <1>2, <1>14, <1>16, <2>5, <3>3
      <4> QED BY <2>1, <3>1, <4>1, <4>2
    <3> QED BY <1>15, <2>5, <3>2, <3>3
  <2> QED BY <2>3, <2>4, <2>5
<1>23. Found'
  <2>1. CASE low[n] # index_of[n]
    BY <1>0, <1>1, <1>11, <2>1 DEF Found
  <2>2. CASE low[n] = index_of[n]
    <3>1. \A y \in done : edges[y] \subseteq done
      BY <1>0, <1>1 DEF Looked
    <3>2. \A y \in D : edges[y] \subseteq done \cup D
      BY <1>0, <1>9, <2>2
    <3>3. \A x \in D : Leads(edges, x, n) /\ Leads(edges, n, x)
      BY <1>8 DEF Reaches
    <3>4. /\ edges \in [Names -> SUBSET Names] /\ done \in SUBSET Names /\ D \in SUBSET Names
          /\ n \in D /\ D \cap done = {}
      BY <1>5, <1>8
    <3>5. Joins(edges, done, D, n)
      <4> HIDE DEF Names
      <4> QED BY <3>1, <3>2, <3>3, <3>4, NextComponent
    <3>6. components = {C \in CyclicComponents(edges) : C \subseteq done}
      BY <1>0, <1>1 DEF Found
    <3>7. CyclicComponents(edges)' = CyclicComponents(edges)
      BY <1>1
    <3> QED BY <1>12, <2>2, <3>5, <3>6, <3>7 DEF Found, Joins
  <2> QED BY <2>1, <2>2
<1> QED BY <1>17, <1>18, <1>19, <1>20, <1>21, <1>22, <1>23 DEF TarjanInv

\* Every step keeps the invariant.
LEMMA TarjanKeepsInv == TarjanInv /\ [TarjanNext]_tarjanVars => TarjanInv'
<1> SUFFICES ASSUME TarjanInv, [TarjanNext]_tarjanVars PROVE TarjanInv'
  OBVIOUS
<1>1. CASE TryRoot
  BY <1>1, TryRootKeeps
<1>2. CASE Enter
  BY <1>2, EnterKeeps
<1>3. CASE Leave
  BY <1>3, LeaveKeeps
<1>4. ASSUME NEW child \in DOMAIN edges, Descend(child) PROVE TarjanInv'
  BY <1>4, DescendKeeps
<1>5. ASSUME NEW child \in DOMAIN edges, Glance(child) PROVE TarjanInv'
  BY <1>5, GlanceKeeps
<1>6. CASE UNCHANGED tarjanVars
  BY <1>6 DEF tarjanVars, TarjanInv, TarjanTypes, Numbers, Trail, Regions, Looked, Lows, Found, Names, Closed, Node,
              Entered, Reaches, InRegion, Seen, OnStack
<1> QED BY <1>1, <1>2, <1>3, <1>4, <1>5, <1>6 DEF TarjanNext

\* With no root left and nothing in progress every name is closed.
LEMMA FoundAtTheEnd == TarjanInv => ReportsEveryCycleOnce
<1> SUFFICES ASSUME TarjanInv, work = <<>>, order = <<>> PROVE components = CyclicComponents(edges)
  BY DEF ReportsEveryCycleOnce
<1>1. TarjanTypes /\ Trail /\ Found
  BY DEF TarjanInv
<1>2. DOMAIN work = {} /\ ToSet(order) = {}
  BY DEF ToSet
<1>3. OnStack = {}
  BY <1>1, <1>2 DEF Trail
<1>4. Closed = Names
  BY <1>1, <1>2, <1>3 DEF Trail, TarjanTypes, Closed
<1>5. \A C \in CyclicComponents(edges) : C \subseteq Names
  <2>1. edges \in [Names -> SUBSET Names]
    BY <1>1 DEF TarjanTypes
  <2>2. \A x \in Names : Upstream(edges, x) \subseteq Names
    BY <2>1, UpstreamCloses
  <2> QED BY <2>2 DEF CyclicComponents, Names
<1> QED BY <1>1, <1>4, <1>5 DEF Found

\* For every plan over every vocabulary, and whatever the order of the neighbours,
\* _cyclic_components returns exactly the classes of names that are upstream of each
\* other, self-loops included, each as one set.
THEOREM EveryCycleIsFoundOnce == TarjanSpec => []ReportsEveryCycleOnce
<1>1. ASSUME TarjanSpec!1 PROVE TarjanInv
  BY <1>1, Beginning
<1> QED BY <1>1, TarjanKeepsInv, FoundAtTheEnd, PTL DEF TarjanSpec
=============================================================================
