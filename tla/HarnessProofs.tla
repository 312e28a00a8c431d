---------------------------- MODULE HarnessProofs ----------------------------
(***************************************************************************)
(* Theorems about the deterministic repairer and about the measuring loop  *)
(* around it, for every plan over every vocabulary and any number of       *)
(* corruptions: the rules lose no work, leave what they decline, and       *)
(* restore an order, the first one there is; the ground truth describes    *)
(* the damage, the validator reports it, and the rules harm no step they   *)
(* were given intact.                                                      *)
(***************************************************************************)
EXTENDS Harness, InjectionProofs

(***************************************************************************)
(* Each rule as a relation between the plan before it and after it.        *)
(***************************************************************************)
TypeOK ==
  /\ broken_plan \in AgentPlan
  /\ plan \in AgentPlan
  /\ errors = Errors(broken_plan)
  /\ pc \in {"duplicates", "dependencies", "reorder", "emit", "stop", "done"}
  /\ pc = "duplicates" => plan = broken_plan
  /\ pc = "emit" => emitted \in Seq(DOMAIN steps)

\* The first step of those that do the same work is never taken for a copy.
LEMMA FirstSurvives ==
  ASSUME NEW ss \in Seq(Step), NEW errs, NEW i \in DOMAIN ss
  PROVE  \E m \in DOMAIN ss \ Doomed(ss, errs) : Body(ss[m]) = Body(ss[i])
<1> DEFINE same == {j \in DOMAIN ss : Body(ss[j]) = Body(ss[i])}
<1>1. DOMAIN ss = 1 .. Len(ss) /\ Len(ss) \in Nat
  OBVIOUS
<1>2. PICK m \in same : \A j \in same : m <= j
  BY <1>1, IndicesAreFinite, LeastOf
<1>3. ASSUME m \in Doomed(ss, errs) PROVE FALSE
  <2> DEFINE first(members) == CHOOSE x \in members : \A y \in members : x <= y
  <2>1. PICK e : /\ Members(ss, e) # {}
                 /\ m \in Members(ss, e) \ {first(Members(ss, e))}
                 /\ Body(ss[m]) = Body(ss[first(Members(ss, e))])
    BY <1>3 DEF Doomed
  <2>2. Members(ss, e) \in SUBSET (1 .. Len(ss))
    BY <1>1 DEF Members
  <2>3. \E x \in Members(ss, e) : \A y \in Members(ss, e) : x <= y
    BY <1>1, <2>1, <2>2, IndicesAreFinite, LeastOf
  <2> DEFINE f == first(Members(ss, e))
  <2>4. f \in Members(ss, e) /\ f <= m
    BY <2>1, <2>3
  <2>5. f \in same /\ f # m
    BY <1>1, <2>1, <2>2, <2>4
  <2> QED BY <1>1, <1>2, <2>4, <2>5
<1> QED BY <1>2, <1>3

\* What is left after the copies are dropped: steps of the plan, in its order, at
\* least one of each kind of work.
LEMMA CopiesDropped ==
  ASSUME TypeOK, DropDuplicates
  PROVE  /\ plan' \in AgentPlan /\ plan'.stop_condition = plan.stop_condition
         /\ \A k \in DOMAIN steps' : \E i \in DOMAIN steps : steps'[k] = steps[i]
         /\ \A i \in DOMAIN steps : \E k \in DOMAIN steps' : Body(steps'[k]) = Body(steps[i])
         /\ \A k, m \in DOMAIN steps' : k < m =>
              \E i, j \in DOMAIN steps : i < j /\ steps'[k] = steps[i] /\ steps'[m] = steps[j]
<1> DEFINE K == DOMAIN steps \ Doomed(steps, errors)
<1>1. steps \in Seq(Step) /\ DOMAIN steps = 1 .. Len(steps) /\ Len(steps) \in Nat
  BY StepDomain DEF TypeOK, steps
<1>2. CASE DUPLICATE_STEP \notin Reported
  <2>1. plan' = plan /\ steps' = steps
    BY <1>2 DEF DropDuplicates, steps
  <2> QED BY <1>1, <2>1 DEF TypeOK
<1>3. CASE DUPLICATE_STEP \in Reported
  <2>1. plan' = [plan EXCEPT !.steps = Sublist(plan.steps, K)]
    BY <1>3 DEF DropDuplicates, steps
  <2>2. K \in SUBSET DOMAIN steps
    OBVIOUS
  <2> DEFINE s == Sublist(steps, K)
  <2>3. /\ s \in Seq(Step) /\ DOMAIN s = 1 .. Cardinality(K)
        /\ \A k \in DOMAIN s : Nth(K, k) \in K /\ s[k] = steps[Nth(K, k)]
        /\ \A i \in K : Rank(K, i) \in DOMAIN s /\ s[Rank(K, i)] = steps[i]
    <3> HIDE DEF K
    <3> QED BY <1>1, <2>2, SublistOf
  <2>4. plan' \in AgentPlan /\ plan'.stop_condition = plan.stop_condition /\ steps' = s
    BY <2>1, <2>3, StepsReplaced DEF TypeOK, steps
  <2>5. ASSUME NEW i \in DOMAIN steps
        PROVE  \E k \in DOMAIN s : Body(s[k]) = Body(steps[i])
    <3>1. PICK m \in K : Body(steps[m]) = Body(steps[i])
      BY <1>1, FirstSurvives
    <3> HIDE DEF K
    <3> QED BY <2>3, <3>1
  <2>6. ASSUME NEW k \in DOMAIN s, NEW m \in DOMAIN s, k < m
        PROVE  \E i, j \in DOMAIN steps : i < j /\ s[k] = steps[i] /\ s[m] = steps[j]
    <3>1. /\ Nth(K, k) \in DOMAIN steps /\ Nth(K, m) \in DOMAIN steps
          /\ s[k] = steps[Nth(K, k)] /\ s[m] = steps[Nth(K, m)]
      BY <2>2, <2>3
    <3>2. K \in SUBSET Int /\ IsFiniteSet(K)
      BY <1>1, <2>2, IndicesAreFinite
    <3>3. Nth(K, k) < Nth(K, m)
      <4> HIDE DEF K
      <4> QED BY <2>3, <2>6, <3>2, NthIncreases
    <3> QED BY <3>1, <3>3
  <2> HIDE DEF s, K
  <2> QED BY <2>2, <2>3, <2>4, <2>5, <2>6
<1> QED BY <1>2, <1>3

\* Cleaning the references of some steps takes references away and does nothing else.
LEMMA ReferencesDropped ==
  ASSUME TypeOK, DropUnknownDependencies
  PROVE  /\ plan' \in AgentPlan /\ plan'.stop_condition = plan.stop_condition
         /\ DOMAIN steps' = DOMAIN steps
         /\ \A i \in DOMAIN steps :
              /\ steps'[i].id = steps[i].id /\ steps'[i].tool = steps[i].tool
              /\ steps'[i].arguments = steps[i].arguments /\ steps'[i].produces = steps[i].produces
              /\ steps'[i].input_from \subseteq steps[i].input_from
              /\ steps[i].id \notin DetectedStepIds(OfType(errors, UNKNOWN_DEPENDENCY))
                   => steps'[i] = steps[i]
<1> DEFINE known == KnownIds(steps)
           targets == DetectedStepIds(OfType(errors, UNKNOWN_DEPENDENCY))
           Cleaned(s) == IF s.id \in targets THEN [s EXCEPT !.input_from = @ \cap known] ELSE s
           cleaned == [i \in DOMAIN steps |-> Cleaned(steps[i])]
<1>1. steps \in Seq(Step) /\ DOMAIN steps = 1 .. Len(steps) /\ Len(steps) \in Nat
      /\ \A i \in DOMAIN steps : steps[i] \in Step
  BY StepDomain DEF TypeOK, steps
<1>2. plan' = IF UNKNOWN_DEPENDENCY \in Reported THEN [plan EXCEPT !.steps = cleaned] ELSE plan
  BY DEF DropUnknownDependencies, steps
<1>3. ASSUME NEW s \in Step
      PROVE  /\ Cleaned(s) \in Step
             /\ Cleaned(s).id = s.id /\ Cleaned(s).tool = s.tool /\ Cleaned(s).arguments = s.arguments
             /\ Cleaned(s).produces = s.produces /\ Cleaned(s).input_from \subseteq s.input_from
             /\ s.id \notin targets => Cleaned(s) = s
  <2> HIDE DEF known, targets
  <2> QED BY DEF Step
<1> HIDE DEF Cleaned
<1>4. cleaned \in Seq(Step) /\ DOMAIN cleaned = DOMAIN steps
  BY <1>1, <1>3
<1>5. CASE UNKNOWN_DEPENDENCY \in Reported
  <2> HIDE DEF cleaned
  <2>1. plan' \in AgentPlan /\ plan'.stop_condition = plan.stop_condition /\ steps' = cleaned
    BY <1>2, <1>4, <1>5, StepsReplaced DEF TypeOK, steps
  <2> QED BY <1>1, <1>3, <1>4, <2>1 DEF cleaned
<1>6. CASE UNKNOWN_DEPENDENCY \notin Reported
  BY <1>2, <1>6 DEF TypeOK, steps
<1> QED BY <1>5, <1>6

\* Adopting the order permutes the steps.
LEMMA OrderAdopted ==
  ASSUME TypeOK, AdoptOrder
  PROVE  /\ plan' \in AgentPlan /\ plan'.stop_condition = plan.stop_condition
         /\ DOMAIN steps' = DOMAIN emitted
         /\ \A k \in DOMAIN emitted : emitted[k] \in DOMAIN steps /\ steps'[k] = steps[emitted[k]]
         /\ \A i \in DOMAIN steps : \E k \in DOMAIN emitted : emitted[k] = i
<1>1. steps \in Seq(Step) /\ emitted \in Seq(DOMAIN steps)
  BY StepDomain DEF TypeOK, AdoptOrder, steps
<1> DEFINE s == [k \in DOMAIN emitted |-> steps[emitted[k]]]
<1>2. s \in Seq(Step) /\ DOMAIN s = DOMAIN emitted
  BY <1>1
<1>3. plan' = [plan EXCEPT !.steps = s]
  BY DEF AdoptOrder, steps
<1>4. plan' \in AgentPlan /\ plan'.stop_condition = plan.stop_condition /\ steps' = s
  <2> HIDE DEF s
  <2> QED BY <1>2, <1>3, StepsReplaced DEF TypeOK, steps
<1>5. \A i \in DOMAIN steps : \E k \in DOMAIN emitted : emitted[k] = i
  BY DEF AdoptOrder, Remaining
<1> QED BY <1>1, <1>2, <1>4, <1>5

\* The rest leave the steps alone.
LEMMA StopFilled ==
  ASSUME TypeOK, FillStopCondition
  PROVE  plan' \in AgentPlan /\ steps' = steps
  BY DEF TypeOK, FillStopCondition, AgentPlan, StopCondition, steps

LEMMA TypeInductive == TypeOK /\ [RepairNext]_repairVars => TypeOK'
<1> SUFFICES ASSUME TypeOK, [RepairNext]_repairVars PROVE TypeOK'
  OBVIOUS
<1>1. CASE DropDuplicates
  BY <1>1, CopiesDropped DEF TypeOK, DropDuplicates
<1>2. CASE DropUnknownDependencies
  BY <1>2, ReferencesDropped DEF TypeOK, DropUnknownDependencies
<1>3. CASE BeginReorder
  BY <1>3 DEF TypeOK, BeginReorder, steps
<1>4. CASE LeaveUnordered
  BY <1>4 DEF TypeOK, LeaveUnordered
<1>5. CASE AdoptOrder
  BY <1>5, OrderAdopted DEF TypeOK, AdoptOrder
<1>6. ASSUME NEW i \in DOMAIN steps, Emit(i) PROVE TypeOK'
  BY <1>6 DEF TypeOK, Emit, steps
<1>7. CASE FillStopCondition
  BY <1>7, StopFilled DEF TypeOK, FillStopCondition
<1>8. CASE UNCHANGED repairVars
  BY <1>8 DEF TypeOK, repairVars, steps
<1> QED BY <1>1, <1>2, <1>3, <1>4, <1>5, <1>6, <1>7, <1>8 DEF RepairNext

LEMMA TypeInit == RepairInit => TypeOK
  BY DEF RepairInit, Call, TypeOK

LEMMA TypeHolds == RepairSpec => []TypeOK
  BY TypeInit, TypeInductive, PTL DEF RepairSpec

-----------------------------------------------------------------------------
(***************************************************************************)
(* The work of a plan: what each step does, its name and its wiring aside. *)
(***************************************************************************)
Alike(s, t) == s.tool = t.tool /\ s.arguments = t.arguments /\ s.produces = t.produces

\* No rule loses work, and none makes any up.
LEMMA StepKeepsWork ==
  ASSUME TypeOK, [RepairNext]_repairVars
  PROVE  /\ broken_plan' = broken_plan /\ errors' = errors
         /\ \A i \in DOMAIN steps : \E k \in DOMAIN steps' : Alike(steps'[k], steps[i])
         /\ \A k \in DOMAIN steps' : \E i \in DOMAIN steps :
              steps'[k].id = steps[i].id /\ Alike(steps'[k], steps[i])
<1>1. CASE DropDuplicates
  <2>1. \A i \in DOMAIN steps : \E k \in DOMAIN steps' : Body(steps'[k]) = Body(steps[i])
    BY <1>1, CopiesDropped
  <2>2. \A s, t : Body(s) = Body(t) => Alike(s, t)
    BY DEF Body, Alike
  <2>3. \A k \in DOMAIN steps' : \E i \in DOMAIN steps : steps'[k] = steps[i]
    BY <1>1, CopiesDropped
  <2> QED BY <1>1, <2>1, <2>2, <2>3 DEF DropDuplicates, Alike
<1>2. CASE DropUnknownDependencies
  BY <1>2, ReferencesDropped DEF DropUnknownDependencies, Alike
<1>3. CASE AdoptOrder
  BY <1>3, OrderAdopted DEF AdoptOrder, Alike
<1>4. CASE FillStopCondition
  BY <1>4, StopFilled DEF FillStopCondition, Alike
<1>5. CASE BeginReorder \/ LeaveUnordered \/ (\E i \in DOMAIN steps : Emit(i)) \/ UNCHANGED repairVars
  BY <1>5 DEF BeginReorder, LeaveUnordered, Emit, repairVars, steps, Alike
<1> QED BY <1>1, <1>2, <1>3, <1>4, <1>5 DEF RepairNext

WorkInv ==
  /\ \A i \in DOMAIN broken_plan.steps : \E k \in DOMAIN steps :
       Alike(steps[k], broken_plan.steps[i])
  /\ \A k \in DOMAIN steps : \E i \in DOMAIN broken_plan.steps :
       steps[k].id = broken_plan.steps[i].id /\ Alike(steps[k], broken_plan.steps[i])

LEMMA WorkInductive == TypeOK /\ WorkInv /\ [RepairNext]_repairVars => WorkInv'
<1> SUFFICES ASSUME TypeOK, WorkInv, [RepairNext]_repairVars PROVE WorkInv'
  OBVIOUS
<1>1. \A r, s, t : Alike(r, s) /\ Alike(s, t) => Alike(r, t)
  BY DEF Alike
<1>2. ASSUME NEW i \in DOMAIN broken_plan.steps
      PROVE  \E k \in DOMAIN steps' : Alike(steps'[k], broken_plan.steps[i])
  <2>1. PICK j \in DOMAIN steps : Alike(steps[j], broken_plan.steps[i])
    BY DEF WorkInv
  <2>2. PICK k \in DOMAIN steps' : Alike(steps'[k], steps[j])
    BY StepKeepsWork
  <2> QED BY <1>1, <2>1, <2>2
<1>3. ASSUME NEW k \in DOMAIN steps'
      PROVE  \E i \in DOMAIN broken_plan.steps :
               steps'[k].id = broken_plan.steps[i].id /\ Alike(steps'[k], broken_plan.steps[i])
  <2>1. PICK j \in DOMAIN steps : steps'[k].id = steps[j].id /\ Alike(steps'[k], steps[j])
    BY StepKeepsWork
  <2>2. PICK i \in DOMAIN broken_plan.steps :
          steps[j].id = broken_plan.steps[i].id /\ Alike(steps[j], broken_plan.steps[i])
    BY DEF WorkInv
  <2> QED BY <1>1, <2>1, <2>2
<1> QED BY <1>2, <1>3, StepKeepsWork DEF WorkInv

LEMMA WorkHolds == RepairSpec => []WorkInv
<1>1. RepairInit => WorkInv
  BY DEF RepairInit, Call, WorkInv, Alike, steps
<1> QED BY <1>1, TypeHolds, WorkInductive, PTL DEF RepairSpec

\* Whatever names clash and whichever report is outdated by the time a rule reads it,
\* every tool call of the broken plan, with its arguments and what it produces, is in
\* the repaired one.
THEOREM NoWorkIsLost == RepairSpec => []WorkSurvives
<1>1. WorkInv => WorkSurvives
  BY DEF WorkInv, WorkSurvives, Alike
<1> QED BY <1>1, WorkHolds, PTL

\* A plan that does the same work with the same names is reported for the same tools,
\* up to copies, and for the same requirements.
THEOREM DeclinedErrorsAreKept == RepairSpec => []DeclinedErrorsStay
<1>1. TypeOK /\ WorkInv => DeclinedErrorsStay
  <2> SUFFICES ASSUME TypeOK, WorkInv PROVE DeclinedErrorsStay
    OBVIOUS
  <2> DEFINE old == broken_plan.steps
  <2>1. /\ \A i \in DOMAIN old : \E k \in DOMAIN steps : steps[k].tool = old[i].tool /\ steps[k].produces = old[i].produces
        /\ \A k \in DOMAIN steps : \E i \in DOMAIN old :
             steps[k].id = old[i].id /\ steps[k].tool = old[i].tool /\ steps[k].produces = old[i].produces
    BY DEF WorkInv, Alike
  <2>2. Produced(steps) = Produced(old)
    BY <2>1 DEF Produced
  <2>3. MissingTags(steps) = MissingTags(old) /\ MissingWork(steps) = MissingWork(old)
    BY <2>2, Zenon DEF MissingTags, MissingWork
  <2>4. ASSUME NEW e \in UnknownTools(steps) PROVE e \in UnknownTools(old)
    <3>1. PICK k \in DOMAIN steps : /\ steps[k].tool \notin Available
                                    /\ e = Error(UNKNOWN_TOOL, {steps[k].id}, {ToolPath(steps[k].id)}, "")
      BY <2>4, Zenon DEF UnknownTools
    <3>2. PICK i \in DOMAIN old : steps[k].id = old[i].id /\ steps[k].tool = old[i].tool
      BY <2>1
    <3>3. e = Error(UNKNOWN_TOOL, {old[i].id}, {ToolPath(old[i].id)}, "") /\ old[i].tool \notin Available
      BY <3>1, <3>2
    <3> QED BY <3>3, Zenon DEF UnknownTools
  <2>5. ASSUME NEW e \in UnknownTools(old) PROVE UnknownTools(steps) # {}
    <3>1. PICK i \in DOMAIN old : old[i].tool \notin Available
      BY <2>5, Zenon DEF UnknownTools
    <3>2. PICK k \in DOMAIN steps : steps[k].tool \notin Available
      BY <2>1, <3>1
    <3>3. Error(UNKNOWN_TOOL, {steps[k].id}, {ToolPath(steps[k].id)}, "") \in UnknownTools(steps)
      BY <3>2, Zenon DEF UnknownTools
    <3> QED BY <3>3
  <2>6. /\ OfType(After, UNKNOWN_TOOL) = UnknownTools(steps)
        /\ OfType(After, MISSING_EVIDENCE) = MissingTags(steps)
        /\ OfType(After, MISSING_OPERATION) = MissingWork(steps)
    BY ReportByCheck DEF After, steps
  <2>7. /\ OfType(errors, UNKNOWN_TOOL) = UnknownTools(old)
        /\ OfType(errors, MISSING_EVIDENCE) = MissingTags(old)
        /\ OfType(errors, MISSING_OPERATION) = MissingWork(old)
    BY ReportByCheck DEF TypeOK
  <2>8. \A x, t : t \in ErrorTypes(x) <=> OfType(x, t) # {}
    BY DEF ErrorTypes, OfType
  <2> QED BY <2>3, <2>4, <2>5, <2>6, <2>7, <2>8 DEF DeclinedErrorsStay, Reported
<1> QED BY <1>1, TypeHolds, WorkHolds, PTL

-----------------------------------------------------------------------------
(***************************************************************************)
(* The order the loop builds.  Each step was ready when its turn came, and *)
(* no earlier one that was still to come was.                              *)
(***************************************************************************)
Before(order, k) == {steps[order[m]].id : m \in 1 .. k - 1}

EmitInv ==
  pc = "emit" =>
    /\ IsInjective(emitted)
    /\ \A k \in DOMAIN emitted :
         /\ Waiting(steps, steps[emitted[k]].id) \subseteq Before(emitted, k)
         /\ \A j \in DOMAIN steps : (j < emitted[k] /\ \A m \in 1 .. k - 1 : emitted[m] # j) =>
              ~(Waiting(steps, steps[j].id) \subseteq Before(emitted, k))

LEMMA EmitOne ==
  ASSUME TypeOK, EmitInv, NEW i \in DOMAIN steps, Emit(i)
  PROVE  EmitInv'
<1> DEFINE n == Len(emitted)
           next == Append(emitted, i)
<1>1. /\ emitted \in Seq(DOMAIN steps) /\ n \in Nat /\ DOMAIN emitted = 1 .. n
      /\ DOMAIN next = 1 .. n + 1 /\ next[n + 1] = i
      /\ \A m \in 1 .. n : next[m] = emitted[m]
      /\ emitted' = next /\ steps' = steps /\ pc = "emit"
  BY DEF TypeOK, Emit, steps
<1> HIDE DEF next
<1>2. /\ \A m \in 1 .. n : emitted[m] # i
      /\ Waiting(steps, steps[i].id) \subseteq Before(emitted, n + 1)
      /\ \A j \in DOMAIN steps : (j < i /\ \A m \in 1 .. n : emitted[m] # j) =>
           ~(Waiting(steps, steps[j].id) \subseteq Before(emitted, n + 1))
  BY <1>1 DEF Emit, Remaining, Ready, Settled, Before
<1>3. \A k \in 1 .. n + 1 : Before(next, k) = Before(emitted, k)
  <2> SUFFICES ASSUME NEW k \in 1 .. n + 1 PROVE Before(next, k) = Before(emitted, k)
    OBVIOUS
  <2>1. \A m \in 1 .. k - 1 : m \in 1 .. n
    BY <1>1
  <2>2. \A m \in 1 .. k - 1 : steps[next[m]].id = steps[emitted[m]].id
    BY <1>1, <2>1
  <2> QED BY <2>2, Zenon DEF Before
<1>4. IsInjective(next)
  BY <1>1, <1>2 DEF IsInjective, EmitInv
<1>5. ASSUME NEW k \in 1 .. n + 1
      PROVE  /\ Waiting(steps, steps[next[k]].id) \subseteq Before(next, k)
             /\ \A j \in DOMAIN steps : (j < next[k] /\ \A m \in 1 .. k - 1 : next[m] # j) =>
                  ~(Waiting(steps, steps[j].id) \subseteq Before(next, k))
  <2>1. CASE k = n + 1
    <3>1. n + 1 - 1 = n
      BY <1>1
    <3> QED BY <1>1, <1>2, <1>3, <2>1, <3>1
  <2>2. CASE k \in 1 .. n
    <3>1. \A m \in 1 .. k - 1 : m \in 1 .. n
      BY <1>1, <2>2
    <3> QED BY <1>1, <1>3, <2>2, <3>1 DEF EmitInv
  <2> QED BY <1>1, <2>1, <2>2
<1>6. \A k : Before(emitted, k)' = Before(next, k)
  BY <1>1 DEF Before
<1> QED BY <1>1, <1>4, <1>5, <1>6 DEF EmitInv

LEMMA EmitInductive == TypeOK /\ EmitInv /\ [RepairNext]_repairVars => EmitInv'
<1> SUFFICES ASSUME TypeOK, EmitInv, [RepairNext]_repairVars PROVE EmitInv'
  OBVIOUS
<1>1. ASSUME NEW i \in DOMAIN steps, Emit(i) PROVE EmitInv'
  BY <1>1, EmitOne
<1>2. CASE BeginReorder
  <2>1. emitted' = <<>>
    BY <1>2 DEF BeginReorder
  <2> QED BY <2>1 DEF EmitInv, IsInjective
<1>3. CASE UNCHANGED repairVars
  BY <1>3 DEF repairVars, EmitInv, Before, steps
<1>4. CASE DropDuplicates \/ DropUnknownDependencies \/ LeaveUnordered \/ AdoptOrder \/ FillStopCondition
  BY <1>4 DEF EmitInv, DropDuplicates, DropUnknownDependencies, LeaveUnordered, AdoptOrder, FillStopCondition
<1> QED BY <1>1, <1>2, <1>3, <1>4 DEF RepairNext

LEMMA EmitHolds == RepairSpec => []EmitInv
<1>1. RepairInit => EmitInv
  BY DEF RepairInit, Call, EmitInv
<1> QED BY <1>1, TypeHolds, EmitInductive, PTL DEF RepairSpec

\* "Keeping the original relative order wherever the dependencies allow it": no order
\* that lists every step after what it waits for comes before the one the loop
\* builds.  At the first place where the two part, the loop took the earliest step
\* that was ready, and the other had only ready ones to choose from.
THEOREM OrderIsLeast == RepairSpec => []LeastOrder
<1>1. TypeOK /\ EmitInv => LeastOrder
  <2> SUFFICES ASSUME TypeOK, EmitInv, pc = "emit", Remaining = {}
               PROVE  /\ InOrder(emitted)
                      /\ \A order \in [DOMAIN steps -> DOMAIN steps] :
                           (IsInjective(order) /\ InOrder(order) /\ order # emitted) =>
                             \E k \in DOMAIN order :
                               /\ emitted[k] < order[k]
                               /\ \A m \in 1 .. k - 1 : emitted[m] = order[m]
    BY DEF LeastOrder
  <2>1. /\ emitted \in Seq(DOMAIN steps) /\ IsInjective(emitted)
        /\ DOMAIN steps = 1 .. Len(steps) /\ Len(steps) \in Nat
    BY StepDomain DEF TypeOK, EmitInv, steps
  <2>2. InOrder(emitted)
    BY DEF EmitInv, InOrder, Before
  <2>3. DOMAIN emitted = DOMAIN steps
    <3> DEFINE D == DOMAIN emitted
               T == DOMAIN steps
    <3>1. D = 1 .. Len(emitted) /\ Len(emitted) \in Nat /\ emitted \in [D -> T]
      BY <2>1
    <3>2. \A i \in T : \E k \in D : emitted[k] = i
      BY DEF Remaining
    <3>3. emitted \in Bijection(D, T)
      BY <2>1, <3>1, <3>2 DEF Bijection, Injection, Surjection
    <3>4. Cardinality(D) = Len(emitted) /\ IsFiniteSet(D) /\ Cardinality(T) = Len(steps)
      BY <2>1, <3>1, SpanOf
    <3>5. Cardinality(D) = Cardinality(T)
      <4> HIDE DEF D, T
      <4> QED BY <3>3, <3>4, FS_Bijection DEF ExistsBijection
    <3> QED BY <2>1, <3>1, <3>4, <3>5
  <2>4. ASSUME NEW order \in [DOMAIN steps -> DOMAIN steps],
               IsInjective(order), InOrder(order), order # emitted
        PROVE  \E k \in DOMAIN order : /\ emitted[k] < order[k]
                                       /\ \A m \in 1 .. k - 1 : emitted[m] = order[m]
    <3> DEFINE apart == {k \in DOMAIN steps : emitted[k] # order[k]}
    <3>1. apart # {}
      BY <2>1, <2>3, <2>4
    <3>2. PICK k \in apart : \A m \in apart : k <= m
      BY <2>1, <3>1, IndicesAreFinite, LeastOf
    <3>3. ASSUME NEW m \in 1 .. k - 1 PROVE m \in DOMAIN steps /\ m # k /\ emitted[m] = order[m]
      <4>1. k \in 1 .. Len(steps) /\ m \in DOMAIN steps /\ m \in Int /\ k \in Int /\ m < k
        BY <2>1, <3>2
      <4>2. ~(k <= m) /\ m # k
        BY <4>1
      <4> QED BY <3>2, <4>1, <4>2
    <3>4. emitted[k] \in Int /\ order[k] \in DOMAIN steps /\ order[k] \in Int /\ emitted[k] # order[k]
      BY <2>1, <2>3, <3>2
    <3>5. Before(order, k) = Before(emitted, k)
      BY <3>3, Zenon DEF Before
    <3>6. Waiting(steps, steps[order[k]].id) \subseteq Before(order, k)
      BY <2>4 DEF InOrder, Before
    <3>7. \A m \in 1 .. k - 1 : emitted[m] # order[k]
      BY <2>4, <3>3 DEF IsInjective
    <3>8. ~(order[k] < emitted[k])
      BY <2>3, <3>4, <3>5, <3>6, <3>7 DEF EmitInv
    <3> QED BY <3>2, <3>3, <3>4, <3>8
  <2> QED BY <2>2, <2>4
<1> QED BY <1>1, TypeHolds, EmitHolds, PTL

LEMMA DoomedAreCopies ==
  ASSUME NEW p \in AgentPlan, ClashesAreCopies(p.steps), NEW i \in DOMAIN p.steps
  PROVE  i \in Doomed(p.steps, Errors(p)) <=> ~Leading(p.steps, i)
<1> DEFINE ss == p.steps
           errs == Errors(p)
           first(members) == CHOOSE x \in members : \A y \in members : x <= y
<1>1. DOMAIN ss = 1 .. Len(ss) /\ Len(ss) \in Nat
  BY StepDomain
<1>2. ASSUME NEW e, Members(ss, e) # {}
      PROVE  first(Members(ss, e)) \in Members(ss, e) /\ \A y \in Members(ss, e) : first(Members(ss, e)) <= y
  <2> DEFINE M == Members(ss, e)
  <2>1. M \in SUBSET (1 .. Len(ss)) /\ M # {}
    BY <1>1, <1>2 DEF Members
  <2> HIDE DEF M
  <2>2. M \in SUBSET Int /\ IsFiniteSet(M)
    BY <1>1, <2>1, IndicesAreFinite
  <2>3. \E x \in M : \A y \in M : x <= y
    BY <2>1, <2>2, LeastOf
  <2>4. first(M) \in M /\ \A y \in M : first(M) <= y
    BY <2>3
  <2> QED BY <2>4 DEF M
<1>3. ASSUME i \in Doomed(ss, errs) PROVE ~Leading(ss, i)
  <2>1. PICK e : /\ Members(ss, e) # {}
                 /\ i \in Members(ss, e) \ {first(Members(ss, e))}
                 /\ Body(ss[i]) = Body(ss[first(Members(ss, e))])
    BY <1>3 DEF Doomed
  <2> DEFINE f == first(Members(ss, e))
  <2>2. f \in Members(ss, e) /\ f <= i /\ f # i /\ Body(ss[f]) = Body(ss[i])
    BY <1>2, <2>1
  <2> HIDE DEF f
  <2>3. f \in DOMAIN ss /\ f < i
    BY <1>1, <2>2 DEF Members
  <2> QED BY <2>2, <2>3 DEF Leading
<1>4. ASSUME ~Leading(ss, i) PROVE i \in Doomed(ss, errs)
  <2>1. PICK j \in DOMAIN ss : j < i /\ Body(ss[j]) = Body(ss[i])
    BY <1>4 DEF Leading
  <2> DEFINE ids == SameWork(ss, i)
             paths == {StepPath(id) : id \in SameWork(ss, i)}
             e == Error(DUPLICATE_STEP, ids, paths, "identical_content")
             M == Members(ss, e)
  <2>2. \E k \in DOMAIN ss \ {i} : Body(ss[k]) = Body(ss[i])
    BY <1>1, <2>1
  <2>3. e \in DuplicateErrors(ss)
    BY <2>2, Zenon DEF DuplicateErrors
  <2>4. e.step_ids = ids /\ e.kind = "identical_content"
    BY DEF Error
  <2> HIDE DEF e
  <2>5. e \in OfType(errs, DUPLICATE_STEP)
    BY <2>3, ReportByCheck
  <2>6. i \in M /\ j \in M
    BY <2>1, <2>4 DEF Members, SameWork
  <2>7. \A x \in M : Body(ss[x]) = Body(ss[i])
    BY <2>4 DEF Members, SameWork, ClashesAreCopies
  <2>8. first(M) \in M /\ first(M) <= j
    BY <1>2, <2>6
  <2>9. i # first(M) /\ Body(ss[i]) = Body(ss[first(M)])
    <3>1. first(M) \in DOMAIN ss
      BY <2>8 DEF Members
    <3> HIDE DEF M, first
    <3> QED BY <1>1, <2>1, <2>7, <2>8, <3>1
  <2>10. e \in {x \in OfType(errs, DUPLICATE_STEP) : x.kind = "identical_content" /\ Members(ss, x) # {}}
    BY <2>4, <2>5, <2>6
  <2> DEFINE copies(x) == {k \in Members(ss, x) \ {first(Members(ss, x))} :
                             Body(ss[k]) = Body(ss[first(Members(ss, x))])}
             groups == {x \in OfType(errs, DUPLICATE_STEP) :
                          x.kind = "identical_content" /\ Members(ss, x) # {}}
  <2>11. i \in copies(e)
    BY <2>6, <2>9
  <2>12. Doomed(ss, errs) = UNION {copies(x) : x \in groups}
    BY DEF Doomed
  <2> HIDE DEF copies, groups
  <2>13. e \in groups
    BY <2>10 DEF groups
  <2> QED BY <2>11, <2>12, <2>13
<1> QED BY <1>3, <1>4

(***************************************************************************)
(* Which steps the rules leave as they are.  Where a name is shared only   *)
(* by copies of a step, the duplicate rule keeps exactly the first of      *)
(* those that do the same work, and the dependency rule rewrites no step   *)
(* whose references are all known.                                         *)
(***************************************************************************)
\* What the rules make of the plan, up to the order: the first step of each kind of
\* work, under its name, and untouched where everything it consumes is there.
Kept(ss, tt) ==
  /\ UniqueIds(tt)
  /\ \A m \in DOMAIN tt : \E i \in DOMAIN ss :
       Leading(ss, i) /\ tt[m].id = ss[i].id /\ (MissingDeps(ss, i) = {} => tt[m] = ss[i])
  /\ \A i \in DOMAIN ss : Leading(ss, i) =>
       \E m \in DOMAIN tt : tt[m].id = ss[i].id /\ (MissingDeps(ss, i) = {} => tt[m] = ss[i])

LEMMA FirstsRemain ==
  ASSUME TypeOK, DropDuplicates, ClashesAreCopies(steps)
  PROVE  Kept(steps, steps')
<1> DEFINE K == DOMAIN steps \ Doomed(steps, errors)
<1>1. /\ steps \in Seq(Step) /\ DOMAIN steps = 1 .. Len(steps) /\ Len(steps) \in Nat
      /\ errors = Errors(plan) /\ plan \in AgentPlan
  BY StepDomain DEF TypeOK, steps, DropDuplicates
<1>2. \A i \in DOMAIN steps : i \in K <=> Leading(steps, i)
  BY <1>1, DoomedAreCopies DEF steps
<1>3. ASSUME NEW i \in DOMAIN steps, NEW j \in DOMAIN steps, Leading(steps, i), Leading(steps, j),
             steps[i].id = steps[j].id
      PROVE  i = j
  <2>1. Body(steps[i]) = Body(steps[j])
    BY <1>3 DEF ClashesAreCopies
  <2> QED BY <1>1, <1>3, <2>1 DEF Leading
<1>4. CASE DUPLICATE_STEP \notin Reported
  <2>1. steps' = steps
    BY <1>4 DEF DropDuplicates, steps
  <2>2. Doomed(steps, errors) = {}
    BY <1>4 DEF Doomed, OfType, Reported, ErrorTypes
  <2>3. \A i \in DOMAIN steps : Leading(steps, i)
    BY <1>2, <2>2
  <2> QED BY <1>3, <2>1, <2>3 DEF Kept, UniqueIds
<1>5. CASE DUPLICATE_STEP \in Reported
  <2> DEFINE s == Sublist(steps, K)
  <2>1. plan' = [plan EXCEPT !.steps = s]
    BY <1>5 DEF DropDuplicates, steps
  <2>2. K \in SUBSET DOMAIN steps
    OBVIOUS
  <2> HIDE DEF K
  <2>3. /\ s \in Seq(Step) /\ DOMAIN s = 1 .. Cardinality(K)
        /\ \A k \in DOMAIN s : Nth(K, k) \in K /\ s[k] = steps[Nth(K, k)]
        /\ \A i \in K : Rank(K, i) \in DOMAIN s /\ s[Rank(K, i)] = steps[i]
    BY <1>1, <2>2, SublistOf
  <2> HIDE DEF s
  <2>4. steps' = s
    BY <1>1, <2>1, <2>3, StepsReplaced DEF steps
  <2>5. UniqueIds(s)
    <3> SUFFICES ASSUME NEW k \in DOMAIN s, NEW m \in DOMAIN s, s[k].id = s[m].id
                 PROVE  k = m
      BY DEF UniqueIds
    <3>1. Nth(K, k) = Nth(K, m)
      BY <1>2, <1>3, <2>2, <2>3
    <3>2. K \in SUBSET Int /\ IsFiniteSet(K)
      BY <1>1, <2>2, IndicesAreFinite
    <3>3. ~(k < m) /\ ~(m < k)
      <4>1. \A x, y \in 1 .. Cardinality(K) : x < y => Nth(K, x) < Nth(K, y)
        BY <3>2, NthIncreases
      <4>2. Nth(K, k) \in Int /\ Nth(K, m) \in Int
        BY <2>3, <3>2
      <4> QED BY <2>3, <3>1, <4>1, <4>2
    <3> QED BY <2>3, <3>3
  <2>6. \A m \in DOMAIN s : Nth(K, m) \in DOMAIN steps /\ Leading(steps, Nth(K, m)) /\ s[m] = steps[Nth(K, m)]
    BY <1>2, <2>2, <2>3
  <2>7. \A i \in DOMAIN steps : Leading(steps, i) => \E m \in DOMAIN s : s[m] = steps[i]
    BY <1>2, <2>3
  <2> QED BY <2>4, <2>5, <2>6, <2>7 DEF Kept
<1> QED BY <1>4, <1>5

KeptInv == (ClashesAreCopies(broken_plan.steps) /\ pc # "duplicates") => Kept(broken_plan.steps, steps)

LEMMA KeptInductive == TypeOK /\ EmitInv /\ KeptInv /\ [RepairNext]_repairVars => KeptInv'
<1> SUFFICES ASSUME TypeOK, EmitInv, KeptInv, [RepairNext]_repairVars,
                    ClashesAreCopies(broken_plan.steps)'
             PROVE  KeptInv'
  BY DEF KeptInv
<1> DEFINE old == broken_plan.steps
<1>1. broken_plan' = broken_plan /\ errors' = errors
  BY StepKeepsWork
<1>2. ClashesAreCopies(old)
  BY <1>1
<1>3. CASE DropDuplicates
  <2>1. steps = old
    BY <1>3 DEF TypeOK, DropDuplicates, steps
  <2> QED BY <1>1, <1>2, <1>3, <2>1, FirstsRemain DEF KeptInv
<1>4. ASSUME steps' = steps, pc # "duplicates"
      PROVE  KeptInv'
  BY <1>1, <1>2, <1>4 DEF KeptInv
<1>5. CASE DropUnknownDependencies
  <2> DEFINE targets == DetectedStepIds(OfType(errors, UNKNOWN_DEPENDENCY))
  <2>1. Kept(old, steps)
    BY <1>2, <1>5 DEF KeptInv, DropUnknownDependencies
  <2>2. /\ DOMAIN steps' = DOMAIN steps
        /\ \A m \in DOMAIN steps : /\ steps'[m].id = steps[m].id
                                   /\ steps[m].id \notin targets => steps'[m] = steps[m]
    BY <1>5, ReferencesDropped
  <2>3. ASSUME NEW i \in DOMAIN old, MissingDeps(old, i) = {} PROVE old[i].id \notin targets
    <3>1. OfType(errors, UNKNOWN_DEPENDENCY) = UnknownDependencies(old)
      BY ReportByCheck DEF TypeOK
    <3>2. ASSUME old[i].id \in targets PROVE FALSE
      <4>1. PICK e \in UnknownDependencies(old) : old[i].id \in e.step_ids
        BY <3>1, <3>2 DEF DetectedStepIds
      <4>2. PICK j \in DOMAIN old : /\ MissingDeps(old, j) # {}
                                    /\ e = Error(UNKNOWN_DEPENDENCY, {old[j].id}, {InputFromPath(old[j].id)}, "")
        BY <4>1, Zenon DEF UnknownDependencies
      <4>3. old[i].id = old[j].id
        BY <4>1, <4>2 DEF Error
      <4>4. old[i].input_from = old[j].input_from
        BY <1>2, <4>3 DEF ClashesAreCopies, Body
      <4> QED BY <2>3, <4>2, <4>4 DEF MissingDeps
    <3> QED BY <3>2
  <2> HIDE DEF targets
  <2>4. UniqueIds(steps')
    BY <2>1, <2>2 DEF Kept, UniqueIds
  <2>5. \A m \in DOMAIN steps : \A i \in DOMAIN old :
          (steps[m].id = old[i].id /\ (MissingDeps(old, i) = {} => steps[m] = old[i]))
            => steps'[m].id = old[i].id /\ (MissingDeps(old, i) = {} => steps'[m] = old[i])
    BY <2>2, <2>3
  <2>6. Kept(old, steps')
    BY <2>1, <2>2, <2>4, <2>5 DEF Kept
  <2> QED BY <1>1, <2>6 DEF KeptInv
<1>6. CASE AdoptOrder
  <2>1. Kept(old, steps)
    BY <1>2, <1>6 DEF KeptInv, AdoptOrder
  <2>2. /\ DOMAIN steps' = DOMAIN emitted
        /\ \A k \in DOMAIN emitted : emitted[k] \in DOMAIN steps /\ steps'[k] = steps[emitted[k]]
        /\ \A i \in DOMAIN steps : \E k \in DOMAIN emitted : emitted[k] = i
    BY <1>6, OrderAdopted
  <2>3. \A k, m \in DOMAIN emitted : emitted[k] = emitted[m] => k = m
    BY <1>6 DEF EmitInv, AdoptOrder, IsInjective
  <2>4. UniqueIds(steps')
    BY <2>1, <2>2, <2>3 DEF Kept, UniqueIds
  <2>5. Kept(old, steps')
    BY <2>1, <2>2, <2>4 DEF Kept
  <2> QED BY <1>1, <2>5 DEF KeptInv
<1>7. CASE BeginReorder \/ LeaveUnordered \/ \E i \in DOMAIN steps : Emit(i)
  BY <1>4, <1>7 DEF BeginReorder, LeaveUnordered, Emit, steps
<1>8. CASE FillStopCondition
  BY <1>4, <1>8, StopFilled DEF FillStopCondition
<1>9. CASE UNCHANGED repairVars
  <2>1. steps' = steps /\ pc' = pc
    BY <1>9 DEF repairVars, steps
  <2> QED BY <1>1, <1>2, <2>1 DEF KeptInv
<1> QED BY <1>3, <1>5, <1>6, <1>7, <1>8, <1>9 DEF RepairNext

(***************************************************************************)
(* Restoring the order.  Up to the reordering the plan is the broken one   *)
(* with steps and references taken away, so it has no order fault and no   *)
(* cycle the broken one had not.                                           *)
(***************************************************************************)
OrderInv ==
  ClashesAreCopies(broken_plan.steps) =>
    /\ \A k \in DOMAIN steps : \E i \in DOMAIN broken_plan.steps :
         /\ steps[k].id = broken_plan.steps[i].id
         /\ steps[k].input_from \subseteq broken_plan.steps[i].input_from
    /\ pc \in {"dependencies", "reorder"} =>
         \A k, m \in DOMAIN steps : k < m => \E i, j \in DOMAIN broken_plan.steps :
           /\ i < j
           /\ steps[k].id = broken_plan.steps[i].id
           /\ steps[k].input_from \subseteq broken_plan.steps[i].input_from
           /\ steps[m].id = broken_plan.steps[j].id
    /\ (pc \in {"stop", "done"} /\ DEP_CYCLE \notin Reported) => Ordered(steps)

\* What a name consumes is read off any step that wears it, copies being alike.
LEMMA EdgesOfCopies ==
  ASSUME NEW ss \in Seq(Step), ClashesAreCopies(ss)
  PROVE  /\ Edges(ss) \in [KnownIds(ss) -> SUBSET KnownIds(ss)]
         /\ \A i \in DOMAIN ss : Edges(ss)[ss[i].id] = ss[i].input_from \cap KnownIds(ss)
<1> DEFINE X == KnownIds(ss)
<1>1. Edges(ss) \in [X -> SUBSET X]
  BY DEF Edges
<1>2. ASSUME NEW i \in DOMAIN ss
      PROVE  Edges(ss)[ss[i].id] = ss[i].input_from \cap X
  <2> DEFINE K == At(ss, ss[i].id)
  <2>1. DOMAIN ss = 1 .. Len(ss) /\ Len(ss) \in Nat
    OBVIOUS
  <2>2. K \in SUBSET (1 .. Len(ss)) /\ K # {}
    BY <2>1 DEF At
  <2> HIDE DEF K
  <2>3. K \in SUBSET Int /\ IsFiniteSet(K)
    BY <2>1, <2>2, IndicesAreFinite
  <2>4. \E x \in K : \A y \in K : y <= x
    BY <2>2, <2>3, GreatestOf
  <2>5. LastAt(ss, ss[i].id) \in K
    BY <2>4 DEF LastAt, K
  <2>6. Body(ss[LastAt(ss, ss[i].id)]) = Body(ss[i])
    BY <2>5 DEF K, At, ClashesAreCopies
  <2> QED BY <2>6 DEF Edges, Body, KnownIds
<1> QED BY <1>1, <1>2

\* With no clash but between copies and no cycle, some remaining step is always ready.
LEMMA SomeStepIsReady ==
  ASSUME TypeOK, KeptInv, OrderInv, ClashesAreCopies(broken_plan.steps), DEP_CYCLE \notin Reported,
         LeaveUnordered
  PROVE  FALSE
<1> DEFINE old == broken_plan.steps
           X == KnownIds(old)
           edges == Edges(old)
           S == {steps[i].id : i \in Remaining}
<1>1. /\ old \in Seq(Step) /\ steps \in Seq(Step) /\ UniqueIds(steps)
      /\ Remaining \subseteq DOMAIN steps /\ Remaining # {}
  BY StepDomain DEF TypeOK, KeptInv, Kept, steps, LeaveUnordered, Remaining
<1>2. edges \in [X -> SUBSET X] /\ \A i \in DOMAIN old : edges[old[i].id] = old[i].input_from \cap X
  BY <1>1, EdgesOfCopies
<1>3. S \in SUBSET X /\ S # {}
  BY <1>1 DEF OrderInv, KnownIds
<1>4. ASSUME NEW x \in S PROVE \E d \in S : d \in edges[x]
  <2>1. PICK i \in Remaining : x = steps[i].id
    BY <1>4
  <2>2. i \in DOMAIN steps /\ ~Ready(i)
    BY <1>1, <2>1 DEF LeaveUnordered
  <2>3. Waiting(steps, x) = (steps[i].input_from \cap KnownIds(steps)) \ {x}
    BY <1>1, <2>1, <2>2, LastOfUnique DEF Waiting
  <2>4. PICK d \in Waiting(steps, x) : d \notin Settled
    BY <2>1, <2>2 DEF Ready
  <2>5. d \in steps[i].input_from /\ d \in KnownIds(steps)
    BY <2>3, <2>4
  <2>6. PICK j \in DOMAIN steps : d = steps[j].id
    BY <2>5 DEF KnownIds
  <2>7. j \in Remaining
    BY <2>4, <2>6 DEF Remaining, Settled
  <2>8. PICK k \in DOMAIN old : steps[i].id = old[k].id /\ steps[i].input_from \subseteq old[k].input_from
    BY <2>2 DEF OrderInv
  <2> QED BY <1>2, <1>3, <2>1, <2>5, <2>6, <2>7, <2>8
<1>5. IsFiniteSet(X)
  BY <1>1, NamesAreFinite
<1>6. \E x \in S : x \in Upstream(edges, x)
  <2> HIDE DEF X, edges, S
  <2> QED BY <1>2, <1>3, <1>4, <1>5, NoWayOut
<1>7. CycleErrors(old) = {}
  BY ReportByCheck DEF TypeOK, Reported
<1> QED BY <1>3, <1>6, <1>7, AcyclicNames

\* The adopted order lists nothing before what it consumes.
LEMMA AdoptedIsOrdered ==
  ASSUME TypeOK, EmitInv, UniqueIds(steps), AdoptOrder
  PROVE  Ordered(steps')
<1>1. /\ DOMAIN steps' = DOMAIN emitted /\ emitted \in Seq(DOMAIN steps)
      /\ \A k \in DOMAIN emitted : emitted[k] \in DOMAIN steps /\ steps'[k] = steps[emitted[k]]
  BY OrderAdopted DEF TypeOK, AdoptOrder
<1>2. /\ steps \in Seq(Step) /\ UniqueIds(steps) /\ IsInjective(emitted)
      /\ \A k \in DOMAIN emitted : Waiting(steps, steps[emitted[k]].id) \subseteq Before(emitted, k)
  BY StepDomain DEF TypeOK, EmitInv, AdoptOrder, steps
<1>3. UniqueIds(steps')
  BY <1>1, <1>2 DEF UniqueIds, IsInjective
<1>4. ASSUME NEW k \in DOMAIN emitted, NEW m \in DOMAIN emitted, m > k,
             steps'[m].id \in steps'[k].input_from
      PROVE  FALSE
  <2> DEFINE d == steps[emitted[m]].id
  <2>1. d \in steps[emitted[k]].input_from /\ d \in KnownIds(steps) /\ d # steps[emitted[k]].id
    BY <1>1, <1>2, <1>4 DEF KnownIds, UniqueIds, IsInjective
  <2>2. LastAt(steps, steps[emitted[k]].id) = emitted[k]
    BY <1>1, <1>2, LastOfUnique
  <2>3. d \in Waiting(steps, steps[emitted[k]].id)
    BY <2>1, <2>2 DEF Waiting
  <2>4. PICK l \in 1 .. k - 1 : d = steps[emitted[l]].id
    BY <1>2, <2>3 DEF Before
  <2>5. l \in DOMAIN emitted /\ l # m
    BY <1>1, <1>4
  <2> QED BY <1>1, <1>2, <2>4, <2>5 DEF UniqueIds, IsInjective
<1> QED BY <1>1, <1>4 DEF Ordered

LEMMA OrderInductive == TypeOK /\ EmitInv /\ KeptInv /\ OrderInv /\ [RepairNext]_repairVars => OrderInv'
<1> SUFFICES ASSUME TypeOK, EmitInv, KeptInv, OrderInv, [RepairNext]_repairVars,
                    ClashesAreCopies(broken_plan.steps)'
             PROVE  OrderInv'
  BY DEF OrderInv
<1> DEFINE old == broken_plan.steps
<1>1. broken_plan' = broken_plan /\ errors' = errors /\ ClashesAreCopies(old)
  BY StepKeepsWork
<1>2. CASE DropDuplicates
  <2>1. plan = broken_plan /\ steps = old /\ pc' = "dependencies"
    BY <1>2 DEF TypeOK, DropDuplicates, steps
  <2>2. /\ \A k \in DOMAIN steps' : \E i \in DOMAIN steps : steps'[k] = steps[i]
        /\ \A k, m \in DOMAIN steps' : k < m =>
             \E i, j \in DOMAIN steps : i < j /\ steps'[k] = steps[i] /\ steps'[m] = steps[j]
    BY <1>1, <1>2, <2>1, CopiesDropped
  <2> QED BY <1>1, <2>1, <2>2 DEF OrderInv
<1>3. CASE DropUnknownDependencies
  <2>1. /\ DOMAIN steps' = DOMAIN steps /\ pc = "dependencies" /\ pc' = "reorder"
        /\ \A i \in DOMAIN steps : /\ steps'[i].id = steps[i].id
                                   /\ steps'[i].input_from \subseteq steps[i].input_from
    BY <1>3, ReferencesDropped DEF DropUnknownDependencies
  <2>2. \A k \in DOMAIN steps' : \E i \in DOMAIN old :
          steps'[k].id = old[i].id /\ steps'[k].input_from \subseteq old[i].input_from
    <3> TAKE k \in DOMAIN steps'
    <3>1. PICK i \in DOMAIN old : steps[k].id = old[i].id /\ steps[k].input_from \subseteq old[i].input_from
      BY <1>1, <2>1 DEF OrderInv
    <3> QED BY <2>1, <3>1
  <2>3. ASSUME NEW k \in DOMAIN steps', NEW m \in DOMAIN steps', k < m
        PROVE  \E i, j \in DOMAIN old :
                 /\ i < j /\ steps'[k].id = old[i].id /\ steps'[m].id = old[j].id
                 /\ steps'[k].input_from \subseteq old[i].input_from
    <3>1. PICK i \in DOMAIN old, j \in DOMAIN old :
            /\ i < j /\ steps[k].id = old[i].id /\ steps[m].id = old[j].id
            /\ steps[k].input_from \subseteq old[i].input_from
      BY <1>1, <2>1, <2>3 DEF OrderInv
    <3> QED BY <2>1, <3>1
  <2> QED BY <1>1, <2>1, <2>2, <2>3 DEF OrderInv
<1>4. CASE BeginReorder
  <2>1. /\ steps' = steps /\ pc = "reorder"
        /\ pc' = IF ORDERING \in Reported /\ DEP_CYCLE \notin Reported THEN "emit" ELSE "stop"
    BY <1>4 DEF BeginReorder, steps
  <2>2. ASSUME pc' = "stop", DEP_CYCLE \notin Reported PROVE Ordered(steps)
    <3>1. Ordered(old)
      <4>1. ORDERING \notin ErrorTypes(Errors(broken_plan)) /\ DEP_CYCLE \notin ErrorTypes(Errors(broken_plan))
        BY <2>1, <2>2 DEF Reported, TypeOK
      <4>2. OrderingErrors(old) = {}
        BY <4>1, ReportByCheck
      <4> QED BY <4>2, OrderedIsUnreported
    <3>2. DOMAIN steps = 1 .. Len(steps) /\ Len(steps) \in Nat /\ DOMAIN old = 1 .. Len(old) /\ Len(old) \in Nat
      BY StepDomain DEF TypeOK, steps
    <3>3. ASSUME NEW k \in DOMAIN steps, NEW m \in DOMAIN steps, m > k, steps[m].id \in steps[k].input_from
          PROVE  FALSE
      <4>1. PICK i \in DOMAIN old, j \in DOMAIN old :
              /\ i < j /\ steps[k].id = old[i].id /\ steps[m].id = old[j].id
              /\ steps[k].input_from \subseteq old[i].input_from
        BY <1>1, <2>1, <3>2, <3>3 DEF OrderInv
      <4> QED BY <3>1, <3>2, <3>3, <4>1 DEF Ordered
    <3> QED BY <3>3 DEF Ordered
  <2>3. Reported' = Reported
    BY <1>1 DEF Reported
  <2> QED BY <1>1, <2>1, <2>2, <2>3 DEF OrderInv
<1>5. CASE LeaveUnordered
  <2>1. steps' = steps /\ pc' = "stop" /\ Reported' = Reported
    BY <1>1, <1>5 DEF LeaveUnordered, steps, Reported
  <2>2. DEP_CYCLE \in Reported
    BY <1>1, <1>5, SomeStepIsReady
  <2> QED BY <1>1, <2>1, <2>2 DEF OrderInv
<1>6. CASE AdoptOrder
  <2>1. /\ DOMAIN steps' = DOMAIN emitted /\ pc = "emit" /\ pc' = "stop" /\ Reported' = Reported
        /\ \A k \in DOMAIN emitted : emitted[k] \in DOMAIN steps /\ steps'[k] = steps[emitted[k]]
    BY <1>1, <1>6, OrderAdopted DEF AdoptOrder, Reported
  <2>2. \A k \in DOMAIN steps' : \E i \in DOMAIN old :
          steps'[k].id = old[i].id /\ steps'[k].input_from \subseteq old[i].input_from
    BY <1>1, <2>1 DEF OrderInv
  <2>3. UniqueIds(steps)
    BY <1>1, <2>1 DEF KeptInv, Kept
  <2>4. Ordered(steps')
    BY <1>6, <2>3, AdoptedIsOrdered
  <2> QED BY <1>1, <2>1, <2>2, <2>4 DEF OrderInv
<1>7. CASE FillStopCondition
  <2>1. steps' = steps /\ pc = "stop" /\ pc' = "done" /\ Reported' = Reported
    BY <1>1, <1>7, StopFilled DEF FillStopCondition, Reported
  <2> QED BY <1>1, <2>1 DEF OrderInv
<1>8. CASE (\E i \in DOMAIN steps : Emit(i)) \/ UNCHANGED repairVars
  <2>1. steps' = steps /\ pc' = pc /\ Reported' = Reported
    BY <1>1, <1>8 DEF Emit, repairVars, steps, Reported
  <2> QED BY <1>1, <2>1 DEF OrderInv
<1> QED BY <1>2, <1>3, <1>4, <1>5, <1>6, <1>7, <1>8 DEF RepairNext

LEMMA OrderHolds == RepairSpec => [](TypeOK /\ EmitInv /\ KeptInv /\ OrderInv)
<1>1. RepairInit => KeptInv /\ OrderInv
  <2> SUFFICES ASSUME RepairInit PROVE KeptInv /\ OrderInv
    OBVIOUS
  <2>1. steps = broken_plan.steps /\ pc = "duplicates"
    BY DEF RepairInit, Call, steps
  <2> QED BY <2>1 DEF KeptInv, OrderInv
<1> QED BY <1>1, TypeHolds, EmitHolds, KeptInductive, OrderInductive, PTL DEF RepairSpec

\* Where names clash only between copies and no cycle is reported, the repaired plan
\* lists no step before what it consumes: either none was, or the loop finds a ready
\* step each time, and what a step stops waiting for is listed before it.
THEOREM OrderComesBack == RepairSpec => []OrderIsRestored
<1>1. OrderInv => OrderIsRestored
  BY OrderedIsUnreported DEF OrderInv, OrderIsRestored, Returned
<1> QED BY <1>1, OrderHolds, PTL

-----------------------------------------------------------------------------
(***************************************************************************)
(* The stop condition is written once, by the last rule.                   *)
(***************************************************************************)
StopInv ==
  plan.stop_condition =
    IF pc = "done" /\ MISSING_STOP_CONDITION \in Reported /\ steps # <<>>
    THEN "derived" ELSE broken_plan.stop_condition

LEMMA StopInductive == TypeOK /\ StopInv /\ [RepairNext]_repairVars => StopInv'
<1> SUFFICES ASSUME TypeOK, StopInv, [RepairNext]_repairVars PROVE StopInv'
  OBVIOUS
<1>1. broken_plan' = broken_plan /\ Reported' = Reported
  BY StepKeepsWork DEF Reported
<1>2. CASE FillStopCondition
  <2>1. steps' = steps /\ pc = "stop" /\ pc' = "done"
    BY <1>2, StopFilled DEF FillStopCondition
  <2>2. plan'.stop_condition = IF MISSING_STOP_CONDITION \in Reported /\ steps # <<>>
                               THEN "derived" ELSE plan.stop_condition
    BY <1>2 DEF FillStopCondition, TypeOK, AgentPlan, steps
  <2> QED BY <1>1, <2>1, <2>2 DEF StopInv
<1>3. ASSUME plan'.stop_condition = plan.stop_condition, pc # "done", pc' # "done"
      PROVE  StopInv'
  BY <1>1, <1>3 DEF StopInv
<1>4. CASE DropDuplicates
  BY <1>3, <1>4, CopiesDropped DEF DropDuplicates
<1>5. CASE DropUnknownDependencies
  BY <1>3, <1>5, ReferencesDropped DEF DropUnknownDependencies
<1>6. CASE AdoptOrder
  BY <1>3, <1>6, OrderAdopted DEF AdoptOrder
<1>7. CASE BeginReorder \/ LeaveUnordered \/ \E i \in DOMAIN steps : Emit(i)
  BY <1>3, <1>7 DEF BeginReorder, LeaveUnordered, Emit
<1>8. CASE UNCHANGED repairVars
  BY <1>1, <1>8 DEF repairVars, StopInv, steps
<1> QED BY <1>2, <1>4, <1>5, <1>6, <1>7, <1>8 DEF RepairNext

-----------------------------------------------------------------------------
(***************************************************************************)
(* Once a step reported for its references has been cleaned, it refers to  *)
(* steps of the plan: no later rule takes a name away.                     *)
(***************************************************************************)
CleanInv ==
  pc \notin {"duplicates", "dependencies"} =>
    \A k \in DOMAIN steps :
      steps[k].id \in DetectedStepIds(OfType(errors, UNKNOWN_DEPENDENCY))
        => steps[k].input_from \subseteq KnownIds(steps)

LEMMA ReferencesCleaned ==
  ASSUME TypeOK, DropUnknownDependencies, NEW i \in DOMAIN steps,
         steps[i].id \in DetectedStepIds(OfType(errors, UNKNOWN_DEPENDENCY))
  PROVE  steps'[i].input_from \subseteq KnownIds(steps)
<1> DEFINE known == KnownIds(steps)
           targets == DetectedStepIds(OfType(errors, UNKNOWN_DEPENDENCY))
           Cleaned(s) == IF s.id \in targets THEN [s EXCEPT !.input_from = @ \cap known] ELSE s
           cleaned == [j \in DOMAIN steps |-> Cleaned(steps[j])]
<1>1. UNKNOWN_DEPENDENCY \in Reported
  BY DEF Reported, ErrorTypes, OfType, DetectedStepIds
<1>2. plan' = [plan EXCEPT !.steps = cleaned]
  BY <1>1 DEF DropUnknownDependencies, steps
<1>3. steps' = cleaned
  BY <1>2 DEF TypeOK, AgentPlan, steps
<1>4. steps[i] \in Step
  BY StepDomain DEF TypeOK, steps
<1>5. cleaned[i].input_from = steps[i].input_from \cap known
  BY <1>4 DEF Step
<1> QED BY <1>3, <1>5

LEMMA CleanInductive == TypeOK /\ CleanInv /\ [RepairNext]_repairVars => CleanInv'
<1> SUFFICES ASSUME TypeOK, CleanInv, [RepairNext]_repairVars PROVE CleanInv'
  OBVIOUS
<1> DEFINE targets == DetectedStepIds(OfType(errors, UNKNOWN_DEPENDENCY))
<1>1. errors' = errors
  BY StepKeepsWork
<1>2. CASE DropDuplicates
  BY <1>2 DEF DropDuplicates, CleanInv
<1>3. CASE DropUnknownDependencies
  <2>1. DOMAIN steps' = DOMAIN steps /\ \A i \in DOMAIN steps : steps'[i].id = steps[i].id
    BY <1>3, ReferencesDropped
  <2>2. KnownIds(steps') = KnownIds(steps)
    BY <2>1 DEF KnownIds
  <2>3. \A k \in DOMAIN steps : steps[k].id \in targets => steps'[k].input_from \subseteq KnownIds(steps)
    BY <1>3, ReferencesCleaned
  <2> QED BY <1>1, <2>1, <2>2, <2>3 DEF CleanInv
<1>4. CASE AdoptOrder
  <2>1. /\ DOMAIN steps' = DOMAIN emitted /\ pc = "emit"
        /\ \A k \in DOMAIN emitted : emitted[k] \in DOMAIN steps /\ steps'[k] = steps[emitted[k]]
        /\ \A i \in DOMAIN steps : \E k \in DOMAIN emitted : emitted[k] = i
    BY <1>4, OrderAdopted DEF AdoptOrder
  <2>2. \A i \in DOMAIN steps : \E k \in DOMAIN steps' : steps'[k] = steps[i]
    BY <2>1
  <2>3. KnownIds(steps) \subseteq KnownIds(steps')
    BY <2>2 DEF KnownIds
  <2>4. \A k \in DOMAIN steps : steps[k].id \in targets => steps[k].input_from \subseteq KnownIds(steps)
    BY <2>1 DEF CleanInv
  <2> QED BY <1>1, <2>1, <2>3, <2>4 DEF CleanInv
<1>5. ASSUME steps' = steps, pc' \notin {"duplicates", "dependencies"} => pc \notin {"duplicates", "dependencies"}
      PROVE  CleanInv'
  BY <1>1, <1>5 DEF CleanInv
<1>6. CASE FillStopCondition
  BY <1>5, <1>6, StopFilled DEF FillStopCondition
<1>7. CASE BeginReorder \/ LeaveUnordered \/ (\E i \in DOMAIN steps : Emit(i)) \/ UNCHANGED repairVars
  BY <1>5, <1>7 DEF BeginReorder, LeaveUnordered, Emit, repairVars, steps
<1> QED BY <1>2, <1>3, <1>4, <1>6, <1>7 DEF RepairNext

LEMMA GroundInit == HarnessInit => GroundInv
<1> SUFFICES ASSUME NEW p \in AgentPlan, Valid(p), Measure(p)
             PROVE  GroundInv
  BY DEF HarnessInit
<1>1. reference = p /\ broken = p /\ injected = <<>>
  BY DEF Measure, Intact
<1>2. Sound(p.steps)
  BY ValidIsSound
<1>3. \A k \in DOMAIN p.steps : At(p.steps, p.steps[k].id) = {k} /\ p.steps[k].input_from \subseteq Known(p)
  BY <1>2 DEF Sound, UniqueIds, At, Known
<1>4. IsList(injected)
  BY <1>1 DEF IsList
<1> QED BY <1>1, <1>2, <1>3, <1>4 DEF GroundInv

LEMMA GroundInductive == GroundInv /\ [HarnessNext]_harnessVars => GroundInv'
<1> SUFFICES ASSUME GroundInv, [HarnessNext]_harnessVars PROVE GroundInv'
  OBVIOUS
<1>1. CASE Corrupt
  <2>1. PICK c \in Corruptions(broken) \cup AimedCorruptions(broken) : Apply(c)
    BY <1>1 DEF Corrupt, Inject, InjectAlone
  <2>2. ByOneCall(broken, c)
    BY CorruptionCases
  <2> QED BY <2>1, <2>2, CorruptionKeepsGround
<1>2. CASE UNCHANGED injectionVars
  <2>1. reference' = reference /\ broken' = broken /\ injected' = injected
    BY <1>2 DEF injectionVars
  <2>2. Damaged' = Damaged
    BY <2>1 DEF Damaged
  <2>3. IsList(injected)'
    BY <2>1 DEF GroundInv
  <2> QED BY <2>1, <2>2, <2>3 DEF GroundInv
<1>3. CASE Submit \/ Repair \/ TakeScore \/ UNCHANGED harnessVars
  BY <1>2, <1>3 DEF Submit, Repair, TakeScore, harnessVars
<1> QED BY <1>1, <1>3 DEF HarnessNext

LEMMA GroundHolds == HarnessSpec => []GroundInv
  BY GroundInit, GroundInductive, PTL DEF HarnessSpec

\* The ground truth about any combination of corruptions is right about what it leaves
\* out: a step not named as damaged is still there under its name, alone, and does what
\* it did, even where another corruption went through the same plan.
THEOREM PreservedStaysIntact == HarnessSpec => []PreservedIsIntact
<1>1. GroundInv => PreservedIsIntact
  <2> SUFFICES ASSUME GroundInv, NEW id \in Preserved
               PROVE  id \in InScope(reference, broken, Damaged)
    BY DEF PreservedIsIntact
  <2>1. PICK k \in DOMAIN broken.steps : broken.steps[k].id = id
    BY DEF Preserved, Known, KnownIds
  <2>2. /\ id \notin Damaged /\ At(broken.steps, id) = {k} /\ id \in Known(broken)
        /\ \E i \in DOMAIN reference.steps : broken.steps[k] = reference.steps[i]
    BY <2>1 DEF Preserved, GroundInv
  <2>3. PICK i \in DOMAIN reference.steps : broken.steps[k] = reference.steps[i]
    BY <2>2
  <2>4. At(reference.steps, id) = {i}
    BY <2>1, <2>3 DEF GroundInv, Sound, UniqueIds, At
  <2>5. Bodies(reference)[id] = Bodies(broken)[id] /\ id \in Known(reference)
    <3>1. Bodies(broken)[id] = {Body(broken.steps[k])}
      BY <2>1, <2>2, BodyOfTheOnly
    <3>2. reference.steps[i].id = id
      BY <2>1, <2>3
    <3>3. id \in Known(reference) /\ Bodies(reference)[id] = {Body(reference.steps[i])}
      BY <2>4, <3>2, BodyOfTheOnly
    <3> QED BY <2>3, <3>1, <3>3
  <2>6. \A p : DOMAIN Bodies(p) = Known(p)
    BY DEF Bodies, Known
  <2> QED BY <2>2, <2>5, <2>6 DEF InScope
<1> QED BY <1>1, GroundHolds, PTL

-----------------------------------------------------------------------------
\* As long as one corruption was made, the broken plan is one call away from the
\* reference; what is handed to the repairer is the report on the broken plan.
SingleInv ==
  /\ Len(injected) = 0 => broken = reference
  /\ Len(injected) = 1 =>
       \E c \in Corruptions(reference) \cup AimedCorruptions(reference) :
         broken = c.result.broken /\ injected[1] = c.result.injected
  /\ stage # "inject" => errors = Errors(broken)

LEMMA SingleInductive == GroundInv /\ SingleInv /\ [HarnessNext]_harnessVars => SingleInv'
<1> SUFFICES ASSUME GroundInv, SingleInv, [HarnessNext]_harnessVars PROVE SingleInv'
  OBVIOUS
<1>1. CASE Corrupt
  <2>1. PICK c \in Corruptions(broken) \cup AimedCorruptions(broken) : Apply(c)
    BY <1>1 DEF Corrupt, Inject, InjectAlone
  <2>2. /\ broken' = c.result.broken /\ reference' = reference
        /\ injected' = Append(injected, c.result.injected) /\ stage' = "inject"
    BY <1>1, <2>1 DEF Apply, Corrupt
  <2>3. Len(injected) \in Nat /\ Len(injected') = Len(injected) + 1
        /\ injected'[Len(injected) + 1] = c.result.injected
    BY <2>2 DEF GroundInv, IsList
  <2>4. CASE Len(injected) = 0
    <3>1. broken = reference /\ injected'[1] = c.result.injected
      BY <2>3, <2>4 DEF SingleInv
    <3> QED BY <2>1, <2>2, <2>3, <2>4, <3>1 DEF SingleInv
  <2>5. CASE Len(injected) # 0
    <3>1. Len(injected') # 0 /\ Len(injected') # 1
      BY <2>3, <2>5
    <3> QED BY <2>2, <3>1 DEF SingleInv
  <2> QED BY <2>4, <2>5
<1>2. ASSUME UNCHANGED injectionVars, stage' # "inject" => errors' = Errors(broken)
      PROVE  SingleInv'
  <2>1. reference' = reference /\ broken' = broken /\ injected' = injected
    BY <1>2 DEF injectionVars
  <2> QED BY <1>2, <2>1 DEF SingleInv
<1>3. CASE Submit
  BY <1>2, <1>3 DEF Submit
<1>4. CASE Repair
  <2>1. errors' = errors
    BY <1>4 DEF Repair, RepairNext, DropDuplicates, DropUnknownDependencies, BeginReorder,
                LeaveUnordered, AdoptOrder, Emit, FillStopCondition
  <2> QED BY <1>2, <1>4, <2>1 DEF Repair, SingleInv
<1>5. CASE TakeScore
  BY <1>2, <1>5 DEF TakeScore, repairVars, SingleInv
<1>6. CASE UNCHANGED harnessVars
  BY <1>2, <1>6 DEF harnessVars, repairVars, SingleInv
<1> QED BY <1>1, <1>3, <1>4, <1>5, <1>6 DEF HarnessNext

LEMMA SingleHolds == HarnessSpec => [](GroundInv /\ SingleInv)
<1>1. HarnessInit => SingleInv
  BY DEF HarnessInit, Measure, Intact, SingleInv
<1> QED BY <1>1, GroundInit, GroundInductive, SingleInductive, PTL DEF HarnessSpec

LEMMA SingleDamage ==
  ASSUME GroundInv, SingleInv, Corrupted, Single
  PROVE  /\ Names(errors, Damaged, DamagedPaths)
         /\ Types \subseteq {BROKEN_DEPENDENCY, STEP_DELETION, DROP_REQUIRED_STEP} => ORDERING \notin Reported
<1>1. /\ reference \in AgentPlan /\ Sound(reference.steps) /\ Len(injected) = 1
      /\ errors = Errors(broken) /\ DOMAIN injected = {1}
  BY DEF GroundInv, SingleInv, IsList, Corrupted, Single
<1>2. PICK c \in Corruptions(reference) \cup AimedCorruptions(reference) :
        broken = c.result.broken /\ injected[1] = c.result.injected
  BY <1>1 DEF SingleInv
<1>3. ByOneCall(reference, c)
  BY CorruptionCases
<1> DEFINE e == c.result.injected
<1>4. /\ Names(errors, e.damaged_step_ids, e.damaged_paths)
      /\ e.corruption_type \in {BROKEN_DEPENDENCY, STEP_DELETION, DROP_REQUIRED_STEP} => ORDERING \notin Reported
  BY <1>1, <1>2, <1>3, CorruptionIsReported DEF Reported
<1> HIDE DEF e
<1>5. Damaged = e.damaged_step_ids /\ DamagedPaths = e.damaged_paths /\ Types = {e.corruption_type}
  BY <1>1, <1>2 DEF Damaged, DamagedPaths, Types, e
<1> QED BY <1>4, <1>5

\* Whatever the one injector did to a valid plan, the validator names every step and
\* every path the ground truth calls damaged: a repairer that reads the report is told
\* of all of it.
THEOREM DamageComesToLight == HarnessSpec => []DamageIsReported
<1>1. GroundInv /\ SingleInv => DamageIsReported
  BY SingleDamage DEF DamageIsReported, Names
<1> QED BY <1>1, SingleHolds, PTL

\* No broken dependency, closed cycle or deletion, on its own, is reported as a step
\* out of order: the corruption types stay apart in the measurements.
THEOREM OrderingIsItsOwnFault == HarnessSpec => []InjectorsCreateNoOrdering
<1>1. GroundInv /\ SingleInv => InjectorsCreateNoOrdering
  BY SingleDamage DEF InjectorsCreateNoOrdering
<1> QED BY <1>1, SingleHolds, PTL

-----------------------------------------------------------------------------
(***************************************************************************)
(* The repairer inside the loop: it works on the broken plan, in which     *)
(* clashes of names are copies, and the score is taken when it is done.    *)
(***************************************************************************)
RulesInv ==
  /\ TypeOK /\ EmitInv
  /\ Clashes(broken.steps, claimed)
  /\ injected = <<>> => claimed = {}
  /\ stage # "inject" => broken_plan = broken
  /\ (stage # "inject" /\ repairer = "deterministic") => KeptInv
  /\ stage = "scored" => pc = "done" /\ score = Score(reference, broken, plan, Damaged)

LEMMA RulesInit == HarnessInit => RulesInv
<1> SUFFICES ASSUME NEW p \in AgentPlan, Valid(p), Measure(p)
             PROVE  RulesInv
  BY DEF HarnessInit
<1>1. /\ reference = p /\ broken = p /\ injected = <<>> /\ claimed = {} /\ stage = "inject"
      /\ broken_plan = p /\ plan = p /\ errors = Errors(p) /\ pc = "duplicates"
  BY DEF Measure, Intact, Call
<1>2. Clashes(p.steps, {})
  BY ValidIsSound DEF Sound, UniqueIds, Clashes
<1>3. TypeOK /\ EmitInv
  BY <1>1 DEF TypeOK, EmitInv
<1> QED BY <1>1, <1>2, <1>3 DEF RulesInv

LEMMA CopiesClash ==
  ASSUME NEW ss, NEW taken, Clashes(ss, taken)
  PROVE  ClashesAreCopies(ss)
BY DEF Clashes, ClashesAreCopies

LEMMA RulesInductive == GroundInv /\ RulesInv /\ [HarnessNext]_harnessVars => RulesInv'
<1> SUFFICES ASSUME GroundInv, RulesInv, [HarnessNext]_harnessVars PROVE RulesInv'
  OBVIOUS
<1> USE DEF RulesInv
<1>1. ASSUME UNCHANGED repairVars PROVE TypeOK' /\ EmitInv'
  <2>1. [RepairNext]_repairVars
    BY <1>1
  <2> QED BY <2>1, TypeInductive, EmitInductive
<1>2. CASE Corrupt
  <2>1. PICK c \in Corruptions(broken) \cup AimedCorruptions(broken) :
          Apply(c) /\ c.touched \cap claimed = {}
    BY <1>2 DEF Corrupt, Inject, InjectAlone
  <2>2. ByOneCall(broken, c)
    BY CorruptionCases
  <2>3. /\ broken' = c.result.broken /\ claimed' = claimed \cup c.touched
        /\ injected' = Append(injected, c.result.injected)
        /\ stage' = "inject" /\ UNCHANGED repairVars
    BY <1>2, <2>1 DEF Apply, Corrupt
  <2>5. Clashes(c.result.broken.steps, claimed \cup c.touched)
    BY <2>1, <2>2, CorruptionClashes DEF GroundInv
  <2>6. injected' # <<>>
    <3>1. Len(injected') = Len(injected) + 1 /\ Len(injected) \in Nat
      BY <2>3 DEF GroundInv, IsList
    <3> QED BY <3>1
  <2> QED BY <1>1, <2>3, <2>5, <2>6
<1>3. ASSUME UNCHANGED injectionVars
      PROVE  /\ reference' = reference /\ broken' = broken /\ injected' = injected /\ claimed' = claimed
             /\ Damaged' = Damaged
  BY <1>3 DEF injectionVars, Damaged
<1>4. CASE Submit
  <2>1. /\ UNCHANGED injectionVars /\ stage' = "repair" /\ broken_plan' = broken /\ errors' = Errors(broken)
        /\ plan' \in {broken, reference} /\ pc' \in {"duplicates", "done"}
        /\ pc' = "duplicates" => plan' = broken
        /\ repairer' = "deterministic" => pc' = "duplicates"
    BY <1>4 DEF Submit
  <2>2. TypeOK'
    BY <2>1 DEF TypeOK, GroundInv
  <2>3. EmitInv' /\ (repairer' = "deterministic" => KeptInv')
    BY <2>1 DEF EmitInv, KeptInv
  <2> QED BY <1>3, <2>1, <2>2, <2>3
<1>5. CASE Repair
  <2>1. /\ stage = "repair" /\ stage' = stage /\ repairer' = repairer /\ score' = score
        /\ [RepairNext]_repairVars /\ UNCHANGED injectionVars
    BY <1>5 DEF Repair
  <2>2. TypeOK' /\ EmitInv'
    BY <2>1, TypeInductive, EmitInductive
  <2>3. repairer = "deterministic" => KeptInv'
    BY <2>1, KeptInductive
  <2>4. broken_plan' = broken_plan
    BY <2>1, StepKeepsWork
  <2> QED BY <1>3, <2>1, <2>2, <2>3, <2>4
<1>6. CASE TakeScore
  <2>1. /\ UNCHANGED injectionVars /\ UNCHANGED repairVars /\ repairer' = repairer
        /\ stage = "repair" /\ pc = "done" /\ score' = Score(reference, broken, plan, Damaged)
    BY <1>6 DEF TakeScore, Returned
  <2>2. pc' = pc /\ plan' = plan /\ broken_plan' = broken_plan /\ KeptInv' = KeptInv
    BY <2>1 DEF repairVars, KeptInv, steps
  <2> QED BY <1>1, <1>3, <2>1, <2>2
<1>7. CASE UNCHANGED harnessVars
  <2>1. /\ UNCHANGED injectionVars /\ UNCHANGED repairVars /\ repairer' = repairer
        /\ stage' = stage /\ score' = score
    BY <1>7 DEF harnessVars
  <2>2. pc' = pc /\ plan' = plan /\ broken_plan' = broken_plan /\ KeptInv' = KeptInv
    BY <2>1 DEF repairVars, KeptInv, steps
  <2> QED BY <1>1, <1>3, <2>1, <2>2
<1> QED BY <1>2, <1>4, <1>5, <1>6, <1>7 DEF HarnessNext

LEMMA RulesHold == HarnessSpec => [](GroundInv /\ SingleInv /\ RulesInv)
<1>1. HarnessSpec => []SingleInv
  BY SingleHolds, PTL
<1> QED BY <1>1, RulesInit, RulesInductive, GroundHolds, PTL DEF HarnessSpec

\* After one corruption that closed no cycle, a step the repairer answers for is the
\* first of those that do its work.
LEMMA ScopedLeads ==
  ASSUME GroundInv, SingleInv, stage # "inject", Single, DEP_CYCLE \notin Reported,
         NEW k \in DOMAIN broken.steps, broken.steps[k].id \notin Damaged
  PROVE  Leading(broken.steps, k)
<1>1. /\ reference \in AgentPlan /\ Sound(reference.steps) /\ Len(injected) = 1
      /\ errors = Errors(broken) /\ DOMAIN injected = {1}
  BY DEF GroundInv, SingleInv, IsList, Single
<1>2. PICK c \in Corruptions(reference) \cup AimedCorruptions(reference) :
        broken = c.result.broken /\ injected[1] = c.result.injected
  BY <1>1 DEF SingleInv
<1>3. ByOneCall(reference, c)
  BY CorruptionCases
<1>4. Damaged = c.result.injected.damaged_step_ids
  BY <1>1, <1>2 DEF Damaged
<1>5. CycleErrors(broken.steps) = {}
  BY <1>1, ReportByCheck DEF Reported
<1>6. \/ CycleErrors(c.result.broken.steps) # {}
      \/ \A m \in DOMAIN c.result.broken.steps :
           c.result.broken.steps[m].id \notin c.result.injected.damaged_step_ids
             => Leading(c.result.broken.steps, m)
  BY <1>1, <1>3, CorruptionLeads
<1> QED BY <1>2, <1>4, <1>5, <1>6

LEMMA ScoredSteps ==
  ASSUME GroundInv, SingleInv, RulesInv, stage = "scored", repairer = "deterministic",
         NEW id \in InScope(reference, broken, Damaged)
  PROVE  /\ id \in Known(plan) => Bodies(plan)[id] = Bodies(reference)[id]
         /\ \E name \in Known(plan) : Bodies(plan)[name] = Bodies(reference)[id]
         /\ (Single /\ DEP_CYCLE \notin Reported) => id \in Known(plan)
<1> DEFINE old == broken.steps
           new == plan.steps
<1>1. /\ broken \in AgentPlan /\ plan \in AgentPlan /\ DOMAIN old \in SUBSET Int
      /\ DOMAIN old = 1 .. Len(old) /\ Len(old) \in Nat
  BY StepDomain DEF GroundInv, RulesInv, TypeOK
<1>2. Kept(old, new)
  BY CopiesClash DEF RulesInv, KeptInv, steps
<1>3. PICK k \in DOMAIN old :
        /\ At(old, id) = {k} /\ old[k].id = id /\ id \notin Damaged /\ MissingDeps(old, k) = {}
        /\ Bodies(reference)[id] = {Body(old[k])}
  BY ScopedStep
<1>4. \A m \in DOMAIN new : new[m].id \in Known(plan) /\ Bodies(plan)[new[m].id] = {Body(new[m])}
  <2> SUFFICES ASSUME NEW m \in DOMAIN new
               PROVE  new[m].id \in Known(plan) /\ Bodies(plan)[new[m].id] = {Body(new[m])}
    OBVIOUS
  <2>1. At(new, new[m].id) = {m}
    BY <1>2 DEF Kept, UniqueIds, At
  <2> QED BY <2>1, BodyOfTheOnly
<1>5. ASSUME id \in Known(plan) PROVE Bodies(plan)[id] = Bodies(reference)[id]
  <2>1. PICK m \in DOMAIN new : new[m].id = id
    BY <1>5 DEF Known, KnownIds
  <2>2. PICK i \in DOMAIN old : old[i].id = id /\ (MissingDeps(old, i) = {} => new[m] = old[i])
    BY <1>2, <2>1 DEF Kept
  <2>3. i = k
    BY <1>3, <2>2 DEF At
  <2> QED BY <1>3, <1>4, <2>1, <2>2, <2>3
<1>6. \E name \in Known(plan) : Bodies(plan)[name] = Bodies(reference)[id]
  <2> DEFINE same == {j \in DOMAIN old : Body(old[j]) = Body(old[k])}
  <2>1. same # {} /\ same \in SUBSET Int /\ IsFiniteSet(same)
    BY <1>1, IndicesAreFinite
  <2>2. PICK j \in same : \A i \in same : j <= i
    BY <2>1, LeastOf
  <2>3. Leading(old, j) /\ Body(old[j]) = Body(old[k]) /\ j \in DOMAIN old
    BY <1>1, <2>2 DEF Leading
  <2>4. MissingDeps(old, j) = {}
    BY <1>3, <2>3 DEF MissingDeps, Body
  <2>5. PICK m \in DOMAIN new : new[m] = old[j]
    BY <1>2, <2>3, <2>4 DEF Kept
  <2> QED BY <1>3, <1>4, <2>3, <2>5
<1>7. ASSUME Single, DEP_CYCLE \notin Reported PROVE id \in Known(plan)
  <2>1. Leading(old, k)
    BY <1>3, <1>7, ScopedLeads
  <2>2. PICK m \in DOMAIN new : new[m].id = id
    BY <1>2, <1>3, <2>1 DEF Kept
  <2> QED BY <1>4, <2>2
<1> QED BY <1>5, <1>6, <1>7

\* The rule-based repairer neither rewrites a healthy step nor loses its work, however
\* many corruptions the plan went through; and it renames none unless corruptions meet
\* or one closes a cycle.
THEOREM RulesHarmNothing == HarnessSpec => []NoHealthyStepIsHarmed
<1>1. GroundInv /\ SingleInv /\ RulesInv => NoHealthyStepIsHarmed
  <2> SUFFICES ASSUME GroundInv, SingleInv, RulesInv, stage = "scored", repairer = "deterministic"
               PROVE  /\ score.modified = {} /\ score.removed = {}
                      /\ (Single /\ DEP_CYCLE \notin Reported) => score.renamed = {}
    BY DEF NoHealthyStepIsHarmed
  <2> DEFINE scope == InScope(reference, broken, Damaged)
             was == Bodies(reference)
             now == Bodies(plan)
             surviving == {now[id] : id \in DOMAIN now}
             gone == scope \ DOMAIN now
             renamed == {id \in gone : was[id] \in surviving}
  <2>1. score = Score(reference, broken, plan, Damaged)
    BY DEF RulesInv
  <2>2. /\ score.modified = {id \in scope \cap DOMAIN now : now[id] # was[id]}
        /\ score.renamed = renamed /\ score.removed = gone \ renamed
    BY <2>1 DEF Score
  <2>3. DOMAIN now = Known(plan)
    BY DEF Bodies, Known
  <2>4. \A id \in scope :
          /\ id \in DOMAIN now => now[id] = was[id]
          /\ was[id] \in surviving
          /\ (Single /\ DEP_CYCLE \notin Reported) => id \in DOMAIN now
    BY <2>3, ScoredSteps
  <2> HIDE DEF scope, was, now, surviving
  <2> QED BY <2>2, <2>4
<1> QED BY <1>1, RulesHold, PTL

\* Copies consume what their originals do and are consumed by nobody, so they close
\* no cycle.
LEMMA ShuffledHasNoCycle ==
  ASSUME NEW r \in AgentPlan, NEW b \in AgentPlan, Sound(r.steps), NEW taken,
         Shuffled(r.steps, b.steps, taken), ClashesAreCopies(b.steps)
  PROVE  CycleErrors(b.steps) = {}
<1> DEFINE X == KnownIds(r.steps)
           Y == KnownIds(b.steps)
           E == Edges(b.steps)
           F == Edges(r.steps)
<1>1. X \subseteq Y
  BY DEF Shuffled, KnownIds
<1>2. /\ E \in [Y -> SUBSET Y] /\ F \in [X -> SUBSET X]
      /\ \A k \in DOMAIN b.steps : E[b.steps[k].id] = b.steps[k].input_from \cap Y
      /\ \A i \in DOMAIN r.steps : F[r.steps[i].id] = r.steps[i].input_from \cap X
  <2>1. ClashesAreCopies(r.steps)
    BY DEF Sound, UniqueIds, ClashesAreCopies
  <2> QED BY <2>1, StepDomain, EdgesOfCopies
<1>3. \A i \in DOMAIN r.steps : r.steps[i].input_from \subseteq X
  BY DEF Sound
<1>4. ASSUME NEW y \in Y PROVE E[y] \subseteq X /\ (y \in X => E[y] = F[y])
  <2>1. PICK k \in DOMAIN b.steps : b.steps[k].id = y
    BY DEF KnownIds
  <2>2. PICK i \in DOMAIN r.steps :
          Body(b.steps[k]) = Body(r.steps[i]) /\ (b.steps[k].id \in X => b.steps[k] = r.steps[i])
    BY DEF Shuffled
  <2>3. b.steps[k].input_from = r.steps[i].input_from
    BY <2>2 DEF Body
  <2>4. E[y] = r.steps[i].input_from
    BY <1>1, <1>2, <1>3, <2>1, <2>3
  <2>5. y \in X => F[y] = r.steps[i].input_from
    BY <1>2, <1>3, <2>1, <2>2
  <2> QED BY <1>3, <2>4, <2>5
<1> HIDE DEF X, Y, E, F
<1>5. ASSUME NEW y \in Y, y \in Upstream(E, y) PROVE FALSE
  <2>1. Upstream(E, y) \subseteq X
    BY <1>1, <1>2, <1>4, UpstreamIsLeast
  <2>2. y \in X
    BY <1>5, <2>1
  <2> DEFINE S == Upstream(F, y)
  <2>3. S \subseteq X /\ F[y] \subseteq S /\ \A z \in S : F[z] \subseteq S
    BY <1>2, <2>2, UpstreamIsClosed
  <2> HIDE DEF S
  <2>4. S \in SUBSET Y /\ E[y] \subseteq S /\ \A z \in S : E[z] \subseteq S
    BY <1>1, <1>4, <2>2, <2>3
  <2>5. Upstream(E, y) \subseteq S
    BY <1>2, <2>4, UpstreamIsLeast
  <2>6. CycleErrors(r.steps) = {}
    BY DEF Sound
  <2>7. y \notin Upstream(F, y)
    BY <2>2, <2>6, AcyclicNames DEF F, X
  <2> QED BY <1>5, <2>5, <2>7 DEF S
<1> QED BY <1>5, NoCycleIsReported DEF Y, E

-----------------------------------------------------------------------------
(***************************************************************************)
(* A plan that lists the steps of a valid one in some order of execution   *)
(* is valid, and runs if that one does.                                    *)
(***************************************************************************)
SameSteps(ss, tt) ==
  /\ UniqueIds(tt)
  /\ \A m \in DOMAIN tt : \E i \in DOMAIN ss : tt[m] = ss[i]
  /\ \A i \in DOMAIN ss : \E m \in DOMAIN tt : tt[m] = ss[i]

LEMMA KeptIsSame ==
  ASSUME NEW r \in AgentPlan, NEW b \in AgentPlan, Sound(r.steps), NEW taken,
         Shuffled(r.steps, b.steps, taken), NEW tt, Kept(b.steps, tt)
  PROVE  SameSteps(r.steps, tt)
<1> DEFINE rr == r.steps
           bb == b.steps
<1>1. KnownIds(rr) \subseteq KnownIds(bb)
  BY DEF Shuffled, KnownIds
<1>2. ASSUME NEW i \in DOMAIN rr, NEW k \in DOMAIN bb, bb[k] = rr[i]
      PROVE  MissingDeps(bb, k) = {}
  BY <1>1, <1>2 DEF MissingDeps, Sound
<1>3. DOMAIN bb \in SUBSET Int
  BY StepDomain
<1>4. ASSUME NEW k \in DOMAIN bb, Leading(bb, k)
      PROVE  \E i \in DOMAIN rr : bb[k] = rr[i]
  <2>1. PICK i \in DOMAIN rr : Body(bb[k]) = Body(rr[i])
    BY DEF Shuffled
  <2>2. PICK m \in DOMAIN bb : bb[m] = rr[i] /\ Leading(bb, m)
    BY DEF Shuffled
  <2>3. k = m
    BY <1>3, <1>4, <2>1, <2>2 DEF Leading
  <2> QED BY <2>2, <2>3
<1>5. ASSUME NEW m \in DOMAIN tt PROVE \E i \in DOMAIN rr : tt[m] = rr[i]
  <2>1. PICK k \in DOMAIN bb : Leading(bb, k) /\ (MissingDeps(bb, k) = {} => tt[m] = bb[k])
    BY DEF Kept
  <2> QED BY <1>2, <1>4, <2>1
<1>6. ASSUME NEW i \in DOMAIN rr PROVE \E m \in DOMAIN tt : tt[m] = rr[i]
  <2>1. PICK k \in DOMAIN bb : bb[k] = rr[i] /\ Leading(bb, k)
    BY DEF Shuffled
  <2>2. PICK m \in DOMAIN tt : MissingDeps(bb, k) = {} => tt[m] = bb[k]
    BY <2>1 DEF Kept
  <2> QED BY <1>2, <2>1, <2>2
<1> QED BY <1>5, <1>6 DEF SameSteps, Kept

LEMMA SameIsAcyclic ==
  ASSUME NEW r \in AgentPlan, NEW q \in AgentPlan, Sound(r.steps), SameSteps(r.steps, q.steps)
  PROVE  CycleErrors(q.steps) = {}
<1>1. ClashesAreCopies(q.steps)
  BY DEF SameSteps, UniqueIds, ClashesAreCopies
<1>2. \A k, m \in DOMAIN q.steps : Body(q.steps[k]) = Body(q.steps[m]) => k = m
  BY DEF SameSteps, Sound, UniqueIds
<1>3. DOMAIN q.steps \in SUBSET Int
  BY StepDomain
<1>4. \A k \in DOMAIN q.steps : Leading(q.steps, k)
  BY <1>2, <1>3 DEF Leading
<1>5. Shuffled(r.steps, q.steps, {})
  BY <1>2, <1>4 DEF Shuffled, SameSteps
<1> QED BY <1>1, <1>5, ShuffledHasNoCycle

LEMMA SameLength ==
  ASSUME NEW r \in AgentPlan, NEW q \in AgentPlan, UniqueIds(r.steps), SameSteps(r.steps, q.steps)
  PROVE  Len(q.steps) = Len(r.steps)
<1> DEFINE D == DOMAIN r.steps
           G == DOMAIN q.steps
           f == [i \in D |-> CHOOSE m \in G : q.steps[m] = r.steps[i]]
<1>1. /\ D = 1 .. Len(r.steps) /\ Len(r.steps) \in Nat /\ G = 1 .. Len(q.steps) /\ Len(q.steps) \in Nat
  BY StepDomain
<1>2. \A i \in D : f[i] \in G /\ q.steps[f[i]] = r.steps[i]
  BY DEF SameSteps
<1> HIDE DEF f
<1>3. f \in [D -> G]
  BY <1>2 DEF f
<1>4. f \in Bijection(D, G)
  <2>1. \A i, j \in D : f[i] = f[j] => i = j
    BY <1>2 DEF UniqueIds
  <2>2. \A m \in G : \E i \in D : f[i] = m
    BY <1>2 DEF SameSteps, UniqueIds
  <2> HIDE DEF D, G
  <2> QED BY <1>3, <2>1, <2>2 DEF Bijection, Injection, Surjection, IsInjective
<1>5. IsFiniteSet(D) /\ Cardinality(D) = Len(r.steps) /\ Cardinality(G) = Len(q.steps)
  BY <1>1, SpanOf
<1> HIDE DEF D, G
<1>6. Cardinality(D) = Cardinality(G)
  BY <1>4, <1>5, FS_Bijection DEF ExistsBijection
<1> QED BY <1>5, <1>6

LEMMA SameIsValid ==
  ASSUME NEW r \in AgentPlan, NEW q \in AgentPlan, Valid(r), SameSteps(r.steps, q.steps),
         Ordered(q.steps), q.stop_condition \in {"stated", "derived"}
  PROVE  Valid(q)
<1> DEFINE rr == r.steps
           qq == q.steps
<1>1. Sound(rr) /\ CycleErrors(qq) = {}
  BY ValidIsSound, SameIsAcyclic
<1>2. /\ DanglingErrors(rr) = {} /\ CoverageErrors(rr) = {}
  BY DEF Valid, Errors
<1>3. KnownIds(qq) = KnownIds(rr) /\ Consumed(qq) = Consumed(rr) /\ Produced(qq) = Produced(rr)
  <2>1. (\A m \in DOMAIN qq : \E i \in DOMAIN rr : qq[m] = rr[i])
        /\ (\A i \in DOMAIN rr : \E m \in DOMAIN qq : qq[m] = rr[i])
    BY DEF SameSteps
  <2>2. KnownIds(qq) = KnownIds(rr)
    BY <2>1 DEF KnownIds
  <2>3. Consumed(qq) = Consumed(rr)
    BY <2>1 DEF Consumed
  <2>4. Produced(qq) = Produced(rr)
    BY <2>1 DEF Produced
  <2> QED BY <2>2, <2>3, <2>4
<1>4. UnknownTools(qq) = {}
  <2>1. \A m \in DOMAIN qq : qq[m].tool \in Available
    BY <1>1 DEF SameSteps, Sound
  <2> QED BY <2>1 DEF UnknownTools
<1>5. UnknownDependencies(qq) = {}
  <2>1. \A m \in DOMAIN qq : MissingDeps(qq, m) = {}
    BY <1>1, <1>3 DEF SameSteps, Sound, MissingDeps
  <2> QED BY <2>1 DEF UnknownDependencies
<1>6. OrderingErrors(qq) = {}
  BY OrderedIsUnreported
<1>7. DuplicateErrors(qq) = {}
  <2>1. \A k, m \in DOMAIN qq : Body(qq[k]) = Body(qq[m]) => k = m
    BY <1>1 DEF SameSteps, Sound, UniqueIds
  <2>2. \A k, m \in DOMAIN qq : qq[k].id = qq[m].id => k = m
    BY DEF SameSteps, UniqueIds
  <2> QED BY <2>1, <2>2 DEF DuplicateErrors
<1>8. DanglingErrors(qq) = {}
  <2>1. \A x \in KnownIds(rr) \ Consumed(rr) : x = rr[Len(rr)].id
    BY <1>2, Zenon DEF DanglingErrors
  <2>2. ASSUME NEW x \in KnownIds(qq) \ Consumed(qq) PROVE x = qq[Len(qq)].id
    <3> DEFINE n == Len(qq)
    <3>1. DOMAIN qq = 1 .. n /\ n \in Nat
      BY StepDomain
    <3>2. n \in DOMAIN qq
      BY <3>1 DEF KnownIds
    <3>3. qq[n].id \in KnownIds(qq)
      BY <3>2 DEF KnownIds
    <3>4. ASSUME qq[n].id \in Consumed(qq) PROVE FALSE
      <4>1. PICK k \in DOMAIN qq : qq[n].id \in qq[k].input_from
        BY <3>4 DEF Consumed
      <4>2. k = n
        BY <3>1, <3>2, <4>1 DEF Ordered
      <4>3. /\ Edges(qq)[qq[n].id] = qq[n].input_from \cap KnownIds(qq)
            /\ Edges(qq) \in [KnownIds(qq) -> SUBSET KnownIds(qq)]
        BY <3>2, StepDomain, EdgesOfCopies DEF SameSteps, UniqueIds, ClashesAreCopies
      <4>4. qq[n].id \in Upstream(Edges(qq), qq[n].id)
        BY <3>3, <4>1, <4>2, <4>3, UpstreamIsClosed
      <4> QED BY <1>1, <3>3, <4>4, AcyclicNames
    <3> QED BY <1>3, <2>1, <3>3, <3>4
  <2> QED BY <2>2 DEF DanglingErrors
<1>9. CoverageErrors(qq) = {}
  BY <1>2, <1>3 DEF CoverageErrors
<1>10. MissingStop(q) = {}
  BY DEF MissingStop
<1> QED BY <1>1, <1>4, <1>5, <1>6, <1>7, <1>8, <1>9, <1>10 DEF Valid, Errors

LEMMA OrderedRuns ==
  ASSUME NEW q \in AgentPlan, q.steps # <<>>, Ordered(q.steps),
         \A m \in DOMAIN q.steps : /\ OwnFailure(q.steps, m) = NoReason
                                   /\ q.steps[m].id \notin q.steps[m].input_from,
         UniqueIds(q.steps)
  PROVE  Runs(q)
<1> DEFINE qq == q.steps
           D == DOMAIN qq
           waits == WaitsFor(qq)
<1>2. D = 1 .. Len(qq) /\ Len(qq) \in Nat
  BY StepDomain
<1>3. \A m \in D : OwnFailure(qq, m) = NoReason
  OBVIOUS
<1>4. waits = [i \in D |-> Suppliers(qq, i)]
  BY <1>3 DEF WaitsFor
<1>5. waits \in [D -> SUBSET D]
  BY <1>4 DEF Suppliers
<1>6. ASSUME NEW i \in D, NEW j \in Suppliers(qq, i) PROVE j \in D /\ j < i
  <2>1. j \in D /\ qq[j].id \in qq[i].input_from
    BY DEF Suppliers
  <2>2. ~(j > i)
    BY <2>1 DEF Ordered
  <2>3. j # i
    BY <2>1
  <2> QED BY <1>2, <2>1, <2>2, <2>3
<1> HIDE DEF waits
<1>7. ASSUME NEW i \in D PROVE \A j \in Upstream(waits, i) : j \in D /\ j < i
  <2> DEFINE S == {j \in D : j < i}
  <2>1. S \in SUBSET D /\ waits[i] \subseteq S
    BY <1>4, <1>6
  <2>2. ASSUME NEW y \in S PROVE waits[y] \subseteq S
    <3>1. \A j \in waits[y] : j \in D /\ j < y
      BY <1>4, <1>6
    <3> QED BY <1>2, <3>1
  <2> HIDE DEF S
  <2>3. Upstream(waits, i) \subseteq S
    BY <1>5, <2>1, <2>2, UpstreamIsLeast
  <2> QED BY <2>3 DEF S
<1>8. ASSUME NEW i \in D PROVE FinalReason(qq, i) = NoReason
  <2> DEFINE needed == {i} \cup Upstream(waits, i)
  <2>1. \A j \in needed : j \in D /\ OwnFailure(qq, j) = NoReason /\ j \notin Upstream(waits, j)
    BY <1>2, <1>3, <1>7
  <2> HIDE DEF needed
  <2>2. FinalReason(qq, i) =
          IF OwnFailure(qq, i) # NoReason THEN OwnFailure(qq, i)
          ELSE IF \E j \in needed : j \in Upstream(waits, j) THEN UNRESOLVABLE
          ELSE IF \E j \in needed : OwnFailure(qq, j) # NoReason THEN FAILED_DEPENDENCY
          ELSE NoReason
    BY DEF FinalReason, waits, needed
  <2> QED BY <1>3, <2>1, <2>2
<1> QED BY <1>8 DEF Runs

LEMMA NoSelfReference ==
  ASSUME NEW ss \in Seq(Step), ClashesAreCopies(ss), CycleErrors(ss) = {}, NEW i \in DOMAIN ss
  PROVE  ss[i].id \notin ss[i].input_from
<1>1. ss[i].id \in KnownIds(ss)
  BY DEF KnownIds
<1>2. /\ Edges(ss)[ss[i].id] = ss[i].input_from \cap KnownIds(ss)
      /\ Edges(ss) \in [KnownIds(ss) -> SUBSET KnownIds(ss)]
  BY EdgesOfCopies
<1>3. ss[i].id \notin Edges(ss)[ss[i].id]
  BY <1>1, <1>2, UpstreamIsClosed, AcyclicNames
<1> QED BY <1>1, <1>2, <1>3

LEMMA SameRuns ==
  ASSUME NEW r \in AgentPlan, NEW q \in AgentPlan, Valid(r), Runs(r), SameSteps(r.steps, q.steps), Ordered(q.steps)
  PROVE  Runs(q)
<1> DEFINE rr == r.steps
           qq == q.steps
<1>1. Sound(rr) /\ CycleErrors(qq) = {} /\ KnownIds(qq) = KnownIds(rr) /\ qq # <<>>
  <2>1. Sound(rr) /\ CycleErrors(qq) = {}
    BY ValidIsSound, SameIsAcyclic
  <2>2. KnownIds(qq) = KnownIds(rr)
    BY DEF SameSteps, KnownIds
  <2>3. rr # <<>> /\ DOMAIN rr = 1 .. Len(rr) /\ Len(rr) \in Nat /\ rr \in Seq(Step)
    BY StepDomain DEF Runs
  <2>4. 1 \in DOMAIN rr
    BY <2>3
  <2>5. qq # <<>>
    BY <2>4 DEF SameSteps
  <2> QED BY <2>1, <2>2, <2>5
<1>2. ASSUME NEW m \in DOMAIN qq PROVE OwnFailure(qq, m) = NoReason
  <2>1. PICK i \in DOMAIN rr : qq[m] = rr[i]
    BY DEF SameSteps
  <2>2. FinalReason(rr, i) = NoReason
    BY DEF Runs
  <2>3. OwnFailure(rr, i) = NoReason
    BY <2>2 DEF FinalReason
  <2>4. MissingDeps(qq, m) = MissingDeps(rr, i)
    BY <1>1, <2>1 DEF MissingDeps
  <2> QED BY <2>1, <2>3, <2>4 DEF OwnFailure
<1>3. UniqueIds(qq) /\ qq \in Seq(Step)
  BY StepDomain DEF SameSteps
<1>4. ClashesAreCopies(qq)
  BY <1>3 DEF UniqueIds, ClashesAreCopies
<1>5. \A m \in DOMAIN qq : qq[m].id \notin qq[m].input_from
  BY <1>1, <1>3, <1>4, NoSelfReference
<1> QED BY <1>1, <1>2, <1>3, <1>5, OrderedRuns

FaultInv ==
  /\ Valid(reference) /\ Runs(reference)
  /\ (~alone /\ Types \subseteq Mechanical) =>
       /\ Shuffled(reference.steps, broken.steps, claimed)
       /\ broken.stop_condition \in {"none", reference.stop_condition}
  /\ (stage # "inject" /\ repairer = "deterministic") => OrderInv /\ StopInv

LEMMA FaultInit == HarnessInit => FaultInv
<1> SUFFICES ASSUME NEW p \in AgentPlan, Valid(p), Runs(p), Measure(p)
             PROVE  FaultInv
  BY DEF HarnessInit
<1>1. reference = p /\ broken = p /\ claimed = {} /\ stage = "inject"
  BY DEF Measure, Intact
<1>2. Sound(p.steps) /\ DOMAIN p.steps \in SUBSET Int
  BY ValidIsSound, StepDomain
<1>3. \A k \in DOMAIN p.steps : Leading(p.steps, k)
  BY <1>2 DEF Sound, Leading
<1>4. Shuffled(p.steps, p.steps, {})
  BY <1>2, <1>3 DEF Sound, Shuffled
<1> QED BY <1>1, <1>4 DEF FaultInv

LEMMA CorruptionShuffles ==
  ASSUME GroundInv, FaultInv, NEW c \in Corruptions(broken), c.touched \subseteq Known(reference),
         c.touched \cap claimed = {}, Apply(c), ~alone, Types' \subseteq Mechanical
  PROVE  /\ Shuffled(reference.steps, broken'.steps, claimed')
         /\ broken'.stop_condition \in {"none", reference.stop_condition}
<1> DEFINE type == c.result.injected.corruption_type
           S == {injected[k] : k \in DOMAIN injected}
<1>1. /\ reference \in AgentPlan /\ broken \in AgentPlan /\ Sound(reference.steps) /\ injected \in Seq(S)
      /\ broken' = c.result.broken /\ injected' = Append(injected, c.result.injected)
      /\ claimed' = claimed \cup c.touched
  BY DEF GroundInv, Apply, IsList
<1>2. type \in Mechanical /\ Types \subseteq Mechanical
  <2> HIDE DEF S
  <2>1. Types' = Types \cup {type}
    BY <1>1, DamageAdds
  <2> QED BY <2>1
<1>3. /\ Shuffled(reference.steps, broken.steps, claimed)
      /\ broken.stop_condition \in {"none", reference.stop_condition}
  BY <1>2 DEF FaultInv
<1>4. Known(reference) \subseteq Known(broken) /\ Known(broken) \subseteq StepId
  BY <1>1, <1>3, NamesAreNames DEF Shuffled, Known, KnownIds
<1>5. ASSUME NEW id \in Known(broken), NEW to, CanMove(broken, id, to),
             c = Touching({id}, MoveEarlier(broken, id, to))
      PROVE  /\ Shuffled(reference.steps, broken'.steps, claimed')
             /\ broken'.stop_condition \in {"none", reference.stop_condition}
  <2>1. broken' = MoveEarlier(broken, id, to).broken /\ c.touched = {id}
    BY <1>1, <1>5 DEF Touching
  <2>2. id \in Known(reference) /\ id \notin claimed
    BY <2>1
  <2>3. Shuffled(reference.steps, broken'.steps, claimed)
    BY <1>1, <1>3, <1>5, <2>1, <2>2, MoveShuffles
  <2>4. Shuffled(reference.steps, broken'.steps, claimed')
    BY <1>1, <2>3 DEF Shuffled
  <2>5. broken'.stop_condition = broken.stop_condition
    BY <1>1, <2>1 DEF MoveEarlier, Result, WithSteps, AgentPlan
  <2> QED BY <1>3, <2>4, <2>5
<1>6. ASSUME NEW id \in Known(broken), NEW new_id \in {id} \cup FreeIds(broken, CopyNames[id]),
             c = Touching({id}, Duplicate(broken, id, new_id))
      PROVE  /\ Shuffled(reference.steps, broken'.steps, claimed')
             /\ broken'.stop_condition \in {"none", reference.stop_condition}
  <2>1. broken' = Duplicate(broken, id, new_id).broken /\ c.touched = {id}
    BY <1>1, <1>6 DEF Touching
  <2>2. id \in Known(reference) /\ claimed' = claimed \cup {id}
    BY <1>1, <2>1
  <2>3. new_id \in StepId /\ (new_id = id \/ new_id \notin Known(broken))
    BY <1>4, FreeNames, InjectorAssumption
  <2>4. Shuffled(reference.steps, broken'.steps, claimed')
    <3>1. Shuffled(reference.steps, Duplicate(broken, id, new_id).broken.steps, claimed \cup {id})
      <4>1. /\ reference \in AgentPlan /\ broken \in AgentPlan /\ Known(reference) \subseteq Known(broken)
            /\ Shuffled(reference.steps, broken.steps, claimed)
        BY <1>1, <1>3, <1>4
      <4> HIDE DEF S, type
      <4> QED BY <4>1, <2>2, <2>3, CopyShuffles
    <3> QED BY <3>1, <2>1, <2>2
  <2>5. broken'.stop_condition = broken.stop_condition
    BY <1>1, <2>1 DEF Duplicate, Result, WithSteps, AgentPlan
  <2> QED BY <1>3, <2>4, <2>5
<1>7. ASSUME c = Touching({}, DropStop(broken))
      PROVE  /\ Shuffled(reference.steps, broken'.steps, claimed')
             /\ broken'.stop_condition \in {"none", reference.stop_condition}
  <2>1. broken' = [broken EXCEPT !.stop_condition = "none"] /\ c.touched = {}
    BY <1>1, <1>7 DEF Touching, DropStop, Result
  <2>2. broken'.steps = broken.steps /\ broken'.stop_condition = "none" /\ claimed' = claimed
    BY <1>1, <2>1 DEF AgentPlan
  <2> QED BY <1>3, <2>2
<1>8. ByOneCall(broken, c)
  BY CorruptionCases
<1>9. \/ \E id \in Known(broken), to \in DOMAIN broken.steps :
            CanMove(broken, id, to) /\ c = Touching({id}, MoveEarlier(broken, id, to))
      \/ \E id \in Known(broken) : \E new_id \in {id} \cup FreeIds(broken, CopyNames[id]) :
            c = Touching({id}, Duplicate(broken, id, new_id))
      \/ c = Touching({}, DropStop(broken))
  BY <1>2, <1>8, MechanicalCases
<1> QED BY <1>5, <1>6, <1>7, <1>9

LEMMA FaultInductive == GroundInv /\ RulesInv /\ FaultInv /\ [HarnessNext]_harnessVars => FaultInv'
<1> SUFFICES ASSUME GroundInv, RulesInv, FaultInv, [HarnessNext]_harnessVars PROVE FaultInv'
  OBVIOUS
<1>1. CASE Corrupt
  <2>1. reference' = reference /\ stage' = "inject"
    BY <1>1 DEF Corrupt, Inject, InjectAlone, Apply
  <2>2. CASE InjectAlone
    BY <2>1, <2>2 DEF FaultInv, InjectAlone
  <2>3. CASE Inject
    <3>1. PICK c \in Corruptions(broken) :
            c.touched \subseteq Known(reference) /\ c.touched \cap claimed = {} /\ Apply(c)
      BY <2>3 DEF Inject
    <3>2. ~alone /\ ~alone'
      BY <2>3 DEF Inject
    <3>3. Types' \subseteq Mechanical =>
            /\ Shuffled(reference.steps, broken'.steps, claimed')
            /\ broken'.stop_condition \in {"none", reference.stop_condition}
      BY <3>1, <3>2, CorruptionShuffles
    <3> QED BY <2>1, <3>3 DEF FaultInv
  <2> QED BY <1>1, <2>2, <2>3 DEF Corrupt
<1>2. ASSUME UNCHANGED injectionVars,
             (stage' # "inject" /\ repairer' = "deterministic") => OrderInv' /\ StopInv'
      PROVE  FaultInv'
  <2>1. /\ reference' = reference /\ broken' = broken /\ claimed' = claimed /\ alone' = alone
        /\ Types' = Types
    BY <1>2 DEF injectionVars, Types
  <2> QED BY <1>2, <2>1 DEF FaultInv
<1>3. CASE Submit
  <2>1. /\ UNCHANGED injectionVars /\ broken_plan' = broken
        /\ repairer' = "deterministic" => pc' = "duplicates" /\ plan' = broken
    BY <1>3 DEF Submit
  <2>2. repairer' = "deterministic" => OrderInv' /\ StopInv'
    BY <2>1 DEF OrderInv, StopInv, steps
  <2> QED BY <1>2, <2>1, <2>2
<1>4. CASE Repair
  <2>1. stage = "repair" /\ repairer' = repairer /\ [RepairNext]_repairVars /\ UNCHANGED injectionVars
    BY <1>4 DEF Repair
  <2>2. repairer = "deterministic" => OrderInv' /\ StopInv'
    BY <2>1, OrderInductive, StopInductive DEF RulesInv, FaultInv
  <2> QED BY <1>2, <2>1, <2>2
<1>5. ASSUME UNCHANGED <<repairVars, injectionVars>>, repairer' = repairer,
             stage' # "inject" => stage # "inject"
      PROVE  FaultInv'
  <2>1. /\ pc' = pc /\ plan' = plan /\ broken_plan' = broken_plan /\ errors' = errors
        /\ steps' = steps
    BY <1>5 DEF repairVars, steps
  <2>2. OrderInv' = OrderInv /\ StopInv' = StopInv
    BY <2>1 DEF OrderInv, StopInv, Reported
  <2> QED BY <1>2, <1>5, <2>2 DEF FaultInv
<1>6. CASE TakeScore
  BY <1>5, <1>6 DEF TakeScore
<1>7. CASE UNCHANGED harnessVars
  BY <1>5, <1>7 DEF harnessVars
<1> QED BY <1>1, <1>3, <1>4, <1>6, <1>7 DEF HarnessNext

LEMMA FaultsHold == HarnessSpec => []FaultInv
<1>1. HarnessSpec => []GroundInv
  BY GroundHolds
<1>2. HarnessSpec => []RulesInv
  BY RulesHold, PTL
<1> QED BY <1>1, <1>2, FaultInit, FaultInductive, PTL DEF HarnessSpec

\* Order, copies and a missing stop condition, however combined, are repaired outright:
\* what comes back is valid, runs, and lists the reference's steps and no others.
THEOREM RulesSolveMechanicalFaults == HarnessSpec => []MechanicalFaultsAreSolved
<1>1. GroundInv /\ SingleInv /\ RulesInv /\ FaultInv => MechanicalFaultsAreSolved
  <2> SUFFICES ASSUME GroundInv, SingleInv, RulesInv, FaultInv,
                      stage = "scored", repairer = "deterministic", alone = FALSE, Types \subseteq Mechanical
               PROVE  /\ Solved(score) /\ score.added = {}
                      /\ ToSet(plan.steps) = ToSet(reference.steps)
                      /\ Len(plan.steps) = Len(reference.steps)
    BY DEF MechanicalFaultsAreSolved, Mechanical
  <2>1. /\ reference \in AgentPlan /\ broken \in AgentPlan /\ plan \in AgentPlan
        /\ Valid(reference) /\ Runs(reference) /\ Sound(reference.steps)
        /\ Shuffled(reference.steps, broken.steps, claimed)
        /\ broken.stop_condition \in {"none", reference.stop_condition}
        /\ pc = "done" /\ broken_plan = broken /\ errors = Errors(broken)
        /\ score = Score(reference, broken, plan, Damaged)
    BY DEF GroundInv, SingleInv, RulesInv, TypeOK, FaultInv
  <2>2. ClashesAreCopies(broken.steps)
    BY CopiesClash DEF RulesInv
  <2>3. SameSteps(reference.steps, plan.steps)
    <3>1. Kept(broken.steps, plan.steps)
      BY <2>1, <2>2 DEF RulesInv, KeptInv, steps
    <3> QED BY <2>1, <3>1, KeptIsSame
  <2>4. Ordered(plan.steps)
    <3>1. CycleErrors(broken.steps) = {}
      BY <2>1, <2>2, ShuffledHasNoCycle
    <3>2. DEP_CYCLE \notin Reported
      <4>1. OfType(Errors(broken), DEP_CYCLE) = CycleErrors(broken.steps)
        BY ReportByCheck
      <4> QED BY <2>1, <3>1, <4>1 DEF Reported, OfType, ErrorTypes
    <3> QED BY <2>1, <2>2, <3>2 DEF FaultInv, OrderInv, steps
  <2>5. plan.stop_condition \in {"stated", "derived"}
    <3>1. reference.stop_condition \in {"stated", "derived"}
      <4>1. MissingStop(reference) = {}
        BY <2>1 DEF Valid, Errors
      <4>2. reference.stop_condition \in {"none", "blank", "stated", "derived"}
        BY <2>1 DEF AgentPlan, StopCondition
      <4> QED BY <4>1, <4>2 DEF MissingStop
    <3>2. steps # <<>>
      <4>1. reference.steps # <<>> /\ DOMAIN reference.steps = 1 .. Len(reference.steps)
            /\ Len(reference.steps) \in Nat /\ reference.steps \in Seq(Step)
        BY <2>1, StepDomain DEF Runs
      <4>2. 1 \in DOMAIN reference.steps
        BY <4>1
      <4> QED BY <2>3, <4>2 DEF SameSteps, steps
    <3>3. broken.stop_condition = "none" => MISSING_STOP_CONDITION \in Reported
      <4>1. Error(MISSING_STOP_CONDITION, {}, {StopPath}, "").type = MISSING_STOP_CONDITION
        BY ErrorType
      <4>2. MissingStop(broken) \subseteq errors
        BY <2>1, ChecksAreReported
      <4> QED BY <4>1, <4>2 DEF MissingStop, Reported, ErrorTypes
    <3> QED BY <2>1, <3>1, <3>2, <3>3 DEF FaultInv, StopInv
  <2>6. Valid(plan) /\ Runs(plan)
    BY <2>1, <2>3, <2>4, <2>5, SameIsValid, SameRuns
  <2>7. score.valid = Valid(plan) /\ score.runtime_succeeded = Runs(plan)
    BY <2>1, Zenon DEF Score
  <2>8. score.added = {}
    <3>1. Known(plan) \subseteq Known(reference)
      BY <2>3 DEF SameSteps, Known, KnownIds
    <3>2. \A p : DOMAIN Bodies(p) = Known(p)
      BY DEF Bodies, Known
    <3>3. \A id \in score.added : id \in DOMAIN Bodies(plan) \ DOMAIN Bodies(reference)
      BY <2>1 DEF Score
    <3> QED BY <3>1, <3>2, <3>3
  <2>9. ToSet(plan.steps) = ToSet(reference.steps)
    BY <2>3 DEF SameSteps, ToSet
  <2>10. Len(plan.steps) = Len(reference.steps)
    BY <2>1, <2>3, SameLength DEF Sound
  <2> QED BY <2>6, <2>7, <2>8, <2>9, <2>10 DEF Solved
<1> QED BY <1>1, FaultsHold, RulesHold, PTL

(***************************************************************************)
(* Whether a repaired plan runs.  No corruption makes up an argument, no   *)
(* rule does either, and what a step consumes is a step of the repaired    *)
(* plan, unless it was a copy.                                             *)
(***************************************************************************)
Filled(ss) == \A k \in DOMAIN ss : ss[k].arguments \notin BlankArgument

RunsInv ==
  /\ Filled(broken.steps)
  /\ (stage # "inject" /\ repairer = "deterministic") => WorkInv /\ CleanInv

LEMMA RunsInit == HarnessInit => RunsInv
<1> SUFFICES ASSUME NEW p \in AgentPlan, Runs(p), Measure(p)
             PROVE  RunsInv
  BY DEF HarnessInit
<1>1. broken = p /\ stage = "inject"
  BY DEF Measure, Intact
<1>2. \A k \in DOMAIN p.steps : OwnFailure(p.steps, k) = NoReason
  BY DEF Runs, FinalReason
<1>3. \A k \in DOMAIN p.steps : LocalFailure(p.steps[k]) = NoReason
  BY <1>2 DEF OwnFailure
<1>4. UNUSABLE_ARGUMENT # NoReason /\ UNKNOWN_TOOL # NoReason
  BY DEF UNUSABLE_ARGUMENT, UNKNOWN_TOOL, NoReason
<1>5. Filled(p.steps)
  BY <1>3, <1>4 DEF Filled, LocalFailure
<1> QED BY <1>1, <1>5 DEF RunsInv

LEMMA RunsInductive == GroundInv /\ RulesInv /\ RunsInv /\ [HarnessNext]_harnessVars => RunsInv'
<1> SUFFICES ASSUME GroundInv, RulesInv, RunsInv, [HarnessNext]_harnessVars PROVE RunsInv'
  OBVIOUS
<1>1. CASE Corrupt
  <2>1. PICK c \in Corruptions(broken) \cup AimedCorruptions(broken) : Apply(c)
    BY <1>1 DEF Corrupt, Inject, InjectAlone
  <2>2. broken' = c.result.broken /\ stage' = "inject"
    BY <1>1, <2>1 DEF Apply, Corrupt
  <2>3. ByOneCall(broken, c) /\ broken \in AgentPlan
    BY <2>1, CorruptionCases DEF GroundInv
  <2>4. \A k \in DOMAIN broken'.steps : \E i \in DOMAIN broken.steps :
          broken'.steps[k].arguments = broken.steps[i].arguments
    BY <2>2, <2>3, CorruptionKeepsArguments
  <2> QED BY <2>2, <2>4 DEF RunsInv, Filled
<1>2. CASE Submit
  <2>1. /\ broken' = broken /\ broken_plan' = broken
        /\ repairer' = "deterministic" => pc' = "duplicates" /\ plan' = broken
    BY <1>2 DEF Submit, injectionVars
  <2>2. repairer' = "deterministic" => WorkInv' /\ CleanInv'
    BY <2>1 DEF WorkInv, Alike, CleanInv, steps
  <2> QED BY <2>1, <2>2 DEF RunsInv
<1>3. CASE Repair
  <2>1. stage = "repair" /\ repairer' = repairer /\ [RepairNext]_repairVars /\ broken' = broken
    BY <1>3 DEF Repair, injectionVars
  <2>2. repairer = "deterministic" => WorkInv' /\ CleanInv'
    BY <2>1, WorkInductive, CleanInductive DEF RulesInv, RunsInv
  <2> QED BY <2>1, <2>2 DEF RunsInv
<1>4. ASSUME UNCHANGED <<repairVars, injectionVars>>, repairer' = repairer,
             stage' # "inject" => stage # "inject"
      PROVE  RunsInv'
  <2>1. /\ pc' = pc /\ plan' = plan /\ broken_plan' = broken_plan /\ errors' = errors
        /\ steps' = steps /\ broken' = broken
    BY <1>4 DEF repairVars, injectionVars, steps
  <2>2. WorkInv' = WorkInv /\ CleanInv' = CleanInv
    BY <2>1 DEF WorkInv, CleanInv
  <2> QED BY <1>4, <2>1, <2>2 DEF RunsInv
<1>5. CASE TakeScore
  BY <1>4, <1>5 DEF TakeScore
<1>6. CASE UNCHANGED harnessVars
  BY <1>4, <1>6 DEF harnessVars
<1> QED BY <1>1, <1>2, <1>3, <1>5, <1>6 DEF HarnessNext

\* However a plan was damaged, without an unknown tool and a cycle the rules leave one
\* that runs to its end, but for steps that consume a copy under its own name.
THEOREM RepairedPlansRun == HarnessSpec => []RepairedPlanRuns
<1>1. GroundInv /\ SingleInv /\ RulesInv /\ FaultInv /\ RunsInv => RepairedPlanRuns
  <2> DEFINE bb == broken.steps
             qq == plan.steps
  <2> SUFFICES ASSUME GroundInv, SingleInv, RulesInv, FaultInv, RunsInv,
                      stage = "scored", repairer = "deterministic", plan.steps # <<>>,
                      UNKNOWN_TOOL \notin Reported, DEP_CYCLE \notin Reported,
                      \A k \in DOMAIN bb : bb[k].input_from \cap Lost = {}
               PROVE  score.runtime_succeeded
    BY DEF RepairedPlanRuns
  <2>1. /\ broken \in AgentPlan /\ plan \in AgentPlan
        /\ pc = "done" /\ broken_plan = broken /\ errors = Errors(broken)
        /\ score = Score(reference, broken, plan, Damaged)
        /\ WorkInv /\ CleanInv /\ OrderInv /\ KeptInv
    BY DEF GroundInv, SingleInv, RulesInv, TypeOK, FaultInv, RunsInv
  <2>2. ClashesAreCopies(bb)
    BY CopiesClash DEF RulesInv
  <2>3. UniqueIds(qq) /\ Ordered(qq)
    BY <2>1, <2>2 DEF KeptInv, Kept, OrderInv, steps
  <2>4. CycleErrors(bb) = {} /\ UnknownTools(bb) = {}
    <3>1. OfType(Errors(broken), UNKNOWN_TOOL) = UnknownTools(bb)
          /\ OfType(Errors(broken), DEP_CYCLE) = CycleErrors(bb)
      BY ReportByCheck
    <3> QED BY <2>1, <3>1 DEF Reported, OfType, ErrorTypes
  <2>5. ASSUME NEW m \in DOMAIN qq
        PROVE  LocalFailure(qq[m]) = NoReason
    <3>1. PICK i \in DOMAIN bb : Alike(qq[m], bb[i])
      BY <2>1 DEF WorkInv, steps
    <3>2. bb[i].tool \in Available
      BY <2>4 DEF UnknownTools
    <3>3. bb[i].arguments \notin BlankArgument
      BY DEF RunsInv, Filled
    <3> QED BY <3>1, <3>2, <3>3 DEF Alike, LocalFailure
  <2>6. ASSUME NEW m \in DOMAIN qq
        PROVE  MissingDeps(qq, m) = {} /\ qq[m].id \notin qq[m].input_from
    <3>1. PICK i \in DOMAIN bb : qq[m].id = bb[i].id /\ qq[m].input_from \subseteq bb[i].input_from
      BY <2>1, <2>2 DEF OrderInv, steps
    <3>2. qq[m].id \notin qq[m].input_from
      <4>1. bb \in Seq(Step)
        BY <2>1, StepDomain
      <4> QED BY <2>2, <2>4, <3>1, <4>1, NoSelfReference
    <3>3. ASSUME NEW d \in qq[m].input_from, d \notin Known(plan) PROVE FALSE
      <4>1. d \notin Known(broken)
        BY <3>1, <3>3 DEF Lost
      <4>2. MissingDeps(bb, i) # {}
        BY <3>1, <4>1 DEF MissingDeps, Known
      <4>3. qq[m].id \in DetectedStepIds(OfType(errors, UNKNOWN_DEPENDENCY))
        BY <2>1, <3>1, <4>2, UncleanIsReported
      <4>4. qq[m].input_from \subseteq KnownIds(qq)
        BY <2>1, <4>3 DEF CleanInv, steps
      <4> QED BY <3>3, <4>4 DEF Known
    <3> QED BY <3>2, <3>3 DEF MissingDeps, Known
  <2>7. \A m \in DOMAIN qq : OwnFailure(qq, m) = NoReason
    BY <2>5, <2>6 DEF OwnFailure
  <2>8. Runs(plan)
    BY <2>1, <2>3, <2>6, <2>7, OrderedRuns
  <2>9. score.runtime_succeeded = Runs(plan)
    BY <2>1, Zenon DEF Score
  <2> QED BY <2>8, <2>9
<1>2. HarnessSpec => []RunsInv
  <2>1. HarnessSpec => []GroundInv
    BY GroundHolds
  <2>2. HarnessSpec => []RulesInv
    BY RulesHold, PTL
  <2> QED BY <2>1, <2>2, RunsInit, RunsInductive, PTL DEF HarnessSpec
<1> QED BY <1>1, <1>2, RulesHold, FaultsHold, PTL
=============================================================================
