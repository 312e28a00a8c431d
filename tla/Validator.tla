----------------------------- MODULE Validator -----------------------------
(***************************************************************************)
(* validate_plan: the structural checks and the coverage check, each one   *)
(* an operator that returns the errors it reports.  An error is a record   *)
(* of its type, the steps and paths it names and, for a duplicate, the     *)
(* kind.  Messages are left out; the result is the set of errors, since    *)
(* every reader of it (the repairers, the detection metrics) looks errors  *)
(* up by type and by the names they carry.                                 *)
(***************************************************************************)
EXTENDS PlanModel

UNKNOWN_TOOL           == "unknown_tool"
UNKNOWN_DEPENDENCY     == "unknown_dependency"
DEP_CYCLE              == "dep_cycle"
ORDERING               == "ordering"
DUPLICATE_STEP         == "duplicate_step"
DANGLING_STEP          == "dangling_step"
MISSING_STOP_CONDITION == "missing_stop_condition"
MISSING_EVIDENCE       == "missing_evidence"
MISSING_OPERATION      == "missing_operation"

Error(type, ids, paths, kind) ==
  [type |-> type, step_ids |-> ids, paths |-> paths, kind |-> kind]

UnknownTools(steps) ==
  {Error(UNKNOWN_TOOL, {steps[i].id}, {ToolPath(steps[i].id)}, "") :
     i \in {j \in DOMAIN steps : steps[j].tool \notin Available}}

MissingDeps(steps, i) == steps[i].input_from \ KnownIds(steps)

UnknownDependencies(steps) ==
  {Error(UNKNOWN_DEPENDENCY, {steps[i].id}, {InputFromPath(steps[i].id)}, "") :
     i \in {j \in DOMAIN steps : MissingDeps(steps, j) # {}}}

(***************************************************************************)
(* Cycles.  The code runs Tarjan's algorithm over a dict from a step's     *)
(* name to the known steps it consumes (the last step of a name wins); the *)
(* module Tarjan is that algorithm.  Here its result is defined: Upstream  *)
(* is the set of steps a name transitively consumes, the smallest set that *)
(* holds its dependencies and is closed under theirs, and a cyclic         *)
(* component is a class of steps that are upstream of each other.          *)
(***************************************************************************)
Edges(steps) ==
  [id \in KnownIds(steps) |-> steps[LastAt(steps, id)].input_from \cap KnownIds(steps)]

Upstream(edges, id) ==
  {x \in DOMAIN edges :
     \A S \in SUBSET DOMAIN edges :
        (edges[id] \subseteq S /\ \A y \in S : edges[y] \subseteq S) => x \in S}

\* Mutant: without Tarjan's extra test a step that consumes itself is no cycle.
CyclesOfSeveral(edges) ==
  LET up == [id \in DOMAIN edges |-> Upstream(edges, id)]
  IN  {C \in {{y \in up[x] : x \in up[y]} : x \in DOMAIN edges} : Cardinality(C) > 1}

CyclicComponents(edges) ==
  LET up == [id \in DOMAIN edges |-> Upstream(edges, id)]
      onCycle == {id \in DOMAIN edges : id \in up[id]}
  IN  {{y \in up[x] : x \in up[y]} : x \in onCycle}

CycleErrors(steps) ==
  {Error(DEP_CYCLE, C, {InputFromPath(id) : id \in C}, "") :
     C \in CyclicComponents(Edges(steps))}

\* Mutant: a dependency at the next place counts as an earlier one.
LateByTwo(steps, i) ==
  {d \in steps[i].input_from : \E j \in DOMAIN steps : j > i + 1 /\ steps[j].id = d}

\* The dict of positions keeps the last position of a name, which is past i
\* exactly when the name stands at some place past i.
LateDeps(steps, i) ==
  {d \in steps[i].input_from : \E j \in DOMAIN steps : j > i /\ steps[j].id = d}

OrderingErrors(steps) ==
  {Error(ORDERING, {steps[i].id} \cup LateDeps(steps, i), {StepPath(steps[i].id)}, "") :
     i \in {j \in DOMAIN steps : LateDeps(steps, j) # {}}}

\* The names worn by the steps that do the same work as the step at i.
SameWork(steps, i) ==
  {steps[j].id : j \in {k \in DOMAIN steps : Body(steps[k]) = Body(steps[i])}}

DuplicateErrors(steps) ==
  {Error(DUPLICATE_STEP, {steps[i].id}, {StepPath(steps[i].id)}, "duplicate_id") :
     i \in {j \in DOMAIN steps : \E k \in DOMAIN steps \ {j} : steps[k].id = steps[j].id}}
  \cup
  {Error(DUPLICATE_STEP, SameWork(steps, i),
         {StepPath(id) : id \in SameWork(steps, i)}, "identical_content") :
     i \in {j \in DOMAIN steps : \E k \in DOMAIN steps \ {j} : Body(steps[k]) = Body(steps[j])}}

Consumed(steps) == UNION {steps[i].input_from : i \in DOMAIN steps}

\* The terminal is the last step of the list, by name; it never dangles.
DanglingErrors(steps) ==
  {Error(DANGLING_STEP, {id}, {StepPath(id)}, "") :
     id \in {x \in KnownIds(steps) \ Consumed(steps) : x # steps[Len(steps)].id}}

MissingStop(plan) ==
  IF plan.stop_condition \in {"none", "blank"}
  THEN {Error(MISSING_STOP_CONDITION, {}, {StopPath}, "")} ELSE {}

Produced(steps) == UNION {steps[i].produces : i \in DOMAIN steps}

CoverageErrors(steps) ==
  {Error(MISSING_EVIDENCE, {}, {EvidencePath(t)}, "") :
     t \in RequiredEvidence \ Produced(steps)}
  \cup
  {Error(MISSING_OPERATION, {}, {OperationPath(t)}, "") :
     t \in RequiredOperation \ Produced(steps)}

\* Ordering is looked at only in a plan without cycles.
Errors(plan) ==
  LET steps == plan.steps
      cycles == CycleErrors(steps)
  IN  UnknownTools(steps) \cup UnknownDependencies(steps) \cup cycles
      \cup (IF cycles = {} THEN OrderingErrors(steps) ELSE {})
      \cup DuplicateErrors(steps) \cup DanglingErrors(steps)
      \cup MissingStop(plan) \cup CoverageErrors(steps)

Valid(plan) == Errors(plan) = {}

ErrorTypes(errors) == {e.type : e \in errors}
OfType(errors, type) == {e \in errors : e.type = type}
DetectedStepIds(errors) == UNION {e.step_ids : e \in errors}
DetectedPaths(errors) == UNION {e.paths : e \in errors}
=============================================================================
