------------------------ MODULE DeterministicRepair ------------------------
(***************************************************************************)
(* DeterministicRepairer.repair: four mechanical rules applied one after   *)
(* the other to a copy of the broken plan.  The validation they read is    *)
(* the one of the broken plan; it is not refreshed between the rules, so   *)
(* a later rule acts on a report that an earlier rule may have outdated.   *)
(***************************************************************************)
EXTENDS Validator, Lists, Functions

HANDLED_ERROR_TYPES ==
  {UNKNOWN_DEPENDENCY, DUPLICATE_STEP, ORDERING, MISSING_STOP_CONDITION}
DECLINED_ERROR_TYPES ==
  {UNKNOWN_TOOL, DEP_CYCLE, DANGLING_STEP, MISSING_EVIDENCE, MISSING_OPERATION}

VARIABLES
  broken_plan,   \* the argument: never assigned after the call starts
  errors,     \* the validation handed in with it
  plan,       \* the deep copy the rules work on, and the result
  emitted,    \* _reorder_topologically's `ordered`, as indices into plan.steps
  pc          \* the rule about to run; "emit" inside the reordering loop
repairVars == <<broken_plan, errors, plan, emitted, pc>>

Reported == ErrorTypes(errors)
steps == plan.steps

\* repair() is called with the broken plan and its validation.
Call(p) ==
  /\ broken_plan = p
  /\ errors = Errors(p)
  /\ plan = p
  /\ emitted = <<>>
  /\ pc = "duplicates"

(***************************************************************************)
(* The group is looked up by name, and the work it shares is read off the  *)
(* first step wearing one of its names.                                    *)
(***************************************************************************)
Members(ss, e) == {i \in DOMAIN ss : ss[i].id \in e.step_ids}

\* Mutant: every step that wears a name of the group is taken for a copy.
DoomedByName(ss, errs) ==
  UNION {LET members == Members(ss, e)
         IN  {i \in members : \E j \in members : j < i} :
         e \in {x \in OfType(errs, DUPLICATE_STEP) : x.kind = "identical_content"}}

\* Mutant: the first of the group is dropped with its copies.
DoomedWithFirst(ss, errs) ==
  UNION {LET members == Members(ss, e)
         IN  {i \in members : \A j \in members : i <= j => Body(ss[i]) = Body(ss[j])} :
         e \in {x \in OfType(errs, DUPLICATE_STEP) : x.kind = "identical_content"}}

Doomed(ss, errs) ==
  UNION {LET members == Members(ss, e)
             first == CHOOSE i \in members : \A j \in members : i <= j
         IN  {i \in members \ {first} : Body(ss[i]) = Body(ss[first])} :
         e \in {x \in OfType(errs, DUPLICATE_STEP) :
                  x.kind = "identical_content" /\ Members(ss, x) # {}}}

DropDuplicates ==
  /\ pc = "duplicates"
  /\ plan' = IF DUPLICATE_STEP \in Reported
             THEN [plan EXCEPT !.steps = Sublist(@, DOMAIN @ \ Doomed(@, errors))]
             ELSE plan
  /\ pc' = "dependencies"
  /\ UNCHANGED <<broken_plan, errors, emitted>>

\* Mutant: references are cleaned only if nothing else was reported.
DropIfNothingElse ==
  /\ pc = "dependencies"
  /\ plan' = IF Reported = {UNKNOWN_DEPENDENCY}
             THEN [plan EXCEPT !.steps = [i \in DOMAIN @ |->
                     [@[i] EXCEPT !.input_from = @ \cap KnownIds(steps)]]]
             ELSE plan
  /\ pc' = "reorder"
  /\ UNCHANGED <<broken_plan, errors, emitted>>

\* Whose references are cleaned is read from the report, what they are cleaned
\* against from the plan as it is now.
DropUnknownDependencies ==
  /\ pc = "dependencies"
  /\ LET known == KnownIds(steps)
         targets == DetectedStepIds(OfType(errors, UNKNOWN_DEPENDENCY))
         Cleaned(s) == IF s.id \in targets
                       THEN [s EXCEPT !.input_from = @ \cap known] ELSE s
     IN  plan' = IF UNKNOWN_DEPENDENCY \in Reported
                 THEN [plan EXCEPT !.steps = [i \in DOMAIN @ |-> Cleaned(@[i])]]
                 ELSE plan
  /\ pc' = "reorder"
  /\ UNCHANGED <<broken_plan, errors, emitted>>

(***************************************************************************)
(* _reorder_topologically.  What a name waits for is a dict over names (of *)
(* two steps with one name the last decides for both) and leaves out names *)
(* nobody carries and the name itself.                                     *)
(***************************************************************************)
Waiting(ss, id) == (ss[LastAt(ss, id)].input_from \cap KnownIds(ss)) \ {id}

Remaining == DOMAIN steps \ {emitted[k] : k \in DOMAIN emitted}
Settled == {steps[emitted[k]].id : k \in DOMAIN emitted}
Ready(i) == Waiting(steps, steps[i].id) \subseteq Settled

\* Mutant: the order is restored only when nothing else was reported.
BeginIfOnlyOrdering ==
  /\ pc = "reorder"
  /\ pc' = IF Reported = {ORDERING} THEN "emit" ELSE "stop"
  /\ emitted' = <<>>
  /\ UNCHANGED <<broken_plan, errors, plan>>

BeginReorder ==
  /\ pc = "reorder"
  /\ pc' = IF ORDERING \in Reported /\ DEP_CYCLE \notin Reported THEN "emit" ELSE "stop"
  /\ emitted' = <<>>
  /\ UNCHANGED <<broken_plan, errors, plan>>

\* Mutant: the latest ready step is taken.
EmitLatest(i) ==
  /\ pc = "emit"
  /\ i \in Remaining /\ Ready(i)
  /\ \A j \in Remaining : j > i => ~Ready(j)
  /\ emitted' = Append(emitted, i)
  /\ UNCHANGED <<broken_plan, errors, plan, pc>>

\* The earliest remaining step that waits for nothing any more.
Emit(i) ==
  /\ pc = "emit"
  /\ i \in Remaining /\ Ready(i)
  /\ \A j \in Remaining : j < i => ~Ready(j)
  /\ emitted' = Append(emitted, i)
  /\ UNCHANGED <<broken_plan, errors, plan, pc>>

\* The else branch of the for: not a DAG after all.
LeaveUnordered ==
  /\ pc = "emit"
  /\ Remaining # {} /\ \A i \in Remaining : ~Ready(i)
  /\ pc' = "stop"
  /\ UNCHANGED <<broken_plan, errors, plan, emitted>>

AdoptOrder ==
  /\ pc = "emit"
  /\ Remaining = {}
  /\ plan' = [plan EXCEPT !.steps = [k \in DOMAIN emitted |-> steps[emitted[k]]]]
  /\ pc' = "stop"
  /\ UNCHANGED <<broken_plan, errors, emitted>>

FillStopCondition ==
  /\ pc = "stop"
  /\ plan' = IF MISSING_STOP_CONDITION \in Reported /\ steps # <<>>
             THEN [plan EXCEPT !.stop_condition = "derived"]
             ELSE plan
  /\ pc' = "done"
  /\ UNCHANGED <<broken_plan, errors, emitted>>

RepairNext ==
  \/ DropDuplicates \/ DropUnknownDependencies
  \/ BeginReorder \/ LeaveUnordered \/ AdoptOrder
  \/ \E i \in DOMAIN steps : Emit(i)
  \/ FillStopCondition

RepairInit == \E p \in AgentPlan : Call(p)
RepairSpec == RepairInit /\ [][RepairNext]_repairVars

Returned == pc = "done"
After == Errors(plan)

-----------------------------------------------------------------------------
\* _drop_duplicates looks a group up by name although a name of the group "may
\* also be worn by an unrelated step": whatever the clash of names, no work of the
\* broken plan is lost.
WorkSurvives ==
  \A i \in DOMAIN broken_plan.steps : \E k \in DOMAIN steps :
    /\ steps[k].tool = broken_plan.steps[i].tool
    /\ steps[k].arguments = broken_plan.steps[i].arguments
    /\ steps[k].produces = broken_plan.steps[i].produces

\* Unknown tools and uncovered requirements are declined, "leaving them untouched":
\* whatever else the rules did, what was reported of them before is reported after,
\* and nothing more.  Of copies of a step with an unknown tool one is left to report.
DeclinedErrorsStay ==
  Returned =>
    /\ \A t \in {MISSING_EVIDENCE, MISSING_OPERATION} : OfType(After, t) = OfType(errors, t)
    /\ OfType(After, UNKNOWN_TOOL) \subseteq OfType(errors, UNKNOWN_TOOL)
    /\ UNKNOWN_TOOL \in Reported => UNKNOWN_TOOL \in ErrorTypes(After)

\* Steps share a name only where one is a copy of the other.
ClashesAreCopies(ss) == \A i, j \in DOMAIN ss : ss[i].id = ss[j].id => Body(ss[i]) = Body(ss[j])

\* Restoring the order works whenever there is one to restore: if steps that share a
\* name are copies and no cycle is reported, nothing is listed before what it consumes.
OrderIsRestored ==
  (Returned /\ ClashesAreCopies(broken_plan.steps) /\ DEP_CYCLE \notin Reported)
    => OrderingErrors(steps) = {}

\* "keeping the original relative order wherever the dependencies allow it": of
\* all the orders that list a step after what it waits for, the loop builds the
\* first one, comparing place by place.
InOrder(order) ==
  \A k \in DOMAIN order :
    Waiting(steps, steps[order[k]].id) \subseteq {steps[order[m]].id : m \in 1 .. k - 1}

LeastOrder ==
  (pc = "emit" /\ Remaining = {}) =>
    /\ InOrder(emitted)
    /\ \A order \in [DOMAIN steps -> DOMAIN steps] :
         (IsInjective(order) /\ InOrder(order) /\ order # emitted) =>
           \E k \in DOMAIN order : /\ emitted[k] < order[k]
                                   /\ \A m \in 1 .. k - 1 : emitted[m] = order[m]
=============================================================================
