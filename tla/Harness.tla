------------------------------ MODULE Harness ------------------------------
(***************************************************************************)
(* The measuring loop around the repairers that are plain code: a plan     *)
(* corrupted by Injection is validated, handed to a repairer, and what     *)
(* comes back is scored against the reference.                             *)
(***************************************************************************)
EXTENDS Injection, DeterministicRepair

VARIABLES
  repairer,     \* which repairer was asked
  score,        \* the RepairScore, once there is one
  stage         \* "inject", "repair", "scored"
harnessVars == <<injectionVars, repairVars, repairer, score, stage>>

Measure(p) ==
  /\ Intact(p) /\ Call(p)
  /\ repairer = "none" /\ score = <<>>
  /\ stage = "inject"

\* Only plans that are valid and run are corrupted.
HarnessInit == \E p \in AgentPlan : Valid(p) /\ Runs(p) /\ Measure(p)

Corrupt ==
  /\ stage = "inject"
  /\ Inject \/ InjectAlone
  /\ UNCHANGED <<repairVars, repairer, score, stage>>

\* repair_and_score validates the broken plan and calls the repairer.
Submit ==
  /\ stage = "inject" /\ injected # <<>>
  /\ stage' = "repair"
  /\ broken_plan' = broken
  /\ errors' = Errors(broken)
  /\ \/ repairer' = "deterministic" /\ plan' = broken /\ pc' = "duplicates"
     \/ repairer' = "identity" /\ plan' = broken /\ pc' = "done"
     \/ repairer' = "oracle" /\ plan' = reference /\ pc' = "done"
  /\ emitted' = <<>>
  /\ UNCHANGED <<injectionVars, score>>

Repair ==
  /\ stage = "repair"
  /\ RepairNext
  /\ UNCHANGED <<injectionVars, repairer, score, stage>>

TakeScore ==
  /\ stage = "repair" /\ Returned
  /\ score' = Score(reference, broken, plan, Damaged)
  /\ stage' = "scored"
  /\ UNCHANGED <<injectionVars, repairVars, repairer>>

HarnessNext == Corrupt \/ Submit \/ Repair \/ TakeScore
HarnessSpec == HarnessInit /\ [][HarnessNext]_harnessVars

-----------------------------------------------------------------------------
Corrupted == stage = "repair" /\ repairer = "identity"

\* "Whatever the injector claims to have damaged must be reported by the validator
\* at step/path level": for one corruption of a valid plan, all of it is.
DamageIsReported ==
  (Corrupted /\ Single) =>
    /\ Damaged \subseteq DetectedStepIds(errors)
    /\ DamagedPaths \subseteq DetectedPaths(errors)

\* "Neither operation is allowed to create an ordering violation": no broken
\* dependency and no deletion, alone, makes a step precede what it consumes.
InjectorsCreateNoOrdering ==
  (Corrupted /\ Single /\ Types \subseteq {BROKEN_DEPENDENCY, STEP_DELETION, DROP_REQUIRED_STEP})
    => ORDERING \notin Reported

\* The ground truth of the combination: a step it calls preserved is still there,
\* once, and does what the reference's step of that name does.
PreservedIsIntact ==
  Corrupted => Preserved \subseteq InScope(reference, broken, Damaged)

\* The rule-based repairer neither rewrites nor loses the work of a healthy step.
\* A damaged step can become the twin of a healthy one, which then goes as the later
\* copy; but for a reference that closes a cycle it takes two corruptions for that.
NoHealthyStepIsHarmed ==
  (stage = "scored" /\ repairer = "deterministic") =>
    /\ score.modified = {} /\ score.removed = {}
    /\ (Single /\ DEP_CYCLE \notin Reported) => score.renamed = {}

\* What needs no judgement is solved outright: order, a fresh copy and the stop
\* condition come back valid, running, and with every step of the reference.
MechanicalFaultsAreSolved ==
  (stage = "scored" /\ repairer = "deterministic" /\ alone = FALSE
     /\ Types \subseteq {WRONG_ORDERING, DUPLICATE_STEP, MISSING_STOP_CONDITION})
  => /\ Solved(score) /\ score.added = {}
     /\ ToSet(plan.steps) = ToSet(reference.steps)
     /\ Len(plan.steps) = Len(reference.steps)

\* A plan the rules were given without an unknown tool or a cycle runs to its end
\* once they are done, even where it is not the plan it used to be, unless a copy they
\* dropped is consumed under its own name: its consumers then wait for nobody.
Lost == Known(broken) \ Known(plan)

RepairedPlanRuns ==
  (stage = "scored" /\ repairer = "deterministic" /\ plan.steps # <<>>
     /\ Reported \cap {UNKNOWN_TOOL, DEP_CYCLE} = {}
     /\ \A k \in DOMAIN broken.steps : broken.steps[k].input_from \cap Lost = {})
  => score.runtime_succeeded

\* The same promise about ordering, of a combination of the two operations.
CombinationsCreateNoOrdering ==
  (Corrupted /\ Types \subseteq {BROKEN_DEPENDENCY, STEP_DELETION}) => ORDERING \notin Reported
=============================================================================
