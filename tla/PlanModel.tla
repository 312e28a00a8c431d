----------------------------- MODULE PlanModel -----------------------------
(***************************************************************************)
(* The data the whole harness passes around: an agent plan is a list of    *)
(* steps, each one tool call wired to the steps it consumes.               *)
(*                                                                         *)
(* Two orders are kept apart, as the code keeps them apart: the list order *)
(* of the steps is data (a sequence), the order inside input_from and      *)
(* produces is not.  Both are sets, so these are the plans that name no    *)
(* dependency and no tag of one step twice: the code sorts either list     *)
(* but keeps repeats, and would take a step with [a, a] for another than   *)
(* one with [a].  The text of goal, of an argument value and of            *)
(* stop_condition is abstracted to what the checks can tell apart.         *)
(***************************************************************************)
EXTENDS Integers, Sequences, FiniteSets

CONSTANTS
  StepId,             \* names a step may carry, or refer to
  Tool,               \* names that can stand in a step's tool field
  Argument,           \* whole argument mappings, as values
  BlankArgument,      \* those of them that carry a blank string
  Tag,                \* names that can stand in produces
  Available,          \* the tools the task offers
  RequiredEvidence, RequiredOperation   \* what the task asks for

ASSUME PlanAssumption ==
  /\ BlankArgument \subseteq Argument
  /\ Available \subseteq Tool
  /\ RequiredEvidence \subseteq Tag
  /\ RequiredOperation \subseteq Tag

Step == [id : StepId, tool : Tool, arguments : Argument,
         input_from : SUBSET StepId, produces : SUBSET Tag]

\* None, a blank text, a text somebody wrote, the text the rules derive.
StopCondition == {"none", "blank", "stated", "derived"}

AgentPlan == [steps : Seq(Step), stop_condition : StopCondition]

\* What a step does, its name aside (step_body_hash compares exactly this).
Body(step) == [tool |-> step.tool, arguments |-> step.arguments,
               input_from |-> step.input_from, produces |-> step.produces]

KnownIds(steps) == {steps[i].id : i \in DOMAIN steps}

\* The indices of the steps that carry a name: more than one after a clash.
At(steps, id) == {i \in DOMAIN steps : steps[i].id = id}

\* A dict built over the steps keeps the last step of a name.
LastAt(steps, id) == CHOOSE i \in At(steps, id) : \A j \in At(steps, id) : j <= i

\* _find_step returns the first.
FirstAt(steps, id) == CHOOSE i \in At(steps, id) : \A j \in At(steps, id) : i <= j

UniqueIds(steps) == \A i, j \in DOMAIN steps : steps[i].id = steps[j].id => i = j

(***************************************************************************)
(* Paths: where in a plan (or in the task) an error is reported.           *)
(***************************************************************************)
StepPath(id)      == <<"step", id>>
ToolPath(id)      == <<"tool", id>>
InputFromPath(id) == <<"input_from", id>>
StopPath          == <<"stop_condition">>
EvidencePath(t)   == <<"evidence", t>>
OperationPath(t)  == <<"operation", t>>
=============================================================================
