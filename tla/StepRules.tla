----------------------------- MODULE StepRules -----------------------------
(***************************************************************************)
(* The rules by which the runtime judges one step, on its own and against  *)
(* the verdicts already reached on the steps it consumes.  Nothing here    *)
(* depends on the order in which steps are looked at.                      *)
(***************************************************************************)
EXTENDS Validator

UNUSABLE_ARGUMENT == "unusable_argument"
FAILED_DEPENDENCY == "failed_dependency"
UNRESOLVABLE      == "unresolvable_dependency"
Reason == {UNKNOWN_TOOL, UNUSABLE_ARGUMENT, UNKNOWN_DEPENDENCY,
           FAILED_DEPENDENCY, UNRESOLVABLE}
NoReason == "none"

Verdict == {"undecided", "succeeded", "failed"}

\* Mutant: the tool is not compared with the ones the task offers.
FailureOfArguments(step) ==
  IF step.arguments \in BlankArgument THEN UNUSABLE_ARGUMENT ELSE NoReason

\* The failure a step carries on its own; the tool is looked at first.
LocalFailure(step) ==
  IF step.tool \notin Available THEN UNKNOWN_TOOL
  ELSE IF step.arguments \in BlankArgument THEN UNUSABLE_ARGUMENT
  ELSE NoReason

\* A step that fails whatever becomes of the others, and why.
OwnFailure(steps, i) ==
  IF LocalFailure(steps[i]) # NoReason THEN LocalFailure(steps[i])
  ELSE IF MissingDeps(steps, i) # {} THEN UNKNOWN_DEPENDENCY
  ELSE NoReason

\* Every step that wears a name the step at i consumes.
Suppliers(steps, i) == {j \in DOMAIN steps : steps[j].id \in steps[i].input_from}

\* Mutant: only suppliers listed earlier are waited for.
WaitsInListOrder(steps, decided, i) ==
  \E j \in Suppliers(steps, i) : j < i /\ decided[j] = "undecided"

\* state_of over all of input_from: None, True or False.
Waits(steps, decided, i)    == \E j \in Suppliers(steps, i) : decided[j] = "undecided"
Supplied(steps, decided, i) == \A j \in Suppliers(steps, i) : decided[j] = "succeeded"

(***************************************************************************)
(* The outcome, defined without executing anything.  A step waits for its  *)
(* suppliers unless it fails on its own; it can never be judged exactly    *)
(* when, following those waits, it reaches a step that waits for itself.   *)
(***************************************************************************)
WaitsFor(steps) ==
  [i \in DOMAIN steps |->
     IF OwnFailure(steps, i) = NoReason THEN Suppliers(steps, i) ELSE {}]

FinalReason(steps, i) ==
  LET waits == WaitsFor(steps)
      needed == {i} \cup Upstream(waits, i)
  IN  IF OwnFailure(steps, i) # NoReason THEN OwnFailure(steps, i)
      ELSE IF \E j \in needed : j \in Upstream(waits, j) THEN UNRESOLVABLE
      ELSE IF \E j \in needed : OwnFailure(steps, j) # NoReason THEN FAILED_DEPENDENCY
      ELSE NoReason
=============================================================================
