------------------------------ MODULE Runtime ------------------------------
(***************************************************************************)
(* run_plan: passes over a snapshot of the pending steps, in list order,   *)
(* settling each step whose verdict is known, until a pass settles nothing.*)
(***************************************************************************)
EXTENDS StepRules

VARIABLES
  plan,         \* the argument
  decided,      \* index -> Verdict; "undecided" while the index is pending
  reasons,      \* index -> why it failed
  queue,        \* what is left of this pass's snapshot list(pending)
  progressed,   \* whether this pass has settled a step
  pc            \* "loop" at while pending, "pass" inside the for, "drain", "done"
vars == <<plan, decided, reasons, queue, progressed, pc>>

steps == plan.steps
Pending == {i \in DOMAIN steps : decided[i] = "undecided"}

TypeOK ==
  /\ plan \in AgentPlan
  /\ decided \in [DOMAIN steps -> Verdict]
  /\ reasons \in [DOMAIN steps -> Reason \cup {NoReason}]
  /\ queue \in SUBSET Pending
  /\ pc # "pass" => queue = {}
  /\ progressed \in BOOLEAN
  /\ pc \in {"loop", "pass", "drain", "done"}

Start ==
  /\ decided = [i \in DOMAIN steps |-> "undecided"]
  /\ reasons = [i \in DOMAIN steps |-> NoReason]
  /\ queue = {}
  /\ progressed = FALSE
  /\ pc = "loop"

\* run_plan is handed any plan at all.
Init == plan \in AgentPlan /\ Start

BeginPass ==
  /\ pc = "loop" /\ Pending # {}
  /\ queue' = Pending
  /\ progressed' = FALSE
  /\ pc' = "pass"
  /\ UNCHANGED <<plan, decided, reasons>>

\* The for loop has reached the index i.
Visits(i) == pc = "pass" /\ i \in queue /\ \A j \in queue : i <= j

\* Mutant: the settled index stays in the snapshot.
SettleAndKeep(i, verdict, reason) ==
  /\ decided' = [decided EXCEPT ![i] = verdict]
  /\ reasons' = [reasons EXCEPT ![i] = reason]
  /\ progressed' = TRUE
  /\ UNCHANGED <<plan, queue, pc>>

Settle(i, verdict, reason) ==
  /\ decided' = [decided EXCEPT ![i] = verdict]
  /\ reasons' = [reasons EXCEPT ![i] = reason]
  /\ queue' = queue \ {i}
  /\ progressed' = TRUE
  /\ UNCHANGED <<plan, pc>>

FailLocally(i) ==
  /\ Visits(i)
  /\ LocalFailure(steps[i]) # NoReason
  /\ Settle(i, "failed", LocalFailure(steps[i]))

FailUnknownDependency(i) ==
  /\ Visits(i)
  /\ LocalFailure(steps[i]) = NoReason
  /\ MissingDeps(steps, i) # {}
  /\ Settle(i, "failed", UNKNOWN_DEPENDENCY)

\* Past the two checks a step is judged by its predecessors.
Judged(i) == Visits(i) /\ LocalFailure(steps[i]) = NoReason /\ MissingDeps(steps, i) = {}

Revisit(i) ==
  /\ Judged(i)
  /\ Waits(steps, decided, i)
  /\ queue' = queue \ {i}
  /\ UNCHANGED <<plan, decided, reasons, progressed, pc>>

Succeed(i) ==
  /\ Judged(i)
  /\ ~Waits(steps, decided, i)
  /\ Supplied(steps, decided, i)
  /\ Settle(i, "succeeded", NoReason)

FailDependency(i) ==
  /\ Judged(i)
  /\ ~Waits(steps, decided, i)
  /\ ~Supplied(steps, decided, i)
  /\ Settle(i, "failed", FAILED_DEPENDENCY)

\* Mutant: one pass over the list is taken to be enough.
EndOnlyPass ==
  /\ pc = "pass" /\ queue = {}
  /\ pc' = "drain"
  /\ UNCHANGED <<plan, decided, reasons, queue, progressed>>

\* Mutant: no break after a pass that settled nothing.
EndWithoutBreak ==
  /\ pc = "pass" /\ queue = {}
  /\ pc' = "loop"
  /\ UNCHANGED <<plan, decided, reasons, queue, progressed>>

EndPass ==
  /\ pc = "pass" /\ queue = {}
  /\ pc' = IF progressed THEN "loop" ELSE "drain"
  /\ UNCHANGED <<plan, decided, reasons, queue, progressed>>

\* After the loop: by its condition, or by the break.
Drain ==
  /\ pc = "drain" \/ (pc = "loop" /\ Pending = {})
  /\ decided' = [i \in DOMAIN steps |-> IF i \in Pending THEN "failed" ELSE decided[i]]
  /\ reasons' = [i \in DOMAIN steps |-> IF i \in Pending THEN UNRESOLVABLE ELSE reasons[i]]
  /\ pc' = "done"
  /\ UNCHANGED <<plan, queue, progressed>>

Next ==
  \/ BeginPass \/ EndPass \/ Drain
  \/ \E i \in DOMAIN steps :
       \/ FailLocally(i) \/ FailUnknownDependency(i) \/ Revisit(i)
       \/ Succeed(i) \/ FailDependency(i)

Spec == Init /\ [][Next]_vars

\* run_plan is one sequential call: it is not interrupted.
Fairness == WF_vars(Next)

-----------------------------------------------------------------------------
(***************************************************************************)
(* The result, and the static verdict beside it.                           *)
(***************************************************************************)
StopReached == steps # <<>> /\ decided[Len(steps)] = "succeeded"
RunSucceeded == (\A i \in DOMAIN steps : decided[i] = "succeeded") /\ StopReached

Agreement ==
  CASE Valid(plan) <=> RunSucceeded -> "agree"
    [] Valid(plan) /\ ~RunSucceeded -> "validator_missed"
    [] ~Valid(plan) /\ RunSucceeded -> "validator_stricter"

\* The order-free execution this one implements.
Flow == INSTANCE Dataflow WITH finished <- (pc = "done")

\* run_plan decides steps exactly as the order-free execution allows, and gives
\* up on a step only when no step at all can still be decided.
ImplementsDataflow == Flow!Spec

\* run_plan's module docstring says the list order of steps does not affect the
\* outcome: whatever the passes came to first, every step ends with the one verdict
\* and reason that its dependencies alone determine.
OutcomeIsOrderFree == Flow!OutcomeIsOrderFree

\* The pass that breaks the loop (`if not progressed: break`) has looked at every
\* pending step and settled none, so none of them can ever be settled: the
\* verdict a pass relies on is not stale when the loop gives up.
StalledPassIsFinal ==
  pc = "drain" => \A i \in Pending :
    /\ LocalFailure(steps[i]) = NoReason /\ MissingDeps(steps, i) = {}
    /\ Waits(steps, decided, i)

\* The static verdict is a promise about execution, and these are its only blind spots:
\* a plan the validator passes runs to the end just when it has a step at all (an empty
\* plan is valid for a task that requires nothing, and reaches no stop condition) and
\* none of its arguments is blank (which no static check looks at).
ValidPlanRuns ==
  (pc = "done" /\ Valid(plan))
  => (RunSucceeded <=> /\ steps # <<>>
                       /\ \A i \in DOMAIN steps : steps[i].arguments \notin BlankArgument)

\* The ordering and cycle checks mean that list order is execution order: run_plan
\* never has to come back to a step of a valid plan.
ValidPlanNeverRevisits ==
  Valid(plan) => \A i \in DOMAIN steps : Judged(i) => ~Waits(steps, decided, i)

\* Where the two judges disagree the other way, the plan that ran fine was
\* rejected for its order, its redundancy or its coverage, never for a tool, a
\* reference or a cycle.
RunRefutesHardErrors ==
  (pc = "done" /\ Agreement = "validator_stricter") =>
    ErrorTypes(Errors(plan)) \cap {UNKNOWN_TOOL, UNKNOWN_DEPENDENCY, DEP_CYCLE} = {}

\* run_plan returns on every plan, cyclic ones included.
Returns == <>(pc = "done")
=============================================================================
