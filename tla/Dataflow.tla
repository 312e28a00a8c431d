------------------------------ MODULE Dataflow ------------------------------
(***************************************************************************)
(* What running a plan promises: execution is driven by the dependencies   *)
(* alone.  Any step whose verdict can be reached may be decided next, in   *)
(* any order and at any pace; when none can, whatever is left fails as     *)
(* unresolvable.  Runtime, which walks the list pass by pass, implements   *)
(* this.                                                                   *)
(***************************************************************************)
EXTENDS StepRules

VARIABLES plan, decided, reasons, finished
vars == <<plan, decided, reasons, finished>>

Undecided(i) == decided[i] = "undecided"

\* The step at i can be judged now.
Decidable(i) ==
  /\ Undecided(i)
  /\ OwnFailure(plan.steps, i) # NoReason \/ ~Waits(plan.steps, decided, i)

Start ==
  /\ decided = [i \in DOMAIN plan.steps |-> "undecided"]
  /\ reasons = [i \in DOMAIN plan.steps |-> NoReason]
  /\ finished = FALSE

Init == plan \in AgentPlan /\ Start

Decide(i) ==
  /\ Decidable(i)
  /\ LET own == OwnFailure(plan.steps, i)
         why == IF own # NoReason THEN own
                ELSE IF Supplied(plan.steps, decided, i) THEN NoReason
                ELSE FAILED_DEPENDENCY
     IN  /\ decided' = [decided EXCEPT ![i] = IF why = NoReason THEN "succeeded" ELSE "failed"]
         /\ reasons' = [reasons EXCEPT ![i] = why]
  /\ UNCHANGED <<plan, finished>>

Finish ==
  /\ ~finished
  /\ \A i \in DOMAIN plan.steps : ~Decidable(i)
  /\ decided' = [i \in DOMAIN plan.steps |-> IF Undecided(i) THEN "failed" ELSE decided[i]]
  /\ reasons' = [i \in DOMAIN plan.steps |-> IF Undecided(i) THEN UNRESOLVABLE ELSE reasons[i]]
  /\ finished' = TRUE
  /\ UNCHANGED plan

Next == Finish \/ \E i \in DOMAIN plan.steps : Decide(i)

Spec == Init /\ [][Next]_vars

-----------------------------------------------------------------------------
\* run_plan's module docstring: the list order of steps does not affect the
\* outcome.  Whatever order steps were decided in, every step ends with the
\* one verdict and reason that its dependencies alone determine.
OutcomeIsOrderFree ==
  finished => \A i \in DOMAIN plan.steps :
     /\ reasons[i] = FinalReason(plan.steps, i)
     /\ decided[i] = IF FinalReason(plan.steps, i) = NoReason THEN "succeeded" ELSE "failed"
=============================================================================
