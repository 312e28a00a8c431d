------------------------------ MODULE Scoring ------------------------------
(***************************************************************************)
(* score_repair: what became of the healthy steps, whether the plan is     *)
(* valid and whether it runs.                                              *)
(***************************************************************************)
EXTENDS StepRules

\* A name two steps wear has no body ("<ambiguous>"): it equals no step's.
Bodies(p) ==
  [id \in KnownIds(p.steps) |->
     {Body(p.steps[i]) : i \in {j \in At(p.steps, id) : Cardinality(At(p.steps, id)) = 1}}]

\* run_plan(...).succeeded, by the outcome its steps are bound to have.
Runs(p) == p.steps # <<>> /\ \A i \in DOMAIN p.steps : FinalReason(p.steps, i) = NoReason

\* Mutant: every undamaged step of the reference is charged to the repairer.
EveryHealthyStep(reference, broken, damaged) == KnownIds(reference.steps) \ damaged

\* What the repairer answers for: the healthy steps it received intact.
InScope(reference, broken, damaged) ==
  LET was == Bodies(reference)
      is == Bodies(broken)
  IN  {id \in DOMAIN was \ damaged : id \in DOMAIN is /\ is[id] = was[id]}

Score(reference, broken, repaired, damaged) ==
  LET was == Bodies(reference)
      now == Bodies(repaired)
      scope == InScope(reference, broken, damaged)
      surviving == {now[id] : id \in DOMAIN now}
      gone == scope \ DOMAIN now
      renamed == {id \in gone : was[id] \in surviving}
  IN  [modified |-> {id \in scope \cap DOMAIN now : now[id] # was[id]},
       renamed |-> renamed,
       removed |-> gone \ renamed,
       added |-> {id \in DOMAIN now \ DOMAIN was : now[id] \notin {was[r] : r \in renamed}},
       restored |-> {id \in damaged \cap DOMAIN now \cap DOMAIN was : now[id] = was[id]},
       valid |-> Valid(repaired),
       runtime_succeeded |-> Runs(repaired)]

Solved(score) == score.valid /\ score.runtime_succeeded
Collateral(score) == score.modified \cup score.renamed \cup score.removed
=============================================================================
