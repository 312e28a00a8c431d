----------------------------- MODULE MCRuntime -----------------------------
(* run_plan on every small plan of SamplePlans. *)
EXTENDS Runtime, SamplePlans

MCInit == plan \in RunPlans /\ Start
MCSpec == MCInit /\ [][Next]_vars /\ Fairness
=============================================================================
