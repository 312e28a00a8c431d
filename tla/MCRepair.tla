------------------------------ MODULE MCRepair ------------------------------
(* The rule-based repair of every small broken plan of SamplePlans. *)
EXTENDS DeterministicRepair, SamplePlans

MCInit == \E p \in RepairPlans : Call(p)
MCSpec == MCInit /\ [][RepairNext]_repairVars
=============================================================================
