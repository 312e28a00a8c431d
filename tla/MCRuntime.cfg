\* run_plan returns: there is no step after it.
CHECK_DEADLOCK FALSE
SPECIFICATION MCSpec
CONSTANTS
  StepId = {"a", "b", "c", "g"}
  Tool = {"t1", "t2", "t3", "gone"}
  Argument = {"full", "blank"}
  BlankArgument = {"blank"}
  Tag = {"ev"}
  Available = {"t1", "t2", "t3"}
  RequiredEvidence = {}
  RequiredOperation = {}
INVARIANTS TypeOK ValidPlanRuns ValidPlanNeverRevisits RunRefutesHardErrors OutcomeIsOrderFree
PROPERTIES ImplementsDataflow Returns
