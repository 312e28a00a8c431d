\* repair() returns: there is no step after it.
CHECK_DEADLOCK FALSE
SPECIFICATION MCSpec
CONSTANTS
  StepId = {"a", "b", "c", "d", "g"}
  Tool = {"t1", "t2", "t3", "gone"}
  Argument = {"full", "blank"}
  BlankArgument = {"blank"}
  Tag = {"ev"}
  Available = {"t1", "t2", "t3"}
  RequiredEvidence = {"ev"}
  RequiredOperation = {}
INVARIANTS WorkSurvives DeclinedErrorsStay OrderIsRestored LeastOrder
