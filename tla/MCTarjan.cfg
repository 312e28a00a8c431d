\* _cyclic_components returns: there is no step after it.
CHECK_DEADLOCK FALSE
SPECIFICATION MCSpec
CONSTANTS
  StepId = {"a", "b", "c", "d"}
  Tool = {"t1"}
  Argument = {"full"}
  BlankArgument = {}
  Tag = {"ev"}
  Available = {"t1"}
  RequiredEvidence = {}
  RequiredOperation = {}
INVARIANTS ReportsEveryCycleOnce
