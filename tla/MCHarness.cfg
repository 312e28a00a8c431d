\* A measurement ends with its score: there is no step after it.
CHECK_DEADLOCK FALSE
SPECIFICATION MCSpec
CONSTANTS
  StepId = {"a", "b", "c", "d", "e", "f", "a_x", "b_x", "c_x", "d_x", "e_x", "a_dup", "b_dup", "c_dup", "d_dup", "e_dup", "f_dup"}
  Tool = {"t1", "t2", "gone", "odd"}
  Argument = {"full", "blank"}
  BlankArgument = {"blank"}
  Tag = {"ev", "op"}
  Available = {"t1", "t2"}
  RequiredEvidence = {"ev"}
  RequiredOperation = {"op"}
  UnknownNames <- MCUnknownNames
  CopyNames <- MCCopyNames
  TokenLength <- MCTokenLength
  MaxCorruptions = 2
INVARIANTS DamageIsReported InjectorsCreateNoOrdering PreservedIsIntact NoHealthyStepIsHarmed MechanicalFaultsAreSolved RepairedPlanRuns
