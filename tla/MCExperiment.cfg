\* After the last session (MaxSessions is a bound) nothing happens any more.
CHECK_DEADLOCK FALSE
SPECIFICATION Spec
CONSTANTS
  Case = {"llada", "ar_full"}
  Cases <- MCCases
  Hopeless = {}
  Matrix = {"llada", "ar_full"}
  Kind <- MCKind
  Dir = {"run1", "run2"}
  Arrays <- MCArrays
  Limits = {1, 2}
  MaxSessions = 2
  MaxCrashes = 1
INVARIANTS TornFilesAreCrashes CleanSessionSkipsNothing MeasuredMeansAnswered
PROPERTIES ResultsChangeOnlyByForce ImplementsBatch
