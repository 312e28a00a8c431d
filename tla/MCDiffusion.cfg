\* A measurement ends with its score: there is no step after it.
CHECK_DEADLOCK FALSE
SPECIFICATION MCSpec
CONSTANTS
  StepId = {"a", "b", "c", "a.tool", "a_x", "b_x", "c_x", "a_dup", "b_dup", "c_dup", "ev", "op", ""}
  Tool = {"t1", "t2", "gone", "odd", "t1_db"}
  Argument = {"full", "blank"}
  BlankArgument = {"blank"}
  Tag = {"ev", "op"}
  Available = {"t1", "t2"}
  RequiredEvidence = {"ev"}
  RequiredOperation = {"op"}
  Blank = ""
  Ratio <- MCRatio
  FieldKey <- MCFieldKey
  Guesses <- MCGuesses
  UnknownNames <- MCUnknownNames
  CopyNames <- MCCopyNames
  TokenLength <- MCTokenLength
  MaxCorruptions = 2
  MaxModelCorruptions = 1
  MaxModelSpans = 2
  Letters = {"a"}
  MaxName = 2
INVARIANTS OnlyTheMaskChanges MaskFitsDamage OracleRestores SnapNeverDisorders ResultIsExpected PathsReadBack
