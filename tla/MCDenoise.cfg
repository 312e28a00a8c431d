\* fill returns: there is no step after it.
CHECK_DEADLOCK FALSE
SPECIFICATION Spec
CONSTANTS
  Steps = {"a", "b"}
  CharEnd <- MCCharEnd
  Separator = {1, 4, 7}
  Span <- MCSpan
  FieldValue <- MCFieldValue
  Cuts <- MCCuts
  MaskTexts <- MCMaskTexts
  Hints <- MCHints
  Budgets = {0, 1, 2, 3}
INVARIANTS HealthyTextUntouched PassesWithinBudget OwnTextRoundTrips
