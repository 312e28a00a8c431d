SPECIFICATION Spec
CONSTANTS
  Case = {"dream", "llada", "ar_full"}
  Cases <- MCCases
  Hopeless = {"dream"}
  Dir = {"run1", "run2"}
  Limits = {1, 2, 3}
  MaxCrashes = 1
PROPERTIES RerunsReachEveryCase
