\* After the last repair (MaxAsked is a bound) nothing is asked any more.
CHECK_DEADLOCK FALSE
SPECIFICATION AutoregressiveSpec
CONSTANTS
  DEFAULT_MAX_OUTPUT_TOKENS = 4
  MAX_OUTPUT_TOKENS_CEILING = 5
  Budgets <- MCBudgets
  Arguments <- MCArguments
  Shapes = {"plan", "text", "empty", "no_choices"}
  MaxAsked = 3
INVARIANTS BudgetIsAsAsked EmptyIsExplained
PROPERTIES ImplementsContract
