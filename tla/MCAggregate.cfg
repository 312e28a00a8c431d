\* A report ends when its tables are printed, or with the file it cannot load.
CHECK_DEADLOCK FALSE
SPECIFICATION AggregateSpec
CONSTANTS
  REPAIRERS = {"llada", "ar_full"}
  DOMAINS = {"domain_a"}
  CORRUPTIONS = {"wrong_tool"}
  Kind <- MCKind
  Payload <- MCPayload
  MaxFiles = 2
  MaxEntries = 2
INVARIANTS NothingIsDropped MeasuredStandsAlone
