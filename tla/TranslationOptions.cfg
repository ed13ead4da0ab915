CONSTANTS
  Starts <- MCStarts
  Digits = {"7"}
  UnknownScore <- MCUnknownScore
SPECIFICATION Spec
INVARIANTS
  MarkupRead
  OptionsOfTables
  FutureCostExact
PROPERTIES
  LimitsDropWorst
CHECK_DEADLOCK FALSE
