CONSTANTS
  orders = orders
  rates = rates
  missing = missing
  Reads <- MCReads
  Names <- MCNames
  MaxWorld = 2
SPECIFICATION Spec
INVARIANTS
  TypeOK
  ReportAgrees
  ErrorClassTellsTheTable
  RejectedBeforeItCosts
  RepeatableReads
  AdapterClosedOnce
CHECK_DEADLOCK FALSE
