CONSTANTS
  k1 = k1
  k2 = k2
  v1 = v1
  v2 = v2
  Key <- MCKey
  Val <- MCVal
  SeedRows <- MCSeedRows
  Results <- MCResults
  MaxAttempts = 3
SPECIFICATION Spec
INVARIANTS
  TypeOK
  RetrySafe
  NeverPartial
  RowsNeverLost
  CleanAttemptLeavesNothing
PROPERTIES
  KeepsContract
CHECK_DEADLOCK FALSE
