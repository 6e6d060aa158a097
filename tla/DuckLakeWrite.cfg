CONSTANTS
  k1 = k1
  k2 = k2
  v1 = v1
  v2 = v2
  Key <- MCKey
  Val <- MCVal
  SeedRows <- MCSeedRows
  Results <- MCResults
  ConflictAttempts = 2
  MaxAttempts = 2
  MaxRivals = 2
SPECIFICATION Spec
INVARIANTS
  TypeOK
  TransactionEnds
  LayoutComesWithTheTable
PROPERTIES
  KeepsContract
  RaceLosersSucceed
CHECK_DEADLOCK FALSE
