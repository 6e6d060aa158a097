CONSTANTS
  k1 = k1
  k2 = k2
  v1 = v1
  v2 = v2
  Key <- MCKey
  Val <- MCVal
  SeedRows <- MCSeedRows
  Results <- MCResults
  Indexes = TRUE
  MaxAttempts = 3
  MaxRuns = 2
SPECIFICATION FairSpec
INVARIANTS
  TypeOK
  RetrySafe
  AppendedWhole
  DriftStopsWrite
PROPERTIES
  KeepsContract
  AttemptEnds
CHECK_DEADLOCK FALSE
