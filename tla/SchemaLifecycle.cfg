CONSTANTS
  a = a
  b = b
  NoOne = NoOne
  Container <- MCContainer
  ConflictAttempts = 2
  MaxDrops = 1
SPECIFICATION FairSpec
INVARIANTS
  TypeOK
  LockSerializes
  EnsuredWasPresent
  RaceIsNoFailure
PROPERTIES
  RebuildIsAtomic
  ContainersEnd
CHECK_DEADLOCK FALSE
