CONSTANTS
  Addresses = 2
  ConnectAttempts = 5
  MaxReads = 2
SPECIFICATION Spec
INVARIANTS
  TypeOK
  BlockAgreesWithExit
  GateHolds
  NothingLeaks
  AtMostOneTimeout
CHECK_DEADLOCK FALSE
