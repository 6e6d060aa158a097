CONSTANTS
  a = a
  A = A
  b = b
  ProbeBytes = 2
  MaxHeader = 4
  MaxSize = 7
  Fold <- MCFold
  Contracts <- MCContracts
  Headers <- MCHeaders
  Scripts <- MCScripts
  LiveTables <- MCLiveTables
SPECIFICATION NodeSpec
INVARIANTS
  NodeTypeOK
  HeaderWhole
  GateMatchesRun
  WrittenIsDeclared
  DriftIsSeen
CHECK_DEADLOCK FALSE
