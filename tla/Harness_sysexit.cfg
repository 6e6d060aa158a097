CONSTANTS
  orders = orders
  rates = rates
  missing = missing
  Reads <- MCReads
  Names <- MCNames
  MaxWorld = 0
SPECIFICATION Spec
INVARIANTS
  ExactlyOneBlock
CHECK_DEADLOCK FALSE
