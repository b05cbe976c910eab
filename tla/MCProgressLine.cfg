CONSTANTS
  Capacity = 2
  Transfers <- MCTransfers
SPECIFICATION Spec
INVARIANT EveryFileHasLine
CHECK_DEADLOCK FALSE
