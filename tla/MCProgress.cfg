CONSTANTS
  Capacity = 2
  Transfers <- MCTransfers
SPECIFICATION FairSpec
INVARIANTS TypeOK PrintedAtReturn TransferNeverWaits
PROPERTY Returns
CHECK_DEADLOCK FALSE
