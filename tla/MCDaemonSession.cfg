CONSTANTS
  Config <- MCConfig
  Secrets = {"ann", "eve"}
  Requests <- MCRequests
  Capacity = 2
SPECIFICATION FairSpec
INVARIANTS TypeOK OnlyPermittedWrites DoneMeansWritten InPhase RefusalReachesClient
PROPERTIES ImplementsCommand BothEnd
CHECK_DEADLOCK FALSE
