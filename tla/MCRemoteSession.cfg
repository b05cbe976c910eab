CONSTANTS
  f = f  g = g
  Path <- MCPath
  Jobs <- MCJobs
  Capacity = 2
SPECIFICATION FairSpec
INVARIANT HandshakeCause
PROPERTIES ImplementsCommand Terminates
CHECK_DEADLOCK FALSE
