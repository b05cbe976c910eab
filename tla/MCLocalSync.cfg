CONSTANTS
  d = d  f = f  g = g  h = h  l = l  p = p
  Path <- MCPath
  Jobs <- MCJobs
SPECIFICATION FairSpec
INVARIANTS InStep BatchWholeOrGone CauseReported
PROPERTIES ImplementsCommand Terminates
CHECK_DEADLOCK FALSE
