CONSTANTS
  d = d  f = f  g = g  h = h  l = l  p = p
  Path <- MCPath
  Jobs <- MCFifoJobs
SPECIFICATION FairSpec
PROPERTY TerminatesWithFifo
CHECK_DEADLOCK FALSE
