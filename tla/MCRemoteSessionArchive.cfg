CONSTANTS
  f = f  g = g
  Path <- MCPath
  Jobs <- MCArchive
  Capacity = 2
SPECIFICATION Spec
INVARIANT AttributesKept
CHECK_DEADLOCK FALSE
