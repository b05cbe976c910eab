CONSTANTS
  a = a  b = b  c = c
  None = None
  n1 = n1 n2 = n2 n3 = n3 n4 = n4
  Inode = {n1, n2, n3}
  Path <- MCPair
  Content <- MCContent
  Entries <- MCPairEntries
  Links <- MCLinks
  Options <- MCDirOptions
  MaxFaults = 2
SPECIFICATION Spec
INVARIANT PartialConsumed
