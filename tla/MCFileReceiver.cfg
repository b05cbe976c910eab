CONSTANTS
  a = a  b = b  c = c
  None = None
  n1 = n1 n2 = n2 n3 = n3 n4 = n4
  Inode = {n1, n2, n3, n4}
  Path <- MCPath
  Content <- MCContent
  Entries <- MCEntries
  Links <- MCLinks
  Options <- MCOptions
  MaxFaults = 1
SPECIFICATION Spec
INVARIANTS TypeOK DoneMeansCopied GroupsLinked OwnAttributes PromiseKept
PROPERTIES NeverTorn NoWriteThrough DryRunPure
SYMMETRY Symmetry
