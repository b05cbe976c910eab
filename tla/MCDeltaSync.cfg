CONSTANTS
  Byte = {0, 3, 4}
  MaxLen = 4
  DefaultBlockSize = 2
  Modulus = 4
  Word = 16
  Strong <- MCStrong
SPECIFICATION FairSpec
INVARIANTS TypeOK RollingIsFresh NoMissedMatch
PROPERTIES ImplementsExchange Terminates
CHECK_DEADLOCK FALSE
