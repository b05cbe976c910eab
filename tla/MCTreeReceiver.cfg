CONSTANTS
  x = x  y = y
  Absent = Absent  DeepStar = DeepStar
  Name <- Star
  Order <- MCOrder
  Data <- MCData
  Target = {x, y}
  Time = {"t1", "t2"}
  Sources <- MCSources
  Dests <- MCDests
  Commands <- MCCommands
  MaxRuns = 2
SPECIFICATION Spec
INVARIANTS TypeOK Settled SameAsDryRun NothingLost StaysWritable
PROPERTY OnlyListed
