SPECIFICATION Spec
CONSTANTS
  s1 = s1
  s2 = s2
  Servers = {s1, s2}
  MinServers = 1
  MaxServers = 1
  MaxQDepth = 1
  CycleMaxThrottles = 1
  PollBatch = 1
  SizeBits = 2
  MaxWork = 1
  MaxDeaths = 1
SYMMETRY Symmetry
INVARIANTS
  InitServerLives
