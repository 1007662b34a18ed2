SPECIFICATION Spec
CONSTANTS
  s1 = s1
  s2 = s2
  s3 = s3
  Servers = {s1, s2, s3}
  MinServers = 2
  MaxServers = 3
  MaxQDepth = 1
  CycleMaxThrottles = 1
  PollBatch = 2
  SizeBits = 2
  MaxWork = 4
  MaxDeaths = 0
SYMMETRY Symmetry
INVARIANTS
  MinServersHonoured
