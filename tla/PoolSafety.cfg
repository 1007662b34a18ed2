SPECIFICATION Spec
CONSTANTS
  s1 = s1
  s2 = s2
  s3 = s3
  s4 = s4
  Servers = {s1, s2, s3, s4}
  MinServers = 1
  MaxServers = 3
  MaxQDepth = 1
  CycleMaxThrottles = 1
  PollBatch = 2
  SizeBits = 2
  MaxWork = 4
  MaxDeaths = 2
SYMMETRY Symmetry
CHECK_DEADLOCK FALSE
INVARIANTS
  TypeOK
  ThreadsListed
  OneStopPerPass
  PoolLimit
