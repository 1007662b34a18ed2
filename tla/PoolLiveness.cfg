SPECIFICATION FairSpec
CONSTANTS
  s1 = s1
  s2 = s2
  s3 = s3
  Servers = {s1, s2, s3}
  MinServers = 1
  MaxServers = 2
  MaxQDepth = 1
  CycleMaxThrottles = 1
  PollBatch = 1
  SizeBits = 2
  MaxWork = 2
  MaxDeaths = 1
CHECK_DEADLOCK FALSE
PROPERTIES
  WorkIsTaken
  StopJoinsServers
  KeepsPolling
  PoolRecovers
  StoppedAreDeleted
