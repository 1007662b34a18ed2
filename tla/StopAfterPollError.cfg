SPECIFICATION FairSpec
CONSTANTS
  f1 = f1
  f2 = f2
  s1 = s1
  Fds = {f1, f2}
  Servers = {s1}
  NoFd = NoFd
  MinServers = 1
  MaxServers = 1
  MaxConnections = 2
  PollBatch = 3
  MaxBacklog = 1
  MaxThrows = 0
  MaxErrors = 1
CHECK_DEADLOCK FALSE
PROPERTIES
  StopFinishes
