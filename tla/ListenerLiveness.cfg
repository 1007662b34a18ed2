SPECIFICATION FairSpec
CONSTANTS
  f1 = f1
  f2 = f2
  s1 = s1
  Fds = {f1, f2}
  Servers = {s1}
  NoFd = NoFd
  MinServers = 1
  MaxServers = 1
  MaxConnections = 1
  PollBatch = 2
  MaxBacklog = 1
  MaxThrows = 2
  MaxErrors = 0
INVARIANTS
  HandShakeFirst
PROPERTIES
  BacklogClears
  DataIsRead
  HangupCloses
  StopFinishes
  ImplementsFairConnection
