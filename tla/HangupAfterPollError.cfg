SPECIFICATION FairSpec
CONSTANTS
  f1 = f1
  s1 = s1
  s2 = s2
  Fds = {f1}
  Servers = {s1, s2}
  NoFd = NoFd
  MinServers = 2
  MaxServers = 2
  MaxConnections = 1
  PollBatch = 2
  MaxBacklog = 1
  MaxThrows = 0
  MaxErrors = 1
PROPERTIES
  HangupCloses
