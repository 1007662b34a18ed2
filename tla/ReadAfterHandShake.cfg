SPECIFICATION Spec
CONSTANTS
  f1 = f1
  f2 = f2
  s1 = s1
  s2 = s2
  Fds = {f1, f2}
  Servers = {s1, s2}
  NoFd = NoFd
  MinServers = 1
  MaxServers = 2
  MaxConnections = 2
  PollBatch = 3
  MaxBacklog = 1
  MaxThrows = 1
  MaxErrors = 0
SYMMETRY Symmetry
INVARIANTS
  ReadAfterHandShake
