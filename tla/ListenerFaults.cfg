SPECIFICATION Spec
CONSTANTS
  f1 = f1
  f2 = f2
  f3 = f3
  s1 = s1
  s2 = s2
  Fds = {f1, f2, f3}
  Servers = {s1, s2}
  NoFd = NoFd
  MinServers = 2
  MaxServers = 2
  MaxConnections = 2
  PollBatch = 3
  MaxBacklog = 1
  MaxThrows = 0
  MaxErrors = 1
SYMMETRY Symmetry
INVARIANTS
  SingleOwner
  NotForgotten
  PendingWork
  DrainedBeforeStop
  ConnectionLimit
PROPERTIES
  ImplementsConnection
