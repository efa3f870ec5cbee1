\* Three connections compete for two descriptors; events[] holds two entries.
SPECIFICATION Spec
CONSTANTS
  Conns = {c1, c2, c3}
  Listener = Listener
  Fds = {f1, f2}
  NoFd = NoFd
  MaxEvents = 2
  MaxRx = 1
  Faults = {"accept", "malloc", "epoll_add", "epoll_mod"}
SYMMETRY Symmetry
INVARIANTS
  TypeOK
  NoStaleEvent
  ExclusiveHandling
  NoLostEvent
  NoStrandedBacklog
  RequestsMatchSockets
CHECK_DEADLOCK FALSE
