\* Liveness: two connections, one descriptor each, no faults, all events fetched.
SPECIFICATION FairSpec
CONSTANTS
  Conns = {c1, c2}
  Listener = Listener
  Fds = {f1, f2}
  NoFd = NoFd
  MaxEvents = 3
  MaxRx = 2
  Faults = {}
PROPERTIES
  NoStarvation
  DescriptorReleased
  BacklogAccepted
CHECK_DEADLOCK FALSE
