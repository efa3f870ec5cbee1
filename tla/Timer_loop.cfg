\* Two connections, up to four timer nodes in an array that grows and shrinks.
SPECIFICATION FairSpec
CONSTANTS
  Items = {n1, n2, n3, n4}
  Nil = Nil
  Size = 2
  Faults = {"resize", "node"}
  Requests = {q1, q2}
  Listener = Listener
  Timeouts = {1, 2}
  Horizon = 1
INVARIANTS
  TypeOK
  HeapOrder
  OneTimerEach
  SleepsToTheFirst
  OnlyLateEventsCrash
PROPERTIES
  ImplementsOrderedBag
  NotBeforeDue
  NobodyLingers
CHECK_DEADLOCK FALSE
