\* The URI of the second request crosses the end of the ring.
SPECIFICATION Spec
CONSTANTS
  BufSize = 25
  Streams <- KeepThenDenied
  Segments = "line"
INVARIANTS
  AnsweredInOrder
CHECK_DEADLOCK FALSE
