\* Any segmentation, pipelining, a ring of 28 bytes that the stream wraps around.
SPECIFICATION Spec
CONSTANTS
  BufSize = 28
  Streams <- AnyStreams
  Segments = "anywhere"
INVARIANTS
  TypeOK
  RoomForRead
  UnreadIntact
  AnswersAreEarned
CHECK_DEADLOCK FALSE
