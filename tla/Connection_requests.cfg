\* Clients that wait for each answer and clients that do not; no request crosses
\* the end of the ring, none is split in its headers.
SPECIFICATION FairSpec
CONSTANTS
  BufSize = 90
  Streams <- RequestStreams
  Segments = "line"
INVARIANTS
  AnsweredInOrder
PROPERTIES
  ImplementsDialogue
  AllAnswered
CHECK_DEADLOCK FALSE
