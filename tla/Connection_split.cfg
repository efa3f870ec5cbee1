\* One request that arrives in pieces.
SPECIFICATION Spec
CONSTANTS
  BufSize = 90
  Streams <- OneGet
  Segments = "anywhere"
INVARIANTS
  NoSilentDrop
CHECK_DEADLOCK FALSE
