\* An error page is followed by another request.
SPECIFICATION Spec
CONSTANTS
  BufSize = 90
  Streams <- AfterNotFound
  Segments = "line"
PROPERTIES
  HeaderListEmptied
CHECK_DEADLOCK FALSE
