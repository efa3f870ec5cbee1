\* Two files with three versions each;
\* up to two headers; a socket that holds less than a response.
SPECIFICATION FairSpec
CONSTANTS
  Headers = {h1, h2}
  ListHead = ListHead
  Nil = Nil
  Junk = Junk
  Files = {index, page}
  Index = index
  MaxVersion = 3
  Mtime <- Dated
  Size <- Sized
  PageSize = 2
  HeaderLen = 2
  ErrorLen = 1
  SendBuffer = 3
  Faults = {"open"}
INVARIANTS
  TypeOK
  RingIsSound
  InFrame
  BodyIsAsDated
  HeadersAllHandled
  NotModifiedIsTrue
PROPERTIES
  Answered
CHECK_DEADLOCK FALSE
