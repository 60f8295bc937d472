\* A chunked message as clients send it, without a length.
SPECIFICATION Spec
CONSTANTS
  Digit <- SmallNumbers
  Messages <- ChunkedMessages
  MaxContentLength = 3
  MaxMessages = 1
INVARIANTS
  FinalChunkEndsRequest
CHECK_DEADLOCK FALSE
