\* Two messages: a plain one of every kind, after one of every kind.
SPECIFICATION Spec
CONSTANTS
  Digit <- SmallNumbers
  Messages <- AllMessages
  MaxContentLength = 2
  MaxMessages = 2
INVARIANTS
  CompleteAtTheEnd
  LimitIsExact
  CutsMakeNoDifference
  ChunkedBodyIsAPrefix
CHECK_DEADLOCK FALSE
