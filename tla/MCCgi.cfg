\* Safety, the exchange and liveness: the order of the real sizes, in miniature.
SPECIFICATION LiveSpec
CONSTANTS
  MaxBody = 3
  SmallBody = 1
  PipeCap = 2
  ReadChunk = 1
  MaxOut = 3
  TimeLimit = 1
  MaxTime = 2
CHECK_DEADLOCK FALSE
INVARIANTS
  GoodAnswerIsWhole
  ListensAfterClosingStdin
  NeverBlocksInRead
  NoScriptOutlivesItsAnswer
  FirstEdgeIsKept
  IInv
PROPERTIES
  AnswersOnce
  ImplementsExchange
  EventuallyAnswered
  EndedScriptIsAnswered
