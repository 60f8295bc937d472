SPECIFICATION Spec
CONSTANTS
  MaxBody = 3
  SmallBody = 1
  PipeCap = 2
  ReadChunk = 1
  MaxOut = 3
  TimeLimit = 1
  MaxTime = 2
CHECK_DEADLOCK FALSE
INVARIANT ServerNeverWaitsForScript
