\* The shortest way to a timer that calls a method of a null Cgi.
SPECIFICATION Spec
CONSTANTS
  NumFds = 5
  MaxConns = 1
  MaxBatch = 2
INVARIANTS
  TimerSurvives
CHECK_DEADLOCK FALSE
