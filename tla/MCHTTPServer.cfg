\* Two connections and seven descriptors: two scripts at a time, a closed
\* descriptor that lives on in the other script, and a number given back by a
\* pipe that becomes a client's socket or the only entry of the other script, which
\* may pass its limit in a busy loop.
SPECIFICATION LiveSpec
CONSTANTS
  NumFds = 7
  MaxConns = 2
  MaxBatch = 2
INVARIANTS
  UndefinedHasACause
  MapsAreRight
  BatchIsFresh
PROPERTIES
  OverdueCgiEnds
  SocketsAreNotStolen
CHECK_DEADLOCK FALSE
