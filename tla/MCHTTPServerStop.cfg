\* Three connections and five descriptors, which one script and the connections
\* use up: accept fails.
SPECIFICATION Spec
CONSTANTS
  NumFds = 5
  MaxConns = 3
  MaxBatch = 2
INVARIANTS
  StopReleasesDescriptors
CHECK_DEADLOCK FALSE
