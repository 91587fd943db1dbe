SPECIFICATION FairSpec
CONSTANTS
  c1 = c1
  c2 = c2
  p1 = p1
  p2 = p2
  Completes <- MCCompletes
  Chunks <- MCChunks
  Total = 2
  Stale = 2
  Idle = 3
  Requests = 4
  Faults = {"api", "worker", "renew", "db", "lost", "disk", "sweep"}
  MaxFaults = 1
CHECK_DEADLOCK FALSE
INVARIANTS RowIsTrue
PROPERTIES CompleteIsFinal ExclusiveSession SessionSettles
