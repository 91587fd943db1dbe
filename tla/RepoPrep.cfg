SPECIFICATION FairSpec
CONSTANTS
  first = first
  r1 = r1
  r2 = r2
  x1 = x1
  x2 = x2
  Free = Free
  Left = Left
  Posts <- MCPosts
  First <- first
  Slots <- MCSlots
  Faults = {"api", "worker", "add", "lost", "stall"}
  MaxFaults = 2
CHECK_DEADLOCK FALSE
INVARIANTS PreparationSound
PROPERTIES SweepSparesLive PreparationEnds
