SPECIFICATION Spec
CONSTANTS
  w1 = w1
  w2 = w2
  Nobody = Nobody
  Writers <- MCWriters
  Stale = 2
  Cap = 3
  Retries = 2
  MaxClock = 5
SYMMETRY Symmetry
CHECK_DEADLOCK FALSE
INVARIANTS ReleaseLeavesNothing
PROPERTIES ExclusiveTree LostIsReal OnlyOwnerMovesClaim
