SPECIFICATION Spec
CONSTANTS
  N = 2
  Jobs = {j1, j2, j3}
  UserActions = {"submit", "retry"}
  FaultKinds = {}
  MaxClicks = 1
  MaxFaults = 0
  MaxEpoch = 1
CHECK_DEADLOCK FALSE
SYMMETRY JobSymmetry
INVARIANTS OpensInOrder
