SPECIFICATION RecoverySpec
CONSTANTS
  N = 2
  Jobs = {j1, j2, j3}
  UserActions = {"submit", "retry_task"}
  FaultKinds = {"crash", "lose_job", "lose_run", "duplicate", "throw", "park", "undo"}
  MaxClicks = 1
  MaxFaults = 2
  MaxEpoch = 4
CHECK_DEADLOCK FALSE
INVARIANTS TypeOK
PROPERTIES Recovers
