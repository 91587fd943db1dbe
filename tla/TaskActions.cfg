SPECIFICATION ActionsSpec
CONSTANTS
  N = 2
  Jobs = {j1, j2, j3}
  UserActions = {"stop", "retry", "retry_task", "skip", "retry_ai", "auto_resume", "cancel", "submit"}
  FaultKinds = {"crash", "duplicate", "throw", "park", "lose_job", "lose_run"}
  MaxClicks = 2
  MaxFaults = 1
  MaxEpoch = 1
CHECK_DEADLOCK FALSE
SYMMETRY JobSymmetry
INVARIANTS OnePassPerStep StepsInOrder CancelledIdle AgentsBelongToWork
PROPERTIES FailedNeedsReopening EndedStaysEnded OwnPassFinishes
