SPECIFICATION PoolSpec
CONSTANTS
  i1 = i1
  i2 = i2
  c1 = c1
  Attempts <- MCAttempts
  Invokes <- MCInvokes
  Caps <- MCCaps
  TTL = 3
  MaxMiss = 1
  MaxTries = 1
INVARIANTS HolderCounted
PROPERTIES AdmissionWithinCap SlotReturns WaitEnds
