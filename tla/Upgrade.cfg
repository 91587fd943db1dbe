SPECIFICATION FairSpec
CONSTANTS
  u1 = u1
  u2 = u2
  t1 = t1
  Nobody = Nobody
  Updaters <- MCUpdater
  Work <- OneTask
  MaxFaults = 3
  MaxRuns = 2
  Overlap = FALSE
CHECK_DEADLOCK FALSE
INVARIANTS InstallSound HeldMeansIdle
PROPERTIES StateGivenBack RunEnds
