SPECIFICATION Spec
CONSTANTS
  u1 = u1
  u2 = u2
  t1 = t1
  Nobody = Nobody
  Updaters <- MCUpdaters
  Work <- OneTask
  MaxFaults = 0
  MaxRuns = 1
  Overlap = TRUE
CHECK_DEADLOCK FALSE
INVARIANTS DataMatchesImages
