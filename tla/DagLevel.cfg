SPECIFICATION FairSpec
CONSTANTS
    i1 = i1
    i2 = i2
    sub1 = sub1
    Issues = {i1, i2, sub1}
    Parent <- MCParent
    Settings <- MCSettings
    MaxInfra = 1
    MaxIters = 2
    StuckLimit = 2
    MaxAdvisor = 1
    MaxReplanner = 1
CHECK_DEADLOCK FALSE
INVARIANTS LevelSound
PROPERTIES OneWriter SentWhereDue LevelEnds
