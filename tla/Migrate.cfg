SPECIFICATION FairSpec
CONSTANTS
    A = A
    B = B
    Runners = {A, B}
    NoTx = {2}
    Drops = {2}
    Starts <- MCStarts
    Reruns = 1
    Faults = {"die", "drop", "pid", "late", "push"}
    MaxFaults = 2
CHECK_DEADLOCK FALSE
INVARIANTS JournalSound
PROPERTIES AppliesOntoItsOwn RefusedUntouched Migrates
