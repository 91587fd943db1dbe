SPECIFICATION CasesSpec
CONSTANTS
    a = a
    b = b
    Tasks = {a, b}
    Cancellable = {a}
    Sharers = {b}
    None = None
    MaxRedrives = 1
    Retries = 1
    MaxFaults = 1
CHECK_DEADLOCK FALSE
INVARIANTS CancelRecordsTrue
PROPERTIES ExclusiveDir DirIsFreed
