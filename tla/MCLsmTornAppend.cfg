CONSTANTS
    Key = {1, 2}
    NumLevels = 3
    L0Trigger = 2
    OutputSizes = {1, 2}
    MaxWrites = 3
    MaxCrashes = 1
    MaxFaults = 1
    MaxReads = 0
    MaxEvents = 5
    CrashAfterTorn = TRUE
SPECIFICATION Spec
INVARIANT Durable
CHECK_DEADLOCK FALSE
