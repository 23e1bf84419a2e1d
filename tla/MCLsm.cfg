SPECIFICATION FairSpec
CONSTANTS
    Key = {1, 2}
    NumLevels = 3
    L0Trigger = 1
    OutputSizes = {1, 2}
    MaxWrites = 3
    MaxCrashes = 1
    MaxFaults = 1
    MaxReads = 1
    MaxEvents = 4
    CrashAfterTorn = FALSE
CHECK_DEADLOCK FALSE
INVARIANTS FilesPresent LevelsDisjoint IteratorsAgree SeesStore ReadsAreCurrent
PROPERTIES WritesResume ImplementsKvStore
