SPECIFICATION Spec
CONSTANTS
    Logs <- PrewriteAndCommit
    Proposer = {p1}
    Nobody = nobody
    SnapshotInterval = 0
    MaxCrashes = 1
    MaxFaults = 0
    MaxHard = 0
    LateSnapshots = FALSE
CHECK_DEADLOCK FALSE
INVARIANT AppliedExactlyOnce
