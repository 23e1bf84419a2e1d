SPECIFICATION Spec
CONSTANTS
    n1 = n1
    n2 = n2
    n3 = n3
    w1 = w1
    w2 = w2
    None = None
    Absent = Absent
    Node <- Nodes
    LastKey = 2
    MaxGroup = 2
    Write <- Writes
    WriteKey = {1, 2}
    WriteValue <- Values
    ReadKey = {2}
    SplitKey <- OneSplit
    MaxAttempts = 1
    MaxCrashes = 1
    MaxSnapshots = 1
    MaxElections = 1
    MaxEvents = 4
SYMMETRY Symmetry
CONSTRAINT Matched
CHECK_DEADLOCK FALSE
INVARIANTS RangesPartition RangesFollowTheLog ReplicasAgree ScansAreOrdered ReadsAreFresh
