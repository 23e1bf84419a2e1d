SPECIFICATION FairSpec
CONSTANTS
    Logs <- SmallLogs
    Proposer = {p1, p2}
    Nobody = nobody
    SnapshotInterval = 1
    MaxCrashes = 1
    MaxFaults = 1
    MaxHard = 1
    LateSnapshots = FALSE
CHECK_DEADLOCK FALSE
ACTION_CONSTRAINT NoCrashInPrewrite
INVARIANTS AppliedExactlyOnce SnapshotsHoldTheirPrefix AcknowledgedSurvives AnswersAreTrue
CONSTRAINT FewEvents
PROPERTY CommittedIsApplied
