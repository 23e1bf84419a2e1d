SPECIFICATION Spec
CONSTANTS
    n1 = n1
    n2 = n2
    n3 = n3
    Server <- Servers
    Nil = Nil
    MaxTerm = 2
    MaxIndex = 2
    MaxEntries = 4
    MaxTickSeq = 2
    MaxReadSeq = 2
    MaxBase = 1
    MaxRestarts = 1
    MaxInFlight = 3
    MaxEvents = 1
SYMMETRY Symmetry
VIEW View
CONSTRAINTS InFlightBound EventBound
CHECK_DEADLOCK FALSE
INVARIANTS TypeOK AcknowledgedEntriesStay ElectionSafety LeaderHintIsElected ReadsAreFresh SnapshotsAreCommitted
PROPERTIES CommittedEntriesStay OneVotePerTerm
