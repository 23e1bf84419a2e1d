SPECIFICATION Spec
CONSTANTS
    n1 = n1
    n2 = n2
    n3 = n3
    Server <- Servers
    Nil = Nil
    MaxTerm = 2
    MaxIndex = 2
    MaxEntries = 4
    MaxTickSeq = 2
    MaxReadSeq = 0
    MaxBase = 1
    MaxRestarts = 0
    MaxInFlight = 3
    MaxEvents = 3
SYMMETRY Symmetry
VIEW View
CONSTRAINTS InFlightBound EventBound
CHECK_DEADLOCK FALSE
PROPERTIES CommittedEntriesStay
