SPECIFICATION Spec
CONSTANTS
    n1 = n1
    n2 = n2
    n3 = n3
    Server <- Servers
    Nil = Nil
    MaxTerm = 3
    MaxIndex = 3
    MaxEntries = 4
    MaxTickSeq = 0
    MaxReadSeq = 0
    MaxBase = 0
    MaxRestarts = 0
    MaxInFlight = 2
    MaxEvents = 3
VIEW View
CONSTRAINTS InFlightBound EventBound
ACTION_CONSTRAINT Steered
CHECK_DEADLOCK FALSE
INVARIANTS LogMatching StateMachineSafety LeaderCompleteness
