SPECIFICATION Spec
CONSTANTS
    n1 = n1
    n2 = n2
    n3 = n3
    Server <- Servers
    Nil = Nil
    MaxTerm = 3
    MaxIndex = 2
    MaxEntries = 1
    MaxTickSeq = 0
    MaxReadSeq = 0
    MaxBase = 0
    MaxRestarts = 0
    MaxInFlight = 2
    MaxEvents = 3
VIEW View
CONSTRAINTS InFlightBound EventBound
ACTION_CONSTRAINT Steered
CHECK_DEADLOCK FALSE
INVARIANTS StateMachineSafety
