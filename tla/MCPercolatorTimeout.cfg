SPECIFICATION Spec
CONSTANTS
    t1 = t1
    t2 = t2
    t3 = t3
    Key <- Keys
    Txn <- WritersAndReader
    Mutation <- Scripts
    ReadSet <- Reads
    Scans <- Reader
    Range <- OneKeyRanges
    NotFound = NotFound
    CommitMayTimeOut = TRUE
CHECK_DEADLOCK FALSE
INVARIANTS OutcomesAgree
