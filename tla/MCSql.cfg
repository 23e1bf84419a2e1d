SPECIFICATION Spec
CONSTANTS
    s1 = s1
    s2 = s2
    s3 = s3
    Session <- Sessions
    Table = {1, 2}
    Statement <- Statements
    Width = 2
    UserKey <- UserKeys
    MaxStatements = 5
SYMMETRY Symmetry
CHECK_DEADLOCK FALSE
INVARIANTS IdsAreNeverReused TablesAddUp RowsAddUp KeysMatchRows NothingIsCorrupt RowsInKeyOrder WriteKeysAreOrdered
