SPECIFICATION Spec
CONSTANTS
    v1 = v1
    v2 = v2
    Keys = {"k1"}
    Values = {v1, v2}
    WhereSets <- SingleRows
    MaxTransactions = 2
    MaxLives = 1
    MaxCrashes = 2
    MaxLog = 7
    MaxUnrecorded = 1
    MAX_BUFFER_SIZE = 3
    Mishaps = {"unconditional update"}
SYMMETRY Symmetry
INVARIANTS
    TypeOK
    LogIdsIncrease
    TableIsCommitted
    DiskIsCurrent
    LoggedBeforeForced
    CacheMatchesLog
CHECK_DEADLOCK FALSE
