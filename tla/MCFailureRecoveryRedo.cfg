SPECIFICATION Spec
CONSTANTS
    v1 = v1
    v2 = v2
    Keys = {"k1"}
    Values = {v1, v2}
    WhereSets <- SingleRows
    MaxTransactions = 2
    MaxLives = 1
    MaxCrashes = 1
    MaxLog = 6
    MaxUnrecorded = 0
    MAX_BUFFER_SIZE = 3
    Mishaps = {}
SYMMETRY Symmetry
INVARIANTS
    PrimaryKeysUnique
CHECK_DEADLOCK FALSE
