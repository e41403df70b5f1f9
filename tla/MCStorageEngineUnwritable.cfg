SPECIFICATION Spec
CONSTANTS
    t1 = t1
    t2 = t2
    s1 = s1
    s2 = s2
    s3 = s3
    Tables = {t1, t2}
    Sessions = {s1, s2, s3}
    Rows = {"narrow", "odd"}
    RowSize <- Sizes
    ZeroRows = {}
    UnwritableRows = {"odd"}
    PageSize = 2
    Capacity = 2
    MaxPages = 2
    InitialPages <- NarrowPages
    Clauses <- NarrowRows
    MaxStatements = 3
    MaxCrashes = 1
SYMMETRY Symmetry
PROPERTIES
    CheckpointsFlushAll
CHECK_DEADLOCK FALSE
