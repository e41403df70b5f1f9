SPECIFICATION Spec
CONSTANTS
    t1 = t1
    t2 = t2
    s1 = s1
    s2 = s2
    s3 = s3
    Tables = {t1, t2}
    Sessions = {s1, s2, s3}
    Rows = {"narrow", "wide"}
    RowSize <- Sizes
    ZeroRows = {}
    UnwritableRows = {}
    PageSize = 2
    Capacity = 2
    MaxPages = 2
    InitialPages <- ThreePages
    Clauses <- NarrowRows
    MaxStatements = 3
    MaxCrashes = 1
SYMMETRY Symmetry
INVARIANTS
    TypeOK
    TablesAsExpected
    ReadsAreExact
    PinsAgree
    CatalogAgrees
PROPERTIES
    ImplementsPageStore
CHECK_DEADLOCK FALSE
