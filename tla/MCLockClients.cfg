SPECIFICATION ClientSpec
CONSTANTS
    r1 = r1
    r2 = r2
    Records = {r1, r2}
    MaxTransactions = 3
    Assignments <- AnyPrograms
INVARIANTS
    EdgesAreCurrentWaits
PROPERTIES
    VictimsCloseCycles
CHECK_DEADLOCK FALSE
