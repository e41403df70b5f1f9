SPECIFICATION ClientSpec
CONSTANTS
    r1 = r1
    r2 = r2
    Records = {r1, r2}
    MaxTransactions = 2
    Assignments <- SameRecordPrograms
PROPERTIES
    EveryThreadFinishes
CHECK_DEADLOCK FALSE
