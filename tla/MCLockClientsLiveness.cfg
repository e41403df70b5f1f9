SPECIFICATION ClientSpec
CONSTANTS
    r1 = r1
    r2 = r2
    Records = {r1, r2}
    MaxTransactions = 3
    Assignments <- OrderedOrCrossingPrograms
PROPERTIES
    EveryThreadCommits
    EveryThreadFinishes
CHECK_DEADLOCK FALSE
