SPECIFICATION Spec
CONSTANTS
    a = a
    b = b
    Tables = {a, b}
    Sessions = {s1, s2}
    Algorithms = {"timestamp", "twophaselocking"}
    Statements <- ClientStatements
    Databases <- ClientDatabases
    MaxTransactions = 2
    MaxRecords = 3
INVARIANTS
    TypeOK
    ManagersAgree
    OpenTransactionsAreHeld
    StatementsExclude
    RolledBackLeaveNoRow
PROPERTIES
    EveryRequestIsAnswered
CHECK_DEADLOCK FALSE
