SPECIFICATION Spec
CONSTANTS
    a = a
    b = b
    Tables = {a, b}
    Sessions = {s1}
    Algorithms = {"timestamp", "twophaselocking"}
    Statements <- ClientStatements
    Databases <- ClientDatabases
    MaxTransactions = 2
    MaxRecords = 3
PROPERTIES
    RollbacksRestoreTables
CHECK_DEADLOCK FALSE
