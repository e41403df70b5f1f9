SPECIFICATION Spec
CONSTANTS
    Schemas <- MCSchemas
    InitialTables <- MCTables
    Written <- MCWritten
    DashedTexts <- MCDashed
    MaxStatements = 2
INVARIANTS
    SelectsAreExact
    ChangesAreExact
PROPERTIES
    DeletesCanBeUndone
CHECK_DEADLOCK FALSE
