SPECIFICATION ScheduleSpec
CONSTANTS
    Records = {r1, r2}
    MaxTransactions = 3
SYMMETRY RecordSymmetry
INVARIANTS
    TypeOK
    TimestampsRecordYoungest
    ConflictsFollowTimestamps
PROPERTIES
    ImplementsScheduler
    RejectionsAreJustified
CHECK_DEADLOCK FALSE
