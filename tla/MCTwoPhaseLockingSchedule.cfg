SPECIFICATION ScheduleSpec
CONSTANTS
    Records = {r1, r2}
    MaxTransactions = 3
SYMMETRY RecordSymmetry
INVARIANTS
    TypeOK
    LockExclusion
    LockedRecordsAgree
    FinishedLeaveNoTrace
    WaitForGraphAcyclic
    WaitForEdgesAreWaits
    UnfinishedNeverConflict
PROPERTIES
    LocksHeldToTheEnd
    NoOvertaking
    ImplementsScheduler
