---------------------- MODULE TimestampOrderingSchedule ----------------------
(***************************************************************************)
(* The schedules TimestampOrdering lets through: the manager composed with *)
(* a record of the accesses its clients made, an access being made each    *)
(* time validate_object answers that it is allowed.                        *)
(***************************************************************************)
EXTENDS TimestampOrdering

VARIABLES
    accesses,     \* the accesses made so far
    precedes      \* the order conflicting accesses put transactions in

schedule == <<accesses, precedes>>
allVars == <<current_timestamp_, transactions_, object_timestamps_, accesses, precedes>>

Scheduler == INSTANCE SerializableScheduler
                 WITH running <- {t \in Tids : get_transaction_status(t) = "ACTIVE"}

ScheduleInit ==
    /\ Init
    /\ accesses = {}
    /\ precedes = {}

(* validate_object allows the access and the client makes it. *)
AccessAllowed(t, r, a) ==
    /\ AllowAccess(t, r, a)
    /\ accesses' = accesses \cup {Scheduler!Access(t, r, a)}
    /\ precedes' = precedes \cup (Scheduler!Predecessors(accesses, t, r, a) \X {t})

BeginTransaction == begin_transaction /\ UNCHANGED schedule
EndTransaction(t) == end_transaction(t) /\ UNCHANGED schedule
LogObject(t, r) == log_object(t, r) /\ UNCHANGED schedule

(* Any other refusal changes nothing and is a stuttering step. *)
AccessFailed(t, r, a) == FailAccess(t, r, a) /\ UNCHANGED schedule

ScheduleNext ==
    \/ BeginTransaction
    \/ \E t \in Tids :
        \/ EndTransaction(t)
        \/ \E r \in Records :
            \/ LogObject(t, r)
            \/ \E a \in Actions : AccessAllowed(t, r, a) \/ AccessFailed(t, r, a)

ScheduleSpec == ScheduleInit /\ [][ScheduleNext]_allVars

-----------------------------------------------------------------------------

AccessTimes(r, a) ==
    {acc.tid : acc \in {m \in accesses : m.record = r /\ m.action = a}}

(* The timestamps of an object are those of the youngest transactions that *)
(* accessed it, and nothing else: they are the manager's whole memory of   *)
(* the schedule, kept when the transactions themselves are forgotten.      *)
TimestampsRecordYoungest ==
    \A r \in DOMAIN object_timestamps_ :
        LET ts == object_timestamps_[r]
        IN  /\ ts.read_ts \in AccessTimes(r, "READ") \cup {0}
            /\ ts.write_ts \in AccessTimes(r, "WRITE") \cup {0}
            /\ \A t \in AccessTimes(r, "READ") : t <= ts.read_ts
            /\ \A t \in AccessTimes(r, "WRITE") : t <= ts.write_ts

(* Conflicting accesses are made in timestamp order: the serial order the  *)
(* schedule is equivalent to is the order in which transactions began.     *)
ConflictsFollowTimestamps == \A p \in precedes : p[1] < p[2]

(* The accesses the manager allows are those of a serializable scheduler.  *)
ImplementsScheduler == Scheduler!Spec

(* Nobody is rejected for nothing: a transaction fails only for a record   *)
(* on which a younger one was allowed a conflicting access.  In particular *)
(* the youngest transaction never fails, so a client that begins again     *)
(* with a new timestamp gets through once it runs alone.                   *)
RejectionsAreJustified ==
    [][\A t \in Tids, r \in Records, a \in Actions :
            AccessFailed(t, r, a) =>
                \E m \in accesses :
                    /\ m.record = r
                    /\ m.tid > t
                    /\ Scheduler!Conflicting(m.action, a)]_allVars

=============================================================================
