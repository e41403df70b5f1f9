----------------------- MODULE TwoPhaseLockingSchedule -----------------------
(***************************************************************************)
(* The schedules TwoPhaseLocking lets through: the lock manager composed   *)
(* with a record of the accesses its clients made, an access being made    *)
(* each time validate_object answers that it is allowed.                   *)
(***************************************************************************)
EXTENDS TwoPhaseLocking

VARIABLES
    accesses,     \* the accesses made so far
    precedes      \* the order conflicting accesses put transactions in

schedule == <<accesses, precedes>>
allVars == <<current_transaction_id, transactions, x_lock_table, s_lock_table,
             wait_for_graph, lock_wait_queue, accesses, precedes>>

Scheduler == INSTANCE SerializableScheduler
                 WITH running <- {t \in Tids : Active(t)}

ScheduleInit ==
    /\ Init
    /\ accesses = {}
    /\ precedes = {}

(* validate_object allows the access and the client makes it. *)
AccessAllowed(t, r, a) ==
    /\ AllowLocked(t, r, a) \/ GrantLock(t, r, a)
    /\ accesses' = accesses \cup {Scheduler!Access(t, r, a)}
    /\ precedes' = precedes \cup (Scheduler!Predecessors(accesses, t, r, a) \X {t})

(* A refusal that changes nothing, as for a transaction that is over, is a *)
(* stuttering step.                                                        *)
AccessRefused(t, r, a) ==
    /\ \/ WaitInQueue(t, r)
       \/ WaitForHolder(t, r, a)
       \/ AbortRequester(t, r, a)
    /\ UNCHANGED schedule

BeginTransaction == begin_transaction /\ UNCHANGED schedule

EndTransaction(t) == end_transaction(t) /\ UNCHANGED schedule

ScheduleNext ==
    \/ BeginTransaction
    \/ \E t \in Tids :
        \/ EndTransaction(t)
        \/ \E r \in Records, a \in Actions :
            \/ AccessAllowed(t, r, a)
            \/ AccessRefused(t, r, a)

ScheduleSpec == ScheduleInit /\ [][ScheduleNext]_allVars

-----------------------------------------------------------------------------

(* The accesses the lock manager allows are those of a serializable        *)
(* scheduler: whatever the interleaving, the waits and the victims, the    *)
(* conflicts among all accesses made never form a cycle.                   *)
ImplementsScheduler == Scheduler!Spec

(* Strictness, on accesses instead of locks: two unfinished transactions   *)
(* never both have made conflicting accesses to a record, so nobody reads  *)
(* or overwrites what may still be rolled back.                            *)
UnfinishedNeverConflict ==
    \A m, n \in accesses :
        /\ m.record = n.record
        /\ m.tid # n.tid
        /\ Scheduler!Conflicting(m.action, n.action)
        => ~(Active(m.tid) /\ Active(n.tid))

=============================================================================
