--------------------------- MODULE LockUseProofs ---------------------------
(***************************************************************************)
(* Proofs about the two uses of the lock manager: that the schedules       *)
(* TwoPhaseLocking lets through are those of SerializableScheduler, and,   *)
(* for threads in the retry loop of LockClients, that what the wait-for    *)
(* graph says about them is true and a transaction is aborted only to      *)
(* break a deadlock there really is.  Both hold for every set of records   *)
(* and every number of transactions.                                       *)
(***************************************************************************)
EXTENDS TwoPhaseLockingSchedule, LockClients, TwoPhaseLockingProofs

-----------------------------------------------------------------------------
(* Schedules.                                                              *)

(* The lock manager does not notice that its schedule is written down.     *)
LEMMA ScheduleStep == [ScheduleNext]_allVars => [Next]_vars
<1> SUFFICES ASSUME [ScheduleNext]_allVars
             PROVE  [Next]_vars
    OBVIOUS
<1>1. CASE BeginTransaction
    BY <1>1 DEF BeginTransaction, Next
<1>2. ASSUME NEW t \in Tids, EndTransaction(t)
      PROVE  Next
    BY <1>2 DEF EndTransaction, Next
<1>3. ASSUME NEW t \in Tids, NEW r \in Records, NEW a \in Actions,
             AccessAllowed(t, r, a) \/ AccessRefused(t, r, a)
      PROVE  Next
    <2>1. validate_object(t, r, a)
        BY <1>3 DEF AccessAllowed, AccessRefused, validate_object
    <2> QED
        BY <2>1 DEF Next
<1>4. CASE UNCHANGED allVars
    BY <1>4 DEF allVars, vars
<1> QED
    BY <1>1, <1>2, <1>3, <1>4 DEF ScheduleNext

(* A behaviour of the composition is one of the lock manager.              *)
LEMMA ScheduleIsSpec == ScheduleSpec => Spec
<1>1. ScheduleInit => Init
    BY DEF ScheduleInit
<1> QED
    BY <1>1, ScheduleStep, PTL DEF ScheduleSpec, Spec

(* The lock that covers an access.                                         *)
Covers(t, r, a) == IF a = "WRITE" THEN x_lock_table[r] = t ELSE HoldsLock(t, r)

(* The invariant the refinement rests on: what an active transaction       *)
(* accessed it still has under lock, and whoever precedes another          *)
(* transaction has come to its end.                                        *)
ScheduleInvariant ==
    /\ accesses \subseteq Scheduler!Accesses
    /\ \A m \in accesses :
        /\ get_transaction_status(m.tid) # "TERMINATED"
        /\ Active(m.tid) => Covers(m.tid, m.record, m.action)
    /\ precedes \subseteq Tids \X Tids
    /\ \A p \in precedes :
        get_transaction_status(p[1]) \notin {"TERMINATED", "ACTIVE"}
    /\ Scheduler!Serializable(precedes)

(* What is known of the lock manager's own state.                          *)
LocksInOrder == TypeOK /\ LockInvariant

(* The lock tables stay in order along a schedule.                         *)
LEMMA LocksAlwaysInOrder == ScheduleSpec => []LocksInOrder
BY ScheduleIsSpec, TypeCorrect, LocksInvariant, PTL DEF LocksInOrder

(* An access that is allowed is covered by a lock, and what others have    *)
(* under lock stays so.                                                    *)
LEMMA AllowedCovered ==
    ASSUME LocksInOrder, NEW t \in Tids, NEW r \in Records, NEW a \in Actions,
           AllowLocked(t, r, a) \/ GrantLock(t, r, a)
    PROVE  /\ Active(t) /\ \A u \in Tids : get_transaction_status(u)' = get_transaction_status(u)
           /\ TypeOK' /\ LockExclusion'
           /\ Covers(t, r, a)'
           /\ \A u \in Tids, q \in Records, b \in Actions : Covers(u, q, b) => Covers(u, q, b)'
<1> USE DEF LocksInOrder
<1>1. Active(t)
    BY DEF AllowLocked, GrantLock, NeedsLock, MayAcquire
<1>2. validate_object(t, r, a)
    BY DEF validate_object
<1>3. TypeOK' /\ LockExclusion'
    BY <1>2, TypeInductive, LockInvariantInductive DEF Next, LockInvariant
<1>4. CASE AllowLocked(t, r, a)
    <2>1. Covers(t, r, a)
        BY <1>4 DEF AllowLocked, AlreadyLocked, Covers, LockInvariant, LockedRecordsAgree,
                    HoldsLock, Actions
    <2> QED
        BY <1>1, <1>3, <1>4, <2>1
        DEF AllowLocked, vars, Covers, HoldsLock, get_transaction_status
<1>5. CASE GrantLock(t, r, a)
    <2>1. /\ x_lock_table' = [x_lock_table EXCEPT ![r] = IF a = "READ" THEN @ ELSE t]
          /\ Blockers(t, r, a) = {}
        BY <1>5 DEF GrantLock
    <2>2. \A u \in Tids : get_transaction_status(u)' = get_transaction_status(u)
        BY <1>5, GrantLocks DEF get_transaction_status
    <2>3. Covers(t, r, a)'
        BY <1>5, <2>1, GrantLocks DEF Covers, Actions, TypeOK
    <2>4. ASSUME NEW u \in Tids, NEW q \in Records, NEW b \in Actions, Covers(u, q, b)
          PROVE  Covers(u, q, b)'
        <3>1. u # NoTid
            BY MaxTransactionsAssumption DEF Tids, NoTid
        <3>2. CASE b = "READ"
            BY <1>5, <2>4, <3>2, GrantLocks DEF Covers
        <3>3. CASE b = "WRITE"
            <4>1. x_lock_table[q] = u
                BY <2>4, <3>3 DEF Covers
            <4>2. q = r => u = t
                BY <2>1, <3>1, <4>1 DEF Blockers
            <4> QED
                BY <2>1, <3>3, <4>1, <4>2 DEF Covers, TypeOK
        <3> QED
            BY <3>2, <3>3 DEF Actions
    <2> QED
        BY <1>1, <1>3, <2>2, <2>3, <2>4
<1> QED
    BY <1>4, <1>5

-----------------------------------------------------------------------------
(* The schedule invariant.                                                 *)

(* A transaction that precedes nobody may come last: no cycle is closed.   *)
LEMMA LastExtendsOrder ==
    ASSUME NEW order, Scheduler!Serializable(order),
           NEW t \in Tids, NEW P \in SUBSET (Tids \ {t}),
           \A v \in Tids : <<t, v>> \notin order
    PROVE  Scheduler!Serializable(order \cup (P \X {t}))
<1> DEFINE new == order \cup (P \X {t})
<1>1. ASSUME NEW C \in SUBSET Tids, C # {}
      PROVE  \E u \in C : \A v \in C : <<u, v>> \notin new
    <2>1. CASE t \in C
        BY <2>1
    <2>2. CASE t \notin C
        <3>1. PICK u \in C : \A v \in C : <<u, v>> \notin order
            BY <1>1 DEF Scheduler!Serializable, Scheduler!Tids, Tids
        <3> QED
            BY <2>2, <3>1
    <2> QED
        BY <2>1, <2>2
<1> QED
    BY <1>1 DEF Scheduler!Serializable, Scheduler!Tids, Tids

(* Giving every lock of t back at its end disturbs no other access.        *)
LEMMA ReleaseKeepsSchedule ==
    ASSUME LocksInOrder, ScheduleInvariant, UNCHANGED schedule,
           NEW t \in Tids, NEW info \in TransactionInfo2PL,
           info.locked_records = transactions[t].locked_records,
           info.status \in {"COMMITTED", "ABORTED"}, release_all_locks(t, info)
    PROVE  ScheduleInvariant'
<1> USE DEF LocksInOrder
<1>1. accesses' = accesses /\ precedes' = precedes
    BY DEF schedule
<1>2. /\ get_transaction_status(t)' = info.status
      /\ \A u \in Tids \ {t} : get_transaction_status(u)' = get_transaction_status(u)
    BY ReleaseLocks DEF get_transaction_status
<1>3. ASSUME NEW u \in Tids \ {t}, NEW r \in Records, NEW a \in Actions, Covers(u, r, a)
      PROVE  Covers(u, r, a)'
    <2>1. CASE a = "READ"
        BY <1>3, <2>1, ReleaseLocks DEF Covers
    <2>2. CASE a = "WRITE"
        BY <1>3, <2>2 DEF Covers, release_all_locks
    <2> QED
        BY <2>1, <2>2 DEF Actions
<1>4. ASSUME NEW m \in accesses'
      PROVE  /\ get_transaction_status(m.tid)' # "TERMINATED"
             /\ Active(m.tid)' => Covers(m.tid, m.record, m.action)'
    <2>1. m \in accesses /\ m.tid \in Tids /\ m.record \in Records /\ m.action \in Actions
        BY <1>1 DEF ScheduleInvariant, Scheduler!Accesses, Scheduler!Tids, Tids,
                    Scheduler!Actions, Actions
    <2>2. CASE m.tid = t
        BY <1>2, <2>2 DEF Active
    <2>3. CASE m.tid # t
        BY <1>2, <1>3, <2>1, <2>3 DEF ScheduleInvariant, Active
    <2> QED
        BY <2>2, <2>3
<1>5. ASSUME NEW p \in precedes'
      PROVE  get_transaction_status(p[1])' \notin {"TERMINATED", "ACTIVE"}
    <2>1. p \in precedes /\ p[1] \in Tids
        BY <1>1 DEF ScheduleInvariant
    <2> QED
        BY <1>2, <2>1 DEF ScheduleInvariant
<1> QED
    BY <1>1, <1>4, <1>5 DEF ScheduleInvariant

(* Whoever t must come after has come to its end: while it was active its  *)
(* lock would have kept t out.                                             *)
LEMMA PredecessorsOver ==
    ASSUME LocksInOrder, ScheduleInvariant,
           NEW t \in Tids, NEW r \in Records, NEW a \in Actions,
           AllowLocked(t, r, a) \/ GrantLock(t, r, a),
           NEW u \in Scheduler!Predecessors(accesses, t, r, a)
    PROVE  u \in Tids \ {t} /\ get_transaction_status(u) \notin {"TERMINATED", "ACTIVE"}
<1>1. u \in Tids \ {t}
    BY DEF Scheduler!Predecessors, Scheduler!Tids, Tids
<1>2. PICK m \in accesses : m.tid = u /\ m.record = r /\ Scheduler!Conflicting(m.action, a)
    BY DEF Scheduler!Predecessors
<1>3. m.action \in Actions /\ get_transaction_status(u) # "TERMINATED"
    BY <1>2 DEF ScheduleInvariant, Scheduler!Accesses, Scheduler!Actions, Actions
<1>4. ASSUME Active(u)
      PROVE  FALSE
    <2>1. Covers(u, r, m.action)
        BY <1>2, <1>4 DEF ScheduleInvariant
    <2>2. Covers(u, r, m.action)' /\ Covers(t, r, a)' /\ LockExclusion' /\ TypeOK'
        BY <1>1, <1>3, <2>1, AllowedCovered
    <2>3. t # NoTid /\ u # NoTid /\ u # t
        BY <1>1, MaxTransactionsAssumption DEF Tids, NoTid
    <2> QED
        BY <1>2, <1>3, <2>2, <2>3
        DEF Covers, HoldsLock, LockExclusion, Scheduler!Conflicting, Actions
<1> QED
    BY <1>1, <1>3, <1>4 DEF Active

(* An access that is allowed keeps the schedule invariant: t precedes      *)
(* nobody yet, because it is active.                                       *)
LEMMA AccessKeepsSchedule ==
    ASSUME LocksInOrder, ScheduleInvariant,
           NEW t \in Tids, NEW r \in Records, NEW a \in Actions,
           AccessAllowed(t, r, a)
    PROVE  ScheduleInvariant'
<1> DEFINE before == Scheduler!Predecessors(accesses, t, r, a)
<1>1. /\ AllowLocked(t, r, a) \/ GrantLock(t, r, a)
      /\ accesses' = accesses \cup {Scheduler!Access(t, r, a)}
      /\ precedes' = precedes \cup (before \X {t})
    BY DEF AccessAllowed
<1>2. /\ Active(t)
      /\ \A u \in Tids : get_transaction_status(u)' = get_transaction_status(u)
      /\ Covers(t, r, a)'
      /\ \A u \in Tids, q \in Records, b \in Actions : Covers(u, q, b) => Covers(u, q, b)'
    BY <1>1, AllowedCovered
<1>3. \A u \in before :
        u \in Tids \ {t} /\ get_transaction_status(u) \notin {"TERMINATED", "ACTIVE"}
    BY <1>1, PredecessorsOver
<1> HIDE DEF before
<1>4. accesses' \subseteq Scheduler!Accesses
    BY <1>1 DEF ScheduleInvariant, Scheduler!Accesses, Scheduler!Access, Scheduler!Tids, Tids,
                Scheduler!Actions, Actions
<1>5. ASSUME NEW m \in accesses'
      PROVE  /\ get_transaction_status(m.tid)' # "TERMINATED"
             /\ Active(m.tid)' => Covers(m.tid, m.record, m.action)'
    <2>1. CASE m = Scheduler!Access(t, r, a)
        BY <1>2, <2>1 DEF Active, Scheduler!Access
    <2>2. CASE m \in accesses
        <3>1. m.tid \in Tids /\ m.record \in Records /\ m.action \in Actions
            BY <2>2 DEF ScheduleInvariant, Scheduler!Accesses, Scheduler!Tids, Tids,
                        Scheduler!Actions, Actions
        <3> QED
            BY <1>2, <2>2, <3>1 DEF ScheduleInvariant, Active
    <2> QED
        BY <1>1, <2>1, <2>2
<1>6. precedes' \subseteq Tids \X Tids
    BY <1>1, <1>3 DEF ScheduleInvariant
<1>7. ASSUME NEW p \in precedes'
      PROVE  get_transaction_status(p[1])' \notin {"TERMINATED", "ACTIVE"}
    <2>1. CASE p \in precedes
        BY <1>2, <2>1 DEF ScheduleInvariant
    <2>2. CASE p \in before \X {t}
        BY <1>2, <1>3, <2>2
    <2> QED
        BY <1>1, <2>1, <2>2
<1>8. Scheduler!Serializable(precedes')
    <2>1. \A v \in Tids : <<t, v>> \notin precedes
        BY <1>2 DEF ScheduleInvariant, Active
    <2>2. before \in SUBSET (Tids \ {t})
        BY <1>3
    <2>3. Scheduler!Serializable(precedes)
        BY DEF ScheduleInvariant
    <2> QED
        BY <1>1, <2>1, <2>2, <2>3, LastExtendsOrder
<1> QED
    BY <1>4, <1>5, <1>6, <1>7, <1>8 DEF ScheduleInvariant

(* Steps that leave the schedule, the X and S locks and the status of the  *)
(* transactions that made accesses alone.                                  *)
LEMMA ScheduleUntouched ==
    ASSUME LocksInOrder, ScheduleInvariant,
           UNCHANGED <<schedule, x_lock_table, s_lock_table>>,
           \A t \in Tids : get_transaction_status(t) # "TERMINATED" =>
                get_transaction_status(t)' = get_transaction_status(t)
    PROVE  ScheduleInvariant'
<1>1. accesses' = accesses /\ precedes' = precedes
    BY DEF schedule
<1>2. ASSUME NEW m \in accesses'
      PROVE  /\ get_transaction_status(m.tid)' # "TERMINATED"
             /\ Active(m.tid)' => Covers(m.tid, m.record, m.action)'
    <2>1. m \in accesses /\ m.tid \in Tids
        BY <1>1 DEF ScheduleInvariant, Scheduler!Accesses, Scheduler!Tids, Tids
    <2> QED
        BY <2>1 DEF ScheduleInvariant, Active, Covers, HoldsLock
<1>3. ASSUME NEW p \in precedes'
      PROVE  get_transaction_status(p[1])' \notin {"TERMINATED", "ACTIVE"}
    <2>1. p \in precedes /\ p[1] \in Tids
        BY <1>1 DEF ScheduleInvariant
    <2> QED
        BY <2>1 DEF ScheduleInvariant
<1> QED
    BY <1>1, <1>2, <1>3 DEF ScheduleInvariant

(* Every step keeps the schedule invariant.                                *)
LEMMA ScheduleInductive ==
    LocksInOrder /\ ScheduleInvariant /\ [ScheduleNext]_allVars => ScheduleInvariant'
<1> SUFFICES ASSUME LocksInOrder, ScheduleInvariant, [ScheduleNext]_allVars
             PROVE  ScheduleInvariant'
    OBVIOUS
<1>1. CASE BeginTransaction
    <2>1. ASSUME NEW t \in Tids, get_transaction_status(t) # "TERMINATED"
          PROVE  get_transaction_status(t)' = get_transaction_status(t)
        <3>1. ~(t > current_transaction_id)
            BY <2>1 DEF LocksInOrder, LockInvariant, FreshIds
        <3>2. t # current_transaction_id'
            BY <1>1, <3>1, MaxTransactionsAssumption
            DEF BeginTransaction, begin_transaction, LocksInOrder, TypeOK, Tids
        <3> QED
            BY <1>1, <3>2 DEF BeginTransaction, begin_transaction, LocksInOrder, TypeOK,
                              get_transaction_status
    <2> QED
        BY <1>1, <2>1, ScheduleUntouched DEF BeginTransaction, begin_transaction
<1>2. ASSUME NEW t \in Tids, EndTransaction(t)
      PROVE  ScheduleInvariant'
    <2> DEFINE info == [transactions[t] EXCEPT !.phase = "SHRINKING"]
               over == [info EXCEPT !.status = "COMMITTED"]
    <2>1. /\ over \in TransactionInfo2PL /\ info.status = transactions[t].status
          /\ over.locked_records = transactions[t].locked_records
          /\ over.status = "COMMITTED"
        BY DEF LocksInOrder, TypeOK, TransactionInfo2PL, TransactionPhase, TransactionStatus
    <2>2. CASE info.status = "ABORTED"
        <3>1. \A u \in Tids : get_transaction_status(u)' = get_transaction_status(u)
            BY <1>2, <2>1, <2>2
            DEF EndTransaction, end_transaction, get_transaction_status, LocksInOrder, TypeOK
        <3> QED
            BY <1>2, <2>2, <3>1, ScheduleUntouched DEF EndTransaction, end_transaction
    <2>3. CASE info.status # "ABORTED"
        <3>1. release_all_locks(t, over) /\ UNCHANGED schedule
            BY <1>2, <2>3 DEF EndTransaction, end_transaction
        <3> HIDE DEF over
        <3> QED
            BY <2>1, <3>1, ReleaseKeepsSchedule
    <2> QED
        BY <2>2, <2>3
<1>3. ASSUME NEW t \in Tids, NEW r \in Records, NEW a \in Actions, AccessRefused(t, r, a)
      PROVE  ScheduleInvariant'
    <2>1. CASE WaitInQueue(t, r) \/ WaitForHolder(t, r, a)
        BY <1>3, <2>1, ScheduleUntouched
        DEF AccessRefused, WaitInQueue, WaitForHolder, get_transaction_status
    <2>2. CASE AbortRequester(t, r, a)
        <3> DEFINE info == [transactions[t] EXCEPT !.status = "ABORTED"]
        <3>1. /\ info \in TransactionInfo2PL /\ info.status = "ABORTED"
              /\ info.locked_records = transactions[t].locked_records
            BY DEF LocksInOrder, TypeOK, TransactionInfo2PL, TransactionStatus
        <3>2. release_all_locks(t, info) /\ UNCHANGED schedule
            BY <1>3, <2>2 DEF AbortRequester, abort_transaction, AccessRefused
        <3> HIDE DEF info
        <3> QED
            BY <3>1, <3>2, ReleaseKeepsSchedule
    <2> QED
        BY <1>3, <2>1, <2>2 DEF AccessRefused
<1>4. ASSUME NEW t \in Tids, NEW r \in Records, NEW a \in Actions, AccessAllowed(t, r, a)
      PROVE  ScheduleInvariant'
    BY <1>4, AccessKeepsSchedule
<1>5. CASE UNCHANGED allVars
    BY <1>5, ScheduleUntouched DEF allVars, schedule, get_transaction_status
<1> QED
    BY <1>1, <1>2, <1>3, <1>4, <1>5 DEF ScheduleNext

(* Nothing has been accessed at first.                                     *)
LEMMA ScheduleInvariantHolds == ScheduleSpec => []ScheduleInvariant
<1>1. ScheduleInit => ScheduleInvariant
    BY DEF ScheduleInit, ScheduleInvariant, Scheduler!Serializable
<1> QED
    BY <1>1, ScheduleInductive, LocksAlwaysInOrder, PTL DEF ScheduleSpec

-----------------------------------------------------------------------------

(* Strictness: what an unfinished transaction accessed, no other           *)
(* unfinished transaction has accessed in conflict with it.                *)
THEOREM UnfinishedAccessesAgree == ScheduleSpec => []UnfinishedNeverConflict
<1>1. LocksInOrder /\ ScheduleInvariant => UnfinishedNeverConflict
    <2> SUFFICES ASSUME LocksInOrder, ScheduleInvariant,
                        NEW m \in accesses, NEW n \in accesses,
                        m.record = n.record, m.tid # n.tid,
                        Scheduler!Conflicting(m.action, n.action),
                        Active(m.tid), Active(n.tid)
                 PROVE  FALSE
        BY DEF UnfinishedNeverConflict
    <2>1. /\ m.tid \in Tids /\ m.record \in Records /\ m.action \in Actions
          /\ n.tid \in Tids /\ n.record \in Records /\ n.action \in Actions
        BY DEF ScheduleInvariant, Scheduler!Accesses, Scheduler!Tids, Tids,
               Scheduler!Actions, Actions
    <2>2. Covers(m.tid, m.record, m.action) /\ Covers(n.tid, m.record, n.action)
        BY DEF ScheduleInvariant
    <2>3. m.tid # NoTid /\ n.tid # NoTid
        BY <2>1, MaxTransactionsAssumption DEF Tids, NoTid
    <2> QED
        BY <2>1, <2>2, <2>3 DEF LocksInOrder, LockInvariant, LockExclusion, Covers, HoldsLock,
                                TypeOK, Scheduler!Conflicting, Actions
<1> QED
    BY <1>1, LocksAlwaysInOrder, ScheduleInvariantHolds, PTL

-----------------------------------------------------------------------------
(* Refinement.                                                             *)

(* The transactions the scheduler sees running.                            *)
Running == {t \in Tids : Active(t)}

(* The end of a running transaction is a step Finish of the scheduler.     *)
LEMMA ReleaseFinishes ==
    ASSUME LocksInOrder, UNCHANGED schedule,
           NEW t \in Tids, NEW info \in TransactionInfo2PL,
           info.locked_records = transactions[t].locked_records,
           info.status # "ACTIVE", Active(t), release_all_locks(t, info)
    PROVE  Scheduler!Finish(t)
<1>1. /\ get_transaction_status(t)' = info.status
      /\ \A u \in Tids \ {t} : get_transaction_status(u)' = get_transaction_status(u)
    BY ReleaseLocks DEF LocksInOrder, get_transaction_status
<1>2. Running' = Running \ {t}
    BY <1>1 DEF Running, Active
<1> QED
    BY <1>2 DEF Scheduler!Finish, Running, Active, schedule

(* Every step of the schedule is a step of the scheduler or a stutter.     *)
LEMMA StepRefines ==
    LocksInOrder /\ ScheduleInvariant /\ ScheduleInvariant' /\ [ScheduleNext]_allVars
        => [Scheduler!Next]_Scheduler!vars
<1> SUFFICES ASSUME LocksInOrder, ScheduleInvariant, ScheduleInvariant',
                    [ScheduleNext]_allVars
             PROVE  [Scheduler!Next]_Scheduler!vars
    OBVIOUS
<1> USE DEF LocksInOrder
<1>1. ASSUME \A t \in Tids : get_transaction_status(t)' = get_transaction_status(t),
             UNCHANGED schedule
      PROVE  UNCHANGED Scheduler!vars
    BY <1>1 DEF schedule, Scheduler!vars, Active
<1>2. CASE BeginTransaction
    <2> DEFINE new == current_transaction_id'
    <2>1. new \in Tids /\ new > current_transaction_id
        BY <1>2, MaxTransactionsAssumption DEF BeginTransaction, begin_transaction, TypeOK, Tids
    <2>2. get_transaction_status(new) = "TERMINATED"
        BY <2>1 DEF LockInvariant, FreshIds
    <2>3. /\ transactions' = [transactions EXCEPT ![new] =
                [status |-> "ACTIVE", phase |-> "GROWING", locked_records |-> {}]]
          /\ UNCHANGED schedule
        BY <1>2 DEF BeginTransaction, begin_transaction
    <2> HIDE DEF new
    <2>4. /\ transactions'[new].status = "ACTIVE"
          /\ \A t \in Tids \ {new} : transactions'[t] = transactions[t]
        BY <2>1, <2>3 DEF TypeOK
    <2>5. Running' = Running \cup {new}
        BY <2>1, <2>4 DEF Running, Active, get_transaction_status
    <2>6. \A acc \in accesses : acc.tid # new
        BY <2>2 DEF ScheduleInvariant
    <2>7. Scheduler!Begin(new)
        BY <2>2, <2>3, <2>5, <2>6 DEF Scheduler!Begin, Running, Active, schedule
    <2> QED
        BY <2>1, <2>7 DEF Scheduler!Next, Scheduler!Tids, Tids
<1>3. ASSUME NEW t \in Tids, EndTransaction(t)
      PROVE  [Scheduler!Next]_Scheduler!vars
    <2> DEFINE info == [transactions[t] EXCEPT !.phase = "SHRINKING"]
               over == [info EXCEPT !.status = "COMMITTED"]
    <2>1. /\ over \in TransactionInfo2PL /\ info.status = transactions[t].status
          /\ over.locked_records = transactions[t].locked_records
          /\ over.status = "COMMITTED"
        BY DEF TypeOK, TransactionInfo2PL, TransactionPhase, TransactionStatus
    <2>2. CASE info.status = "ABORTED"
        <3>1. \A u \in Tids : get_transaction_status(u)' = get_transaction_status(u)
            BY <1>3, <2>1, <2>2
            DEF EndTransaction, end_transaction, get_transaction_status, TypeOK
        <3> QED
            BY <1>1, <1>3, <3>1 DEF EndTransaction
    <2>3. CASE info.status # "ABORTED"
        <3>1. release_all_locks(t, over) /\ UNCHANGED schedule
            BY <1>3, <2>3 DEF EndTransaction, end_transaction
        <3>2. CASE Active(t)
            <4> HIDE DEF over
            <4>1. Scheduler!Finish(t)
                BY <2>1, <3>1, <3>2, ReleaseFinishes
            <4> QED
                BY <4>1 DEF Scheduler!Next, Scheduler!Tids, Tids
        <3>3. CASE ~Active(t)
            <4> HIDE DEF over
            <4>1. /\ transactions'[t].status = "COMMITTED"
                  /\ \A u \in Tids \ {t} : transactions'[u] = transactions[u]
                BY <2>1, <3>1, ReleaseLocks
            <4>2. \A u \in Tids : Active(u)' <=> Active(u)
                BY <3>3, <4>1 DEF Active, get_transaction_status
            <4>3. Running' = Running
                BY <4>2 DEF Running
            <4> QED
                BY <3>1, <4>3 DEF Running, schedule, Scheduler!vars
        <3> QED
            BY <3>2, <3>3
    <2> QED
        BY <2>2, <2>3
<1>4. ASSUME NEW t \in Tids, NEW r \in Records, NEW a \in Actions, AccessRefused(t, r, a)
      PROVE  [Scheduler!Next]_Scheduler!vars
    <2>1. CASE WaitInQueue(t, r) \/ WaitForHolder(t, r, a)
        BY <1>1, <1>4, <2>1
        DEF AccessRefused, WaitInQueue, WaitForHolder, get_transaction_status
    <2>2. CASE AbortRequester(t, r, a)
        <3> DEFINE info == [transactions[t] EXCEPT !.status = "ABORTED"]
        <3>1. /\ info \in TransactionInfo2PL /\ info.status = "ABORTED"
              /\ info.locked_records = transactions[t].locked_records
            BY DEF TypeOK, TransactionInfo2PL, TransactionStatus
        <3>2. release_all_locks(t, info) /\ UNCHANGED schedule /\ Active(t)
            BY <1>4, <2>2
            DEF AbortRequester, abort_transaction, AccessRefused, MustAbort, NeedsLock, MayAcquire
        <3> HIDE DEF info
        <3>3. Scheduler!Finish(t)
            BY <3>1, <3>2, ReleaseFinishes
        <3> QED
            BY <3>3 DEF Scheduler!Next, Scheduler!Tids, Tids
    <2> QED
        BY <1>4, <2>1, <2>2 DEF AccessRefused
<1>5. ASSUME NEW t \in Tids, NEW r \in Records, NEW a \in Actions, AccessAllowed(t, r, a)
      PROVE  [Scheduler!Next]_Scheduler!vars
    <2>1. /\ AllowLocked(t, r, a) \/ GrantLock(t, r, a)
          /\ accesses' = accesses \cup {Scheduler!Access(t, r, a)}
          /\ precedes' = precedes \cup (Scheduler!Predecessors(accesses, t, r, a) \X {t})
        BY <1>5 DEF AccessAllowed
    <2>2. Active(t) /\ \A u \in Tids : get_transaction_status(u)' = get_transaction_status(u)
        BY <2>1, AllowedCovered
    <2>3. Running' = Running
        BY <2>2 DEF Running, Active
    <2>4. Scheduler!Serializable(precedes')
        BY DEF ScheduleInvariant
    <2>5. Scheduler!Grant(t, r, a)
        BY <2>1, <2>2, <2>3, <2>4 DEF Scheduler!Grant, Running
    <2> QED
        BY <2>5 DEF Scheduler!Next, Scheduler!Tids, Tids, Scheduler!Actions, Actions
<1>6. CASE UNCHANGED allVars
    BY <1>1, <1>6 DEF allVars, schedule, get_transaction_status
<1> QED
    BY <1>2, <1>3, <1>4, <1>5, <1>6 DEF ScheduleNext

(* Two-phase locking lets only serializable schedules through.             *)
THEOREM LockingIsSerializable == ScheduleSpec => ImplementsScheduler
<1>1. ScheduleInit => Scheduler!Init
    BY DEF ScheduleInit, Init, Scheduler!Init, Active, get_transaction_status
<1> QED
    BY <1>1, StepRefines, LocksAlwaysInOrder, ScheduleInvariantHolds, PTL
    DEF ScheduleSpec, ImplementsScheduler, Scheduler!Spec


-----------------------------------------------------------------------------
(* The threads are clients of the lock manager.                            *)

(* Programs are fixed, and every thread is somewhere in its own.           *)
ClientTyped ==
    /\ program \in Assignments
    /\ next \in [Tids -> Nat]

(* What a thread asks for is a lock there is.                              *)
LEMMA RequestTyped ==
    ASSUME ClientTyped, NEW t \in Tids, Requesting(t)
    PROVE  Request(t).record \in Records /\ Request(t).action \in Actions
<1>1. program[t] \in Seq([record : Records, action : Actions])
    BY AssignmentsAssumption DEF ClientTyped
<1>2. program[t][next[t]] \in [record : Records, action : Actions]
    BY <1>1, ElementOfSeq DEF Requesting
<1> QED
    BY <1>2 DEF Request

(* A step of a thread is an operation of the lock manager, or none.        *)
LEMMA StepsAreCalls ==
    ASSUME ClientTyped, [ClientNext]_clientVars
    PROVE  [Next]_vars
<1>1. ASSUME NEW t \in Tids, PollAllowed(t)
      PROVE  Next
    <2>1. Requesting(t)
        BY <1>1 DEF PollAllowed
    <2>2. validate_object(t, Request(t).record, Request(t).action)
        BY <1>1 DEF PollAllowed, validate_object
    <2> QED
        BY <2>1, <2>2, RequestTyped DEF Next
<1>2. ASSUME NEW t \in Tids, PollRefused(t)
      PROVE  Next
    <2>1. Requesting(t)
        BY <1>2 DEF PollRefused
    <2>2. validate_object(t, Request(t).record, Request(t).action)
        BY <1>2 DEF PollRefused, validate_object
    <2> QED
        BY <2>1, <2>2, RequestTyped DEF Next
<1>3. ASSUME NEW t \in Tids, Finish(t)
      PROVE  Next
    BY <1>3 DEF Finish, Next
<1>4. CASE Start
    BY <1>4 DEF Start, Next
<1>5. CASE UNCHANGED clientVars
    BY <1>5 DEF clientVars, vars
<1> QED
    BY <1>1, <1>2, <1>3, <1>4, <1>5 DEF ClientNext, Thread

(* Every step leaves the programs and moves on in them.                    *)
LEMMA ClientTypedInductive ==
    ASSUME ClientTyped, TypeOK, [ClientNext]_clientVars
    PROVE  ClientTyped'
<1>1. CASE Start
    BY <1>1 DEF Start, ClientTyped
<1>2. ASSUME NEW t \in Tids, PollAllowed(t)
      PROVE  ClientTyped'
    BY <1>2 DEF PollAllowed, ClientTyped
<1> QED
    BY <1>1, <1>2
    DEF ClientNext, Thread, PollRefused, Finish, clients, clientVars, ClientTyped

(* Threads implement the lock manager's environment: whatever holds of     *)
(* every use of the manager holds of theirs.                               *)
THEOREM ClientsUseTheManager == ClientSpec => Spec
<1>1. ClientInit => Init /\ ClientTyped
    BY DEF ClientInit, ClientTyped
<1>2. TypeOK /\ ClientTyped /\ [ClientNext]_clientVars => [Next]_vars
    BY StepsAreCalls
<1>3. Init => TypeOK
    BY MaxTransactionsAssumption
    DEF Init, TypeOK, TransactionInfo2PL, TransactionStatus, TransactionPhase, NoTid
<1>4. TypeOK /\ ClientTyped /\ [ClientNext]_clientVars => TypeOK' /\ ClientTyped'
    BY <1>2, TypeInductive, ClientTypedInductive
<1> QED
    BY <1>1, <1>2, <1>3, <1>4, PTL DEF ClientSpec, Spec

-----------------------------------------------------------------------------
(* What becomes of those a thread waits for.                               *)

(* Who has the lock already is blocked by nobody, lock exclusion given.    *)
LEMMA LockedIsUnblocked ==
    ASSUME TypeOK, LockInvariant, NEW t \in Tids, NEW r \in Records, NEW a \in Actions,
           AlreadyLocked(t, r, a)
    PROVE  Blockers(t, r, a) = {}
<1>1. HoldsLock(t, r) /\ (x_lock_table[r] # NoTid => s_lock_table[r] = {})
    BY MaxTransactionsAssumption
    DEF LockInvariant, LockedRecordsAgree, LockExclusion, AlreadyLocked, HoldsLock, Actions
<1>2. t # NoTid
    BY DEF Tids, NoTid
<1>3. CASE x_lock_table[r] = t
    BY <1>1, <1>2, <1>3 DEF Blockers
<1>4. CASE x_lock_table[r] # t
    <2>1. x_lock_table[r] = NoTid /\ a = "READ"
        BY <1>1, <1>4 DEF AlreadyLocked, HoldsLock, Actions
    <2> QED
        BY <2>1 DEF Blockers
<1> QED
    BY <1>3, <1>4

(* A grant to somebody else leaves whoever blocks a request in its way.    *)
LEMMA GrantKeepsBlockers ==
    ASSUME TypeOK, LockInvariant, NEW v \in Tids, NEW q \in Records, NEW b \in Actions,
           GrantLock(v, q, b),
           NEW t \in Tids \ {v}, NEW r \in Records, NEW a \in Actions,
           NEW u \in Blockers(t, r, a)
    PROVE  u \in Blockers(t, r, a)'
<1>1. CASE r # q
    <2>1. x_lock_table'[r] = x_lock_table[r] /\ s_lock_table'[r] = s_lock_table[r]
        BY <1>1 DEF GrantLock, TypeOK
    <2> QED
        BY <2>1 DEF Blockers
<1>2. CASE r = q
    <2>1. /\ ~AlreadyLocked(v, r, b) /\ Blockers(v, r, b) = {}
          /\ s_lock_table'[r] = IF b = "READ" THEN s_lock_table[r] \cup {v}
                                              ELSE s_lock_table[r] \ {v}
          /\ x_lock_table'[r] = IF b = "READ" THEN x_lock_table[r] ELSE v
        BY <1>2 DEF GrantLock, NeedsLock, TypeOK
    <2>2. u \in Tids /\ u # t /\ HoldsLock(u, r) /\ v # NoTid /\ u # NoTid
        BY BlockersHold DEF Tids, NoTid
    <2>3. x_lock_table[r] \in {v, NoTid}
        BY <2>1 DEF Blockers
    <2>4. x_lock_table[r] # v
        <3>1. x_lock_table[r] = v => r \in transactions[v].locked_records
            BY DEF LockInvariant, LockedRecordsAgree, HoldsLock
        <3> QED
            BY <2>1, <3>1 DEF AlreadyLocked
    <2>5. a # "READ" /\ u \in s_lock_table[r] /\ x_lock_table[r] = NoTid
        BY <2>2, <2>3, <2>4 DEF Blockers, HoldsLock
    <2>6. CASE b = "READ"
        <3>1. x_lock_table'[r] = NoTid /\ u \in s_lock_table'[r]
            BY <2>1, <2>5, <2>6
        <3> QED
            BY <2>2, <2>5, <3>1 DEF Blockers
    <2>7. CASE b # "READ"
        <3>1. u = v
            BY <2>1, <2>2, <2>5, <2>7 DEF Blockers
        <3>2. x_lock_table'[r] = u
            BY <2>1, <2>7, <3>1
        <3> QED
            BY <2>2, <3>2 DEF Blockers
    <2> QED
        BY <2>6, <2>7
<1> QED
    BY <1>1, <1>2

(* The end of somebody else's transaction takes nobody but it out of the   *)
(* way.                                                                    *)
LEMMA ReleaseKeepsBlockers ==
    ASSUME TypeOK, NEW v \in Tids, NEW info, release_all_locks(v, info),
           NEW t \in Tids \ {v}, NEW r \in Records, NEW a \in Actions,
           NEW u \in Blockers(t, r, a), u # v
    PROVE  u \in Blockers(t, r, a)'
<1>1. u \in Tids /\ u # t /\ v # NoTid /\ u # NoTid
    BY BlockersHold DEF Tids, NoTid
<1>2. /\ x_lock_table'[r] \in {x_lock_table[r], NoTid}
      /\ x_lock_table[r] # v => x_lock_table'[r] = x_lock_table[r]
      /\ u \in s_lock_table[r] => u \in s_lock_table'[r]
    BY DEF release_all_locks
<1>3. CASE x_lock_table[r] = u
    BY <1>1, <1>2, <1>3 DEF Blockers
<1>4. CASE x_lock_table[r] # u
    <2>1. a # "READ" /\ u \in s_lock_table[r] /\ x_lock_table[r] \in {t, NoTid}
        BY <1>1, <1>4 DEF Blockers
    <2>2. x_lock_table'[r] = x_lock_table[r] /\ u \in s_lock_table'[r]
        BY <1>2, <2>1
    <2> QED
        BY <1>1, <2>1, <2>2 DEF Blockers
<1> QED
    BY <1>3, <1>4

-----------------------------------------------------------------------------
(* The edges of the wait-for graph.                                        *)

(* An active transaction is still growing: no thread uses the manager      *)
(* between the two halves of an end.                                       *)
ActiveAreGrowing ==
    \A t \in Tids : Active(t) => transactions[t].phase = "GROWING"

(* What the manager keeps whoever uses it, and what it keeps for threads   *)
(* that poll: the inductive invariant.                                     *)
ManagerInvariant == TypeOK /\ LockInvariant /\ QueueInvariant /\ GraphInvariant

ClientInvariant ==
    /\ ClientTyped
    /\ ManagerInvariant
    /\ ActiveAreGrowing
    /\ EdgesAreCurrentWaits

(* The parts of the manager are kept by every step of a thread.            *)
LEMMA ManagerInvariantKept ==
    ASSUME ClientTyped, ManagerInvariant, [ClientNext]_clientVars
    PROVE  ManagerInvariant'
<1>1. [Next]_vars
    BY StepsAreCalls
<1> QED
    BY <1>1, TypeInductive, LockInvariantInductive, QueueInvariantInductive,
       GraphInvariantInductive DEF ManagerInvariant

(* A thread with an edge is one that polls, and edges lead to threads that *)
(* are in the way of what it polls for.                                    *)
LEMMA EdgeOfPollingThread ==
    ASSUME ClientTyped, TypeOK, EdgesAreCurrentWaits,
           NEW t \in Tids, NEW u \in wait_for_graph[t]
    PROVE  /\ Requesting(t) /\ Active(t) /\ u \in Tids
           /\ Request(t).record \in Records /\ Request(t).action \in Actions
           /\ u \in Blockers(t, Request(t).record, Request(t).action)
<1>1. Requesting(t) /\ u \in Blockers(t, Request(t).record, Request(t).action)
    BY DEF EdgesAreCurrentWaits
<1> QED
    BY <1>1, RequestTyped DEF Requesting, TypeOK

(* The end of v's transaction: its own edges and those to it are gone, the *)
(* others are what they were.                                              *)
LEMMA ReleaseKeepsEdges ==
    ASSUME ClientInvariant, NEW v \in Tids, NEW info \in TransactionInfo2PL,
           release_all_locks(v, info), UNCHANGED clients
    PROVE  EdgesAreCurrentWaits'
<1> SUFFICES ASSUME NEW t \in Tids, NEW u \in wait_for_graph'[t]
             PROVE  Requesting(t)' /\ u \in Blockers(t, Request(t).record, Request(t).action)'
    BY DEF EdgesAreCurrentWaits
<1>1. t # v /\ u # v /\ u \in wait_for_graph[t]
    BY DEF release_all_locks
<1>2. /\ Requesting(t)
      /\ Request(t).record \in Records /\ Request(t).action \in Actions
      /\ u \in Blockers(t, Request(t).record, Request(t).action)
    BY <1>1, EdgeOfPollingThread DEF ClientInvariant, ManagerInvariant
<1>3. Requesting(t)' /\ Request(t)' = Request(t)
    BY <1>1, <1>2 DEF release_all_locks, clients, Requesting, Request, Active,
       get_transaction_status, ClientInvariant, ManagerInvariant, TypeOK
<1>4. PICK r \in Records, a \in Actions :
        r = Request(t).record /\ a = Request(t).action
    BY <1>2
<1>5. u \in Blockers(t, r, a)'
    BY <1>1, <1>2, <1>4, ReleaseKeepsBlockers DEF ClientInvariant, ManagerInvariant
<1>6. Blockers(t, Request(t).record, Request(t).action)' = Blockers(t, r, a)'
    BY <1>3, <1>4 DEF Blockers
<1> QED
    BY <1>3, <1>5, <1>6

(* A new transaction has no edges and changes nobody else's.               *)
LEMMA StartKeepsEdges ==
    ASSUME ClientInvariant, Start
    PROVE  EdgesAreCurrentWaits'
<1> SUFFICES ASSUME NEW t \in Tids, NEW u \in wait_for_graph'[t]
             PROVE  Requesting(t)' /\ u \in Blockers(t, Request(t).record, Request(t).action)'
    BY DEF EdgesAreCurrentWaits
<1> DEFINE new == current_transaction_id + 1
<1>1. /\ new \in Tids /\ new > current_transaction_id
      /\ current_transaction_id' = new
      /\ program' = program /\ next' = [next EXCEPT ![new] = 1]
      /\ transactions' = [transactions EXCEPT ![new] =
            [status |-> "ACTIVE", phase |-> "GROWING", locked_records |-> {}]]
      /\ UNCHANGED <<x_lock_table, s_lock_table, wait_for_graph>>
    BY MaxTransactionsAssumption
    DEF Start, begin_transaction, ClientInvariant, ManagerInvariant, TypeOK, Tids
<1>2. u \in wait_for_graph[t]
    BY <1>1
<1>3. /\ Requesting(t) /\ Active(t)
      /\ u \in Blockers(t, Request(t).record, Request(t).action)
    BY <1>2, EdgeOfPollingThread DEF ClientInvariant, ManagerInvariant
<1>4. t # new
    BY <1>1, <1>3 DEF ClientInvariant, ManagerInvariant, LockInvariant, FreshIds, Active
<1> HIDE DEF new
<1>5. next'[t] = next[t] /\ transactions'[t] = transactions[t]
    BY <1>1, <1>4 DEF ClientInvariant, ManagerInvariant, TypeOK, ClientTyped
<1>6. Requesting(t)' /\ Request(t)' = Request(t)
    BY <1>1, <1>3, <1>5 DEF Requesting, Request, Active, get_transaction_status
<1> QED
    BY <1>1, <1>3, <1>6 DEF Blockers

(* A thread that is allowed has no edge left and moves on; it takes nobody *)
(* out of anybody's way.                                                   *)
LEMMA PollAllowedKeepsEdges ==
    ASSUME ClientInvariant, NEW v \in Tids, PollAllowed(v)
    PROVE  EdgesAreCurrentWaits'
<1> SUFFICES ASSUME NEW t \in Tids, NEW u \in wait_for_graph'[t]
             PROVE  Requesting(t)' /\ u \in Blockers(t, Request(t).record, Request(t).action)'
    BY DEF EdgesAreCurrentWaits
<1> USE DEF ClientInvariant, ManagerInvariant
<1>1. PICK q \in Records, b \in Actions :
        q = Request(v).record /\ b = Request(v).action
    BY RequestTyped DEF PollAllowed
<1>2. /\ AllowLocked(v, q, b) \/ GrantLock(v, q, b)
      /\ next' = [next EXCEPT ![v] = @ + 1] /\ program' = program
    BY <1>1 DEF PollAllowed
<1>3. t # v /\ u \in wait_for_graph[t]
    <2>1. CASE AllowLocked(v, q, b)
        <3>1. Blockers(v, q, b) = {}
            BY <2>1, LockedIsUnblocked DEF AllowLocked
        <3>2. wait_for_graph[v] = {}
            BY <1>1, <3>1 DEF EdgesAreCurrentWaits
        <3> QED
            BY <2>1, <3>2 DEF AllowLocked, vars
    <2>2. CASE GrantLock(v, q, b)
        BY <2>2 DEF GrantLock, TypeOK
    <2> QED
        BY <1>2, <2>1, <2>2
<1>4. /\ Requesting(t)
      /\ Request(t).record \in Records /\ Request(t).action \in Actions
      /\ u \in Blockers(t, Request(t).record, Request(t).action)
    BY <1>3, EdgeOfPollingThread
<1>5. next'[t] = next[t]
    BY <1>2, <1>3 DEF ClientTyped
<1>6. Active(t)'
    <2>1. CASE AllowLocked(v, q, b)
        BY <1>4, <2>1 DEF AllowLocked, vars, Requesting, Active, get_transaction_status
    <2>2. CASE GrantLock(v, q, b)
        <3>1. transactions'[t] = transactions[t]
            BY <1>3, <2>2 DEF GrantLock, TypeOK
        <3> QED
            BY <1>4, <3>1 DEF Requesting, Active, get_transaction_status
    <2> QED
        BY <1>2, <2>1, <2>2
<1>7. Requesting(t)' /\ Request(t)' = Request(t)
    BY <1>2, <1>4, <1>5, <1>6 DEF Requesting, Request
<1>8. PICK r \in Records, a \in Actions :
        r = Request(t).record /\ a = Request(t).action
    BY <1>4
<1>9. u \in Blockers(t, r, a)'
    <2>1. CASE AllowLocked(v, q, b)
        BY <1>4, <1>8, <2>1 DEF AllowLocked, vars, Blockers
    <2>2. CASE GrantLock(v, q, b)
        BY <1>3, <1>4, <1>8, <2>2, GrantKeepsBlockers
    <2> QED
        BY <1>2, <2>1, <2>2
<1>10. Blockers(t, Request(t).record, Request(t).action)' = Blockers(t, r, a)'
    BY <1>7, <1>8 DEF Blockers
<1> QED
    BY <1>7, <1>9, <1>10

(* A thread that is refused stays where it is; the edge that is drawn for  *)
(* it leads to one of those in its way.                                    *)
LEMMA PollRefusedKeepsEdges ==
    ASSUME ClientInvariant, NEW v \in Tids, PollRefused(v)
    PROVE  EdgesAreCurrentWaits'
<1> USE DEF ClientInvariant, ManagerInvariant
<1>1. PICK q \in Records, b \in Actions :
        q = Request(v).record /\ b = Request(v).action
    BY RequestTyped DEF PollRefused
<1>2. /\ Requesting(v) /\ UNCHANGED clients
      /\ WaitInQueue(v, q) \/ WaitForHolder(v, q, b) \/ AbortRequester(v, q, b)
    BY <1>1 DEF PollRefused
<1>3. ASSUME UNCHANGED <<transactions, x_lock_table, s_lock_table>>,
             NEW t \in Tids, NEW u \in Blockers(t, Request(t).record, Request(t).action),
             Requesting(t)
      PROVE  Requesting(t)' /\ u \in Blockers(t, Request(t).record, Request(t).action)'
    BY <1>2, <1>3 DEF clients, Requesting, Request, Active, get_transaction_status, Blockers
<1>4. CASE WaitInQueue(v, q)
    BY <1>3, <1>4 DEF WaitInQueue, EdgesAreCurrentWaits
<1>5. CASE WaitForHolder(v, q, b)
    <2> SUFFICES ASSUME NEW t \in Tids, NEW u \in wait_for_graph'[t]
                 PROVE  /\ Requesting(t)
                        /\ u \in Blockers(t, Request(t).record, Request(t).action)
        BY <1>3, <1>5 DEF WaitForHolder, EdgesAreCurrentWaits
    <2>1. CASE u \in wait_for_graph[t]
        BY <2>1 DEF EdgesAreCurrentWaits
    <2>2. CASE u \notin wait_for_graph[t]
        <3>1. t = v /\ u = FirstBlocker(v, q, b)
            BY <1>5, <2>2 DEF WaitForHolder, AddEdge, TypeOK
        <3>2. u \in Blockers(v, q, b)
            BY <1>5, <3>1, BlockersHold DEF WaitForHolder
        <3> QED
            BY <1>1, <1>2, <3>1, <3>2
    <2> QED
        BY <2>1, <2>2
<1>6. CASE AbortRequester(v, q, b)
    <2>1. PICK info \in TransactionInfo2PL : release_all_locks(v, info)
        BY <1>6 DEF AbortRequester, abort_transaction, TypeOK, TransactionInfo2PL,
           TransactionStatus
    <2> QED
        BY <1>2, <2>1, ReleaseKeepsEdges
<1> QED
    BY <1>2, <1>4, <1>5, <1>6

(* A transaction becomes inactive by its end, not by its phase.            *)
LEMMA ActiveAreGrowingKept ==
    ASSUME TypeOK, ActiveAreGrowing, ClientTyped, [ClientNext]_clientVars
    PROVE  ActiveAreGrowing'
<1> USE DEF ActiveAreGrowing, Active, get_transaction_status
<1>1. CASE Start
    <2>1. current_transaction_id + 1 \in Tids
        BY <1>1, MaxTransactionsAssumption DEF Start, begin_transaction, TypeOK, Tids
    <2> QED
        BY <1>1, <2>1 DEF Start, begin_transaction, TypeOK
<1>2. ASSUME NEW t \in Tids, NEW info \in TransactionInfo2PL,
             info.status # "ACTIVE", release_all_locks(t, info)
      PROVE  ActiveAreGrowing'
    <2>1. /\ \A u \in Tids \ {t} : transactions'[u] = transactions[u]
          /\ transactions'[t].status = info.status
        BY <1>2 DEF release_all_locks, TypeOK, TransactionInfo2PL
    <2> QED
        BY <1>2, <2>1
<1>3. ASSUME NEW t \in Tids, PollAllowed(t)
      PROVE  ActiveAreGrowing'
    <2>1. PICK r \in Records, a \in Actions : AllowLocked(t, r, a) \/ GrantLock(t, r, a)
        BY <1>3, RequestTyped DEF PollAllowed
    <2>2. CASE AllowLocked(t, r, a)
        BY <2>2 DEF AllowLocked, vars
    <2>3. CASE GrantLock(t, r, a)
        BY <2>3 DEF GrantLock, TypeOK, TransactionInfo2PL
    <2> QED
        BY <2>1, <2>2, <2>3
<1>4. ASSUME NEW t \in Tids, PollRefused(t)
      PROVE  ActiveAreGrowing'
    <2> DEFINE info == [transactions[t] EXCEPT !.status = "ABORTED"]
    <2>1. info \in TransactionInfo2PL /\ info.status # "ACTIVE"
        BY DEF TypeOK, TransactionInfo2PL, TransactionStatus
    <2>2. UNCHANGED transactions \/ release_all_locks(t, info)
        BY <1>4 DEF PollRefused, WaitInQueue, WaitForHolder, AbortRequester, abort_transaction
    <2> HIDE DEF info
    <2> QED
        BY <1>2, <2>1, <2>2
<1>5. ASSUME NEW t \in Tids, Finish(t)
      PROVE  ActiveAreGrowing'
    <2> DEFINE over == [transactions[t] EXCEPT !.phase = "SHRINKING",
                                               !.status = "COMMITTED"]
    <2>1. over \in TransactionInfo2PL /\ over.status # "ACTIVE"
        BY DEF TypeOK, TransactionInfo2PL, TransactionPhase, TransactionStatus
    <2>2. CASE release_all_locks(t, over)
        <3> HIDE DEF over
        <3> QED
            BY <1>2, <2>1, <2>2
    <2>3. CASE transactions[t].status = "ABORTED" /\
               transactions' = [transactions EXCEPT ![t] =
                                    [transactions[t] EXCEPT !.phase = "SHRINKING"]]
        BY <2>3 DEF TypeOK, TransactionInfo2PL
    <2> QED
        BY <1>5, <2>2, <2>3 DEF Finish, end_transaction, TypeOK, TransactionInfo2PL
<1> QED
    BY <1>1, <1>3, <1>4, <1>5 DEF ClientNext, Thread, clientVars

(* The end a thread makes of its transaction leaves the edges true.        *)
LEMMA FinishKeepsEdges ==
    ASSUME ClientInvariant, NEW t \in Tids, Finish(t)
    PROVE  EdgesAreCurrentWaits'
<1> DEFINE over == [transactions[t] EXCEPT !.phase = "SHRINKING", !.status = "COMMITTED"]
<1> USE DEF ClientInvariant, ManagerInvariant
<1>1. over \in TransactionInfo2PL
    BY DEF TypeOK, TransactionInfo2PL, TransactionPhase, TransactionStatus
<1>2. CASE release_all_locks(t, over)
    <2> HIDE DEF over
    <2> QED
        BY <1>1, <1>2, ReleaseKeepsEdges DEF Finish
<1>3. CASE /\ transactions[t].status = "ABORTED"
           /\ transactions' = [transactions EXCEPT ![t] =
                                    [transactions[t] EXCEPT !.phase = "SHRINKING"]]
           /\ UNCHANGED <<x_lock_table, s_lock_table, wait_for_graph>>
    <2>1. \A u \in Tids : transactions'[u].status = transactions[u].status
        BY <1>3 DEF TypeOK, TransactionInfo2PL
    <2>2. ASSUME NEW u \in Tids, Requesting(u)
          PROVE  Requesting(u)' /\ Request(u)' = Request(u)
        BY <1>3, <2>1, <2>2
        DEF Finish, clients, Requesting, Request, Active, get_transaction_status
    <2> QED
        BY <1>3, <2>2 DEF EdgesAreCurrentWaits, Blockers
<1> QED
    BY <1>2, <1>3 DEF Finish, end_transaction, TypeOK, TransactionInfo2PL

(* Every step of every thread keeps the invariant.                         *)
LEMMA ClientInvariantInductive ==
    ClientInvariant /\ [ClientNext]_clientVars => ClientInvariant'
<1> SUFFICES ASSUME ClientInvariant, [ClientNext]_clientVars
             PROVE  ClientInvariant'
    OBVIOUS
<1>1. ClientTyped' /\ ManagerInvariant' /\ ActiveAreGrowing'
    BY ClientTypedInductive, ManagerInvariantKept, ActiveAreGrowingKept
    DEF ClientInvariant, ManagerInvariant
<1>2. ASSUME UNCHANGED clientVars PROVE EdgesAreCurrentWaits'
    BY <1>2 DEF clientVars, ClientInvariant, EdgesAreCurrentWaits, Requesting, Request, Active,
       get_transaction_status, Blockers
<1>3. EdgesAreCurrentWaits'
    BY <1>2, StartKeepsEdges, PollAllowedKeepsEdges, PollRefusedKeepsEdges, FinishKeepsEdges
    DEF ClientNext, Thread
<1> QED
    BY <1>1, <1>3 DEF ClientInvariant

(* The invariant holds in every state the threads reach.                   *)
THEOREM ClientsInvariant == ClientSpec => []ClientInvariant
<1>1. ASSUME ClientInit
      PROVE  ClientInvariant
    <2>1. TypeOK
        BY <1>1, MaxTransactionsAssumption
        DEF ClientInit, Init, TypeOK, TransactionInfo2PL, TransactionStatus,
            TransactionPhase, NoTid
    <2>2. LockInvariant
        BY <1>1, MaxTransactionsAssumption
        DEF ClientInit, Init, LockInvariant, LockExclusion, LockedRecordsAgree, HoldsLock,
            FreshIds, get_transaction_status, Active, Tids, NoTid
    <2>3. QueueInvariant
        BY <1>1 DEF ClientInit, Init, QueueInvariant, QueuedOnce, Queued, Contains
    <2>4. GraphInvariant
        BY <1>1 DEF ClientInit, Init, GraphInvariant, WaitForEdgesAreWaits,
           WaitForGraphAcyclic
    <2>5. ClientTyped /\ ActiveAreGrowing /\ EdgesAreCurrentWaits
        BY <1>1 DEF ClientInit, Init, ClientTyped, ActiveAreGrowing, EdgesAreCurrentWaits
    <2> QED
        BY <2>1, <2>2, <2>3, <2>4, <2>5 DEF ClientInvariant, ManagerInvariant
<1> QED
    BY <1>1, ClientInvariantInductive, PTL DEF ClientSpec

(* An edge of the wait-for graph never outlives the request it was drawn   *)
(* for: in every state, t's edges lead to holders in the way of the very   *)
(* lock t polls for (detect_deadlock, release_all_locks, acquire_*_lock).  *)
THEOREM EdgesAlwaysCurrent == ClientSpec => []EdgesAreCurrentWaits
<1>1. ClientInvariant => EdgesAreCurrentWaits
    BY DEF ClientInvariant
<1> QED
    BY <1>1, ClientsInvariant, PTL

(* The cycle check_cycle found through the requester's tentative edge is a *)
(* set of threads each of which is blocked by another of the set.          *)
LEMMA CyclesAreDeadlocks ==
    ASSUME ClientInvariant, NEW t \in Tids, Requesting(t),
           Blockers(t, Request(t).record, Request(t).action) # {},
           detect_deadlock(t, FirstBlocker(t, Request(t).record, Request(t).action))
    PROVE  \E C \in SUBSET (Tids \ {t}) :
                /\ C \cap Blockers(t, Request(t).record, Request(t).action) # {}
                /\ \A u \in C :
                    /\ Requesting(u)
                    /\ (C \cup {t}) \cap
                           Blockers(u, Request(u).record, Request(u).action) # {}
<1> USE DEF ClientInvariant, ManagerInvariant
<1>1. PICK r \in Records, a \in Actions : r = Request(t).record /\ a = Request(t).action
    BY RequestTyped
<1> DEFINE h == FirstBlocker(t, r, a)
<1>2. h \in Blockers(t, r, a) /\ Blockers(t, r, a) \subseteq Tids \ {t}
    BY <1>1, BlockersHold
<1>3. PICK D \in SUBSET Tids :
        t \in D /\ \A u \in D : AddEdge(wait_for_graph, t, h)[u] \cap D # {}
    BY <1>1 DEF detect_deadlock, check_cycle
<1> HIDE DEF h
<1>4. (D \ {t}) \cap Blockers(t, r, a) # {}
    <2>1. PICK u \in D : u \in wait_for_graph[t] \cup {h}
        BY <1>3 DEF AddEdge, TypeOK
    <2>2. u \in Blockers(t, r, a)
        BY <1>1, <1>2, <2>1 DEF EdgesAreCurrentWaits
    <2> QED
        BY <1>2, <2>1, <2>2
<1>5. ASSUME NEW u \in D \ {t}
      PROVE  /\ Requesting(u)
             /\ ((D \ {t}) \cup {t}) \cap
                    Blockers(u, Request(u).record, Request(u).action) # {}
    <2>1. PICK v \in D : v \in wait_for_graph[u]
        BY <1>3, <1>5 DEF AddEdge, TypeOK
    <2> QED
        BY <2>1 DEF EdgesAreCurrentWaits
<1>6. D \ {t} \in SUBSET (Tids \ {t})
    OBVIOUS
<1> QED
    BY <1>1, <1>4, <1>5, <1>6

(* No transaction is aborted for nothing: the victim is part of a set of   *)
(* threads that block one another and of which none could go on.           *)
THEOREM VictimsAlwaysCloseCycles == ClientSpec => VictimsCloseCycles
<1> DEFINE Deadlock(t) ==
        \E C \in SUBSET (Tids \ {t}) :
            /\ C \cap Blockers(t, Request(t).record, Request(t).action) # {}
            /\ \A u \in C :
                /\ Requesting(u)
                /\ (C \cup {t}) \cap
                       Blockers(u, Request(u).record, Request(u).action) # {}
<1> DEFINE Justified ==
        \A t \in Tids :
            Active(t) /\ get_transaction_status(t)' = "ABORTED" => Deadlock(t)
<1>1. ClientInvariant /\ [ClientNext]_clientVars => [Justified]_clientVars
    <2> SUFFICES ASSUME ClientInvariant, ClientNext,
                        NEW t \in Tids, Active(t), transactions'[t].status = "ABORTED"
                 PROVE  Deadlock(t)
        BY DEF get_transaction_status
    <2> USE DEF ClientInvariant, ManagerInvariant
    <2> HIDE DEF Deadlock
    <2>1. \A u \in Tids : Active(u) => transactions[u].status # "ABORTED"
        BY DEF Active, get_transaction_status
    <2>2. CASE Start
        BY <2>1, <2>2 DEF Start, begin_transaction, TypeOK
    <2>3. ASSUME NEW v \in Tids, PollAllowed(v)
          PROVE  FALSE
        <3>1. PICK r \in Records, a \in Actions : AllowLocked(v, r, a) \/ GrantLock(v, r, a)
            BY <2>3, RequestTyped DEF PollAllowed
        <3>2. CASE AllowLocked(v, r, a)
            BY <2>1, <3>2 DEF AllowLocked, vars
        <3>3. CASE GrantLock(v, r, a)
            BY <2>1, <3>3 DEF GrantLock, TypeOK, TransactionInfo2PL
        <3> QED
            BY <3>1, <3>2, <3>3
    <2>4. ASSUME NEW v \in Tids, NEW info \in TransactionInfo2PL, release_all_locks(v, info)
          PROVE  v = t /\ info.status = "ABORTED"
        <3>1. v # t => transactions'[t] = transactions[t]
            BY <2>4 DEF release_all_locks, TypeOK
        <3>2. transactions'[v].status = info.status
            BY <2>4 DEF release_all_locks, TypeOK, TransactionInfo2PL
        <3> QED
            BY <2>1, <3>1, <3>2
    <2>5. ASSUME NEW v \in Tids, Finish(v)
          PROVE  FALSE
        <3> DEFINE over == [transactions[v] EXCEPT !.phase = "SHRINKING",
                                                   !.status = "COMMITTED"]
        <3>1. over \in TransactionInfo2PL /\ over.status # "ABORTED"
            BY DEF TypeOK, TransactionInfo2PL, TransactionPhase, TransactionStatus
        <3>2. CASE release_all_locks(v, over)
            <4> HIDE DEF over
            <4> QED
                BY <2>4, <3>1, <3>2
        <3>3. CASE transactions' = [transactions EXCEPT ![v] =
                                        [transactions[v] EXCEPT !.phase = "SHRINKING"]]
            BY <2>1, <3>3 DEF TypeOK, TransactionInfo2PL
        <3> QED
            BY <2>5, <3>2, <3>3 DEF Finish, end_transaction, TypeOK, TransactionInfo2PL
    <2>6. ASSUME NEW v \in Tids, PollRefused(v)
          PROVE  Deadlock(t)
        <3>1. PICK r \in Records, a \in Actions : r = Request(v).record /\ a = Request(v).action
            BY <2>6, RequestTyped DEF PollRefused
        <3>2. Requesting(v) /\ AbortRequester(v, r, a)
            BY <2>1, <2>6, <3>1 DEF PollRefused, WaitInQueue, WaitForHolder
        <3>3. v = t
            <4> DEFINE info == [transactions[v] EXCEPT !.status = "ABORTED"]
            <4>1. info \in TransactionInfo2PL
                BY DEF TypeOK, TransactionInfo2PL, TransactionStatus
            <4>2. release_all_locks(v, info)
                BY <3>2 DEF AbortRequester, abort_transaction
            <4> HIDE DEF info
            <4> QED
                BY <2>4, <4>1, <4>2
        <3>4. Blockers(t, r, a) # {} /\ detect_deadlock(t, FirstBlocker(t, r, a))
            BY <3>2, <3>3 DEF AbortRequester, MustAbort, ActiveAreGrowing
        <3> QED
            BY <3>1, <3>2, <3>3, <3>4, CyclesAreDeadlocks DEF Deadlock
    <2> QED
        BY <2>2, <2>3, <2>5, <2>6 DEF ClientNext, Thread
<1> QED
    BY <1>1, ClientsInvariant, PTL DEF ClientSpec, VictimsCloseCycles

=============================================================================
