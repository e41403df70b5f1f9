------------------------ MODULE TwoPhaseLockingProofs ------------------------
(***************************************************************************)
(* Proofs that TwoPhaseLocking keeps its lock tables, its wait-for graph   *)
(* and its queues in order, for every set of records and every number of   *)
(* transactions.                                                           *)
(***************************************************************************)
EXTENDS TwoPhaseLocking, DataLemmas, SequenceTheorems, TLAPS

-----------------------------------------------------------------------------
(* Lemmas about the queues.                                                *)

(* What RemoveAt returns: the other elements, in their order.              *)
LEMMA RemoveAtElements ==
    ASSUME NEW S, NEW q \in Seq(S), NEW i \in 1..Len(q)
    PROVE  /\ RemoveAt(q, i) \in Seq(S)
           /\ Len(RemoveAt(q, i)) = Len(q) - 1
           /\ \A j \in 1..Len(q) - 1 :
                RemoveAt(q, i)[j] = IF j < i THEN q[j] ELSE q[j + 1]
<1> DEFINE front == SubSeq(q, 1, i - 1)
           back == SubSeq(q, i + 1, Len(q))
<1>1. Len(q) \in Nat /\ \A j \in 1..Len(q) : q[j] \in S
    BY ElementOfSeq, LenProperties
<1>2. /\ front \in Seq(S)
      /\ Len(front) = i - 1
      /\ \A j \in 1..i - 1 : front[j] = q[j]
    BY <1>1, SubSeqProperties, \A j \in 1..i - 1 : q[j] \in S
<1>3. /\ back \in Seq(S)
      /\ Len(back) = Len(q) - i
      /\ \A j \in 1..Len(q) - i : back[j] = q[j + i]
    BY <1>1, SubSeqProperties, \A j \in i + 1..Len(q) : q[j] \in S
<1>4. RemoveAt(q, i) = front \o back
    BY DEF RemoveAt
<1> HIDE DEF front, back
<1>5. /\ front \o back \in Seq(S)
      /\ Len(front \o back) = Len(front) + Len(back)
      /\ \A j \in 1..Len(front) + Len(back) :
            (front \o back)[j] = IF j <= Len(front) THEN front[j] ELSE back[j - Len(front)]
    BY <1>2, <1>3, ConcatProperties
<1>6. ASSUME NEW j \in 1..Len(q) - 1
      PROVE  (front \o back)[j] = IF j < i THEN q[j] ELSE q[j + 1]
    <2>1. CASE j < i
        BY <1>1, <1>2, <1>3, <1>5, <2>1
    <2>2. CASE ~(j < i)
        <3>1. j - (i - 1) \in 1..Len(q) - i /\ (j - (i - 1)) + i = j + 1
            BY <1>1, <2>2
        <3>2. (front \o back)[j] = back[j - (i - 1)]
            BY <1>1, <1>2, <1>3, <1>5, <2>2
        <3>3. back[j - (i - 1)] = q[(j - (i - 1)) + i]
            BY <1>3, <3>1
        <3> QED
            BY <2>2, <3>1, <3>2, <3>3
    <2> QED
        BY <2>1, <2>2
<1> QED
    BY <1>1, <1>2, <1>3, <1>4, <1>5, <1>6

(* Without returns a queue of the same elements.                           *)
LEMMA WithoutInSeq ==
    ASSUME NEW S, NEW q \in Seq(S), NEW t
    PROVE  Without(q, t) \in Seq(S)
<1>1. CASE ~Contains(q, t)
    BY <1>1 DEF Without
<1>2. CASE Contains(q, t)
    <2> DEFINE k == CHOOSE i \in 1..Len(q) : q[i] = t
    <2>1. k \in 1..Len(q)
        BY <1>2 DEF Contains
    <2>2. Without(q, t) = RemoveAt(q, k)
        BY <1>2 DEF Without
    <2> HIDE DEF k
    <2> QED
        BY <2>1, <2>2, RemoveAtElements
<1> QED
    BY <1>1, <1>2

(* Without removes the one entry of t and keeps the others.                *)
LEMMA WithoutElements ==
    ASSUME NEW S, NEW q \in Seq(S), NEW t,
           \A i, j \in 1..Len(q) : q[i] = q[j] => i = j
    PROVE  /\ Without(q, t) \in Seq(S)
           /\ \A u : Contains(Without(q, t), u) <=> Contains(q, u) /\ u # t
           /\ \A i, j \in 1..Len(Without(q, t)) :
                Without(q, t)[i] = Without(q, t)[j] => i = j
<1>1. CASE ~Contains(q, t)
    BY <1>1 DEF Without, Contains
<1>2. CASE Contains(q, t)
    <2> DEFINE k == CHOOSE i \in 1..Len(q) : q[i] = t
               w == RemoveAt(q, k)
    <2>1. k \in 1..Len(q) /\ q[k] = t
        BY <1>2 DEF Contains
    <2>2. Without(q, t) = w
        BY <1>2 DEF Without
    <2> HIDE DEF k
    <2>3. /\ w \in Seq(S)
          /\ Len(w) = Len(q) - 1
          /\ \A j \in 1..Len(q) - 1 : w[j] = IF j < k THEN q[j] ELSE q[j + 1]
        BY <2>1, RemoveAtElements
    <2> HIDE DEF w
    <2>4. Len(q) \in Nat
        BY LenProperties
    <2>5. ASSUME NEW u, Contains(w, u)
          PROVE  Contains(q, u) /\ u # t
        <3>1. PICK j \in 1..Len(w) : w[j] = u
            BY <2>5 DEF Contains
        <3>2. CASE j < k
            BY <2>1, <2>3, <2>4, <3>1, <3>2 DEF Contains
        <3>3. CASE ~(j < k)
            BY <2>1, <2>3, <2>4, <3>1, <3>3 DEF Contains
        <3> QED
            BY <3>2, <3>3
    <2>6. ASSUME NEW u, Contains(q, u), u # t
          PROVE  Contains(w, u)
        <3>1. PICK j \in 1..Len(q) : q[j] = u
            BY <2>6 DEF Contains
        <3>2. CASE j < k
            BY <2>1, <2>3, <2>4, <3>1, <3>2 DEF Contains
        <3>3. CASE j > k
            <4>1. j - 1 \in 1..Len(w) /\ w[j - 1] = u
                BY <2>1, <2>3, <2>4, <3>1, <3>3
            <4> QED
                BY <4>1 DEF Contains
        <3> QED
            BY <2>1, <2>4, <2>6, <3>1, <3>2, <3>3
    <2>7. \A i, j \in 1..Len(w) : w[i] = w[j] => i = j
        BY <2>1, <2>3, <2>4
    <2> QED
        BY <2>2, <2>3, <2>5, <2>6, <2>7
<1> QED
    BY <1>1, <1>2

-----------------------------------------------------------------------------
(* The holder the code looks at.                                           *)

(* A nonempty set of naturals has the least element Min chooses.           *)
LEMMA MinIsLeast ==
    ASSUME NEW S \in SUBSET Nat, S # {}
    PROVE  Min(S) \in S
BY LeastNatural DEF Min

(* Blockers are transactions other than the requester that hold a lock,    *)
(* and the first of them is one.                                           *)
LEMMA BlockersHold ==
    ASSUME TypeOK, NEW t \in Tids, NEW r \in Records, NEW a \in Actions
    PROVE  /\ Blockers(t, r, a) \subseteq Tids \ {t}
           /\ \A u \in Blockers(t, r, a) : HoldsLock(u, r)
           /\ Blockers(t, r, a) # {} => FirstBlocker(t, r, a) \in Blockers(t, r, a)
<1>1. Blockers(t, r, a) \subseteq Tids \ {t}
    BY MaxTransactionsAssumption DEF TypeOK, Blockers, Tids, NoTid
<1>2. \A u \in Blockers(t, r, a) : HoldsLock(u, r)
    BY DEF TypeOK, Blockers, HoldsLock
<1>3. ASSUME Blockers(t, r, a) # {}
      PROVE  FirstBlocker(t, r, a) \in Blockers(t, r, a)
    <2>1. Blockers(t, r, a) \in SUBSET Nat
        BY <1>1, MaxTransactionsAssumption DEF Tids
    <2> QED
        BY <1>3, <2>1, MinIsLeast DEF FirstBlocker
<1> QED
    BY <1>1, <1>2, <1>3

-----------------------------------------------------------------------------
(* Type correctness.                                                       *)

(* release_all_locks leaves well typed members.                            *)
LEMMA ReleaseTyped ==
    ASSUME TypeOK, NEW t \in Tids, NEW info \in TransactionInfo2PL,
           release_all_locks(t, info)
    PROVE  TypeOK'
<1> USE DEF release_all_locks
<1>1. transactions' \in [Tids -> TransactionInfo2PL]
    BY DEF TypeOK, TransactionInfo2PL
<1>2. x_lock_table' \in [Records -> Tids \cup {NoTid}]
    BY DEF TypeOK
<1>3. s_lock_table' \in [Records -> SUBSET Tids]
    BY DEF TypeOK
<1>4. wait_for_graph' \in [Tids -> SUBSET Tids]
    BY DEF TypeOK
<1>5. lock_wait_queue' \in [Records -> Seq(Tids)]
    BY WithoutInSeq DEF TypeOK
<1> QED
    BY <1>1, <1>2, <1>3, <1>4, <1>5 DEF TypeOK

(* A queue that takes one more transaction is still a queue of ids.        *)
LEMMA EnqueueTyped ==
    ASSUME TypeOK, NEW t \in Tids, NEW r \in Records, Enqueue(t, r)
    PROVE  lock_wait_queue' \in [Records -> Seq(Tids)]
<1>1. Append(lock_wait_queue[r], t) \in Seq(Tids)
    BY DEF TypeOK
<1> QED
    BY <1>1 DEF TypeOK, Enqueue

(* Every operation leaves well typed members.                              *)
LEMMA TypeInductive ==
    TypeOK /\ [Next]_vars => TypeOK'
<1> SUFFICES ASSUME TypeOK, [Next]_vars
             PROVE  TypeOK'
    OBVIOUS
<1>1. CASE begin_transaction
    <2>1. current_transaction_id' \in Tids
        BY <1>1, MaxTransactionsAssumption DEF begin_transaction, TypeOK, Tids
    <2> QED
        BY <1>1, <2>1, MaxTransactionsAssumption
        DEF begin_transaction, TypeOK, Tids, TransactionInfo2PL, TransactionStatus,
            TransactionPhase
<1>2. ASSUME NEW t \in Tids, end_transaction(t)
      PROVE  TypeOK'
    <2> DEFINE info == [transactions[t] EXCEPT !.phase = "SHRINKING"]
    <2>1. info \in TransactionInfo2PL
        BY DEF TypeOK, TransactionInfo2PL, TransactionPhase
    <2>2. CASE info.status = "ABORTED"
        BY <1>2, <2>1, <2>2 DEF end_transaction, TypeOK
    <2>3. CASE info.status # "ABORTED"
        <3>1. [info EXCEPT !.status = "COMMITTED"] \in TransactionInfo2PL
            BY <2>1 DEF TransactionInfo2PL, TransactionStatus
        <3>2. release_all_locks(t, [info EXCEPT !.status = "COMMITTED"])
            BY <1>2, <2>3 DEF end_transaction
        <3> QED
            BY <3>1, <3>2, ReleaseTyped
    <2> QED
        BY <2>2, <2>3
<1>3. ASSUME NEW t \in Tids, NEW r \in Records, NEW a \in Actions,
             validate_object(t, r, a)
      PROVE  TypeOK'
    <2>1. CASE WaitInQueue(t, r)
        BY <2>1, EnqueueTyped DEF WaitInQueue, TypeOK
    <2>2. CASE WaitForHolder(t, r, a)
        <3>1. FirstBlocker(t, r, a) \in Tids
            BY <2>2, BlockersHold DEF WaitForHolder
        <3>2. wait_for_graph' \in [Tids -> SUBSET Tids]
            BY <2>2, <3>1 DEF WaitForHolder, AddEdge, TypeOK
        <3> QED
            BY <2>2, <3>2, EnqueueTyped DEF WaitForHolder, TypeOK
    <2>3. CASE AbortRequester(t, r, a)
        <3>1. [transactions[t] EXCEPT !.status = "ABORTED"] \in TransactionInfo2PL
            BY DEF TypeOK, TransactionInfo2PL, TransactionStatus
        <3> QED
            BY <2>3, <3>1, ReleaseTyped DEF AbortRequester, abort_transaction
    <2>4. CASE GrantLock(t, r, a)
        <3> USE <2>4 DEF GrantLock
        <3>1. /\ x_lock_table' \in [Records -> Tids \cup {NoTid}]
              /\ s_lock_table' \in [Records -> SUBSET Tids]
            BY DEF TypeOK
        <3>2. transactions' \in [Tids -> TransactionInfo2PL]
            BY DEF TypeOK, TransactionInfo2PL
        <3>3. wait_for_graph' \in [Tids -> SUBSET Tids]
            BY DEF TypeOK
        <3>4. lock_wait_queue[r] # <<>> => Tail(lock_wait_queue[r]) \in Seq(Tids)
            BY HeadTailProperties DEF TypeOK
        <3>5. lock_wait_queue' \in [Records -> Seq(Tids)]
            BY <3>4 DEF TypeOK
        <3> QED
            BY <3>1, <3>2, <3>3, <3>5 DEF TypeOK
    <2>5. CASE UNCHANGED vars
        BY <2>5 DEF vars, TypeOK
    <2> QED
        BY <1>3, <2>1, <2>2, <2>3, <2>4, <2>5
        DEF validate_object, RefuseInactive, AllowLocked
<1>4. CASE UNCHANGED vars
    BY <1>4 DEF vars, TypeOK
<1> QED
    BY <1>1, <1>2, <1>3, <1>4 DEF Next

(* Every operation keeps the members of the class well typed.              *)
THEOREM TypeCorrect == Spec => []TypeOK
<1>1. Init => TypeOK
    BY MaxTransactionsAssumption
    DEF Init, TypeOK, TransactionInfo2PL, TransactionStatus, TransactionPhase, NoTid
<1> QED
    BY <1>1, TypeInductive, PTL DEF Spec

-----------------------------------------------------------------------------
(* The lock tables.                                                        *)

(* Ids above the counter have not been given out.                          *)
FreshIds ==
    \A t \in Tids : t > current_transaction_id => get_transaction_status(t) = "TERMINATED"

(* The inductive invariant of the lock tables: a new transaction starts    *)
(* with no locks because its id is fresh, and a fresh id holds none        *)
(* because no inactive one does.                                           *)
LockInvariant ==
    /\ LockExclusion
    /\ LockedRecordsAgree
    /\ FreshIds
    /\ \A t \in Tids : ~Active(t) => transactions[t].locked_records = {}

(* release_all_locks takes every lock of t away and none of anyone else.   *)
LEMMA ReleaseLocks ==
    ASSUME TypeOK, LockInvariant, NEW t \in Tids,
           NEW info \in TransactionInfo2PL,
           info.locked_records = transactions[t].locked_records,
           release_all_locks(t, info)
    PROVE  /\ \A u \in Tids, r \in Records :
                HoldsLock(u, r)' <=> HoldsLock(u, r) /\ u # t
           /\ LockExclusion'
           /\ transactions'[t].locked_records = {}
           /\ transactions'[t].status = info.status
           /\ transactions'[t].phase = info.phase
           /\ \A u \in Tids \ {t} : transactions'[u] = transactions[u]
<1> DEFINE released == {r \in info.locked_records : HoldsLock(t, r)}
<1>1. released = info.locked_records
    BY DEF LockInvariant, LockedRecordsAgree, TransactionInfo2PL
<1>2. \A r \in Records : r \in released <=> HoldsLock(t, r)
    BY <1>1 DEF LockInvariant, LockedRecordsAgree
<1>3. /\ s_lock_table' = [r \in Records |->
            IF r \in released THEN s_lock_table[r] \ {t} ELSE s_lock_table[r]]
      /\ x_lock_table' = [r \in Records |->
            IF r \in released /\ x_lock_table[r] = t THEN NoTid ELSE x_lock_table[r]]
      /\ transactions' = [transactions EXCEPT ![t] =
            [info EXCEPT !.locked_records = @ \ released]]
    BY DEF release_all_locks
<1> HIDE DEF released
<1>4. \A u \in Tids, r \in Records : HoldsLock(u, r)' <=> HoldsLock(u, r) /\ u # t
    <2> SUFFICES ASSUME NEW u \in Tids, NEW r \in Records
                 PROVE  HoldsLock(u, r)' <=> HoldsLock(u, r) /\ u # t
        OBVIOUS
    <2>1. u # NoTid
        BY MaxTransactionsAssumption DEF Tids, NoTid
    <2> QED
        BY <1>2, <1>3, <2>1 DEF HoldsLock
<1>5. LockExclusion'
    BY <1>2, <1>3 DEF LockInvariant, LockExclusion, HoldsLock
<1>6. /\ transactions'[t].locked_records = {}
      /\ transactions'[t].status = info.status
      /\ transactions'[t].phase = info.phase
      /\ \A u \in Tids \ {t} : transactions'[u] = transactions[u]
    BY <1>1, <1>3 DEF TypeOK, TransactionInfo2PL
<1> QED
    BY <1>4, <1>5, <1>6

(* The end of a transaction keeps the lock tables in order.                *)
LEMMA ReleaseKeepsLockInvariant ==
    ASSUME TypeOK, LockInvariant, NEW t \in Tids,
           NEW info \in TransactionInfo2PL,
           info.locked_records = transactions[t].locked_records,
           get_transaction_status(t) # "TERMINATED",
           release_all_locks(t, info)
    PROVE  LockInvariant'
<1>1. current_transaction_id' = current_transaction_id
    BY DEF release_all_locks
<1>2. LockedRecordsAgree'
    <2> SUFFICES ASSUME NEW u \in Tids, NEW r \in Records
                 PROVE  r \in transactions'[u].locked_records <=> HoldsLock(u, r)'
        BY DEF LockedRecordsAgree
    <2>1. CASE u = t
        BY <2>1, ReleaseLocks
    <2>2. CASE u # t
        BY <2>2, ReleaseLocks DEF LockInvariant, LockedRecordsAgree
    <2> QED
        BY <2>1, <2>2
<1>3. FreshIds'
    BY <1>1, ReleaseLocks DEF LockInvariant, FreshIds, get_transaction_status
<1>4. ASSUME NEW u \in Tids, ~Active(u)'
      PROVE  transactions'[u].locked_records = {}
    BY <1>4, ReleaseLocks DEF LockInvariant, Active, get_transaction_status
<1> QED
    BY <1>2, <1>3, <1>4, ReleaseLocks DEF LockInvariant

(* Granting a lock gives t, and nobody else, a lock on r.                  *)
LEMMA GrantLocks ==
    ASSUME TypeOK, LockInvariant, NEW t \in Tids, NEW r \in Records,
           NEW a \in Actions, GrantLock(t, r, a)
    PROVE  /\ \A u \in Tids, q \in Records :
                HoldsLock(u, q)' <=> HoldsLock(u, q) \/ (u = t /\ q = r)
           /\ LockExclusion'
           /\ transactions'[t].locked_records = transactions[t].locked_records \cup {r}
           /\ transactions'[t].status = transactions[t].status
           /\ transactions'[t].phase = transactions[t].phase
           /\ \A u \in Tids \ {t} : transactions'[u] = transactions[u]
<1>1. t # NoTid
    BY MaxTransactionsAssumption DEF Tids, NoTid
<1>2. /\ s_lock_table' = [s_lock_table EXCEPT ![r] =
            IF a = "READ" THEN @ \cup {t} ELSE @ \ {t}]
      /\ x_lock_table' = [x_lock_table EXCEPT ![r] = IF a = "READ" THEN @ ELSE t]
      /\ transactions' = [transactions EXCEPT ![t].locked_records = @ \cup {r}]
      /\ ~AlreadyLocked(t, r, a)
      /\ Blockers(t, r, a) = {}
    BY DEF GrantLock, NeedsLock
<1>3. x_lock_table[r] \in {t, NoTid}
    BY <1>2 DEF Blockers
<1>4. a = "READ" => x_lock_table[r] = NoTid
    BY <1>1, <1>2, <1>3 DEF AlreadyLocked, LockInvariant, LockedRecordsAgree, HoldsLock
<1>5. a # "READ" => s_lock_table[r] \subseteq {t} /\ x_lock_table[r] = NoTid
    BY <1>1, <1>2, <1>3, MaxTransactionsAssumption
    DEF AlreadyLocked, Blockers, TypeOK, Tids, NoTid
<1>6. \A u \in Tids, q \in Records :
        HoldsLock(u, q)' <=> HoldsLock(u, q) \/ (u = t /\ q = r)
    <2> SUFFICES ASSUME NEW u \in Tids, NEW q \in Records
                 PROVE  HoldsLock(u, q)' <=> HoldsLock(u, q) \/ (u = t /\ q = r)
        OBVIOUS
    <2>1. u # NoTid
        BY MaxTransactionsAssumption DEF Tids, NoTid
    <2>2. CASE q # r
        BY <1>2, <2>2 DEF HoldsLock, TypeOK
    <2>3. CASE q = r /\ a = "READ"
        BY <1>2, <1>4, <2>1, <2>3 DEF HoldsLock, TypeOK
    <2>4. CASE q = r /\ a # "READ"
        BY <1>2, <1>5, <2>1, <2>4 DEF HoldsLock, TypeOK
    <2> QED
        BY <2>2, <2>3, <2>4
<1>7. LockExclusion'
    BY <1>2, <1>4, <1>5 DEF LockInvariant, LockExclusion, TypeOK
<1>8. /\ transactions'[t].locked_records = transactions[t].locked_records \cup {r}
      /\ transactions'[t].status = transactions[t].status
      /\ transactions'[t].phase = transactions[t].phase
      /\ \A u \in Tids \ {t} : transactions'[u] = transactions[u]
    BY <1>2 DEF TypeOK, TransactionInfo2PL
<1> QED
    BY <1>6, <1>7, <1>8

(* An operation that changes neither the entries nor the lock tables nor   *)
(* the counter keeps the lock invariant.                                   *)
LEMMA LocksUntouched ==
    ASSUME LockInvariant,
           UNCHANGED <<current_transaction_id, transactions, x_lock_table, s_lock_table>>
    PROVE  LockInvariant'
BY DEF LockInvariant, LockExclusion, LockedRecordsAgree, HoldsLock, FreshIds, Active,
       get_transaction_status

(* Every operation keeps the lock tables in order.                         *)
LEMMA LockInvariantInductive ==
    TypeOK /\ LockInvariant /\ [Next]_vars => LockInvariant'
<1> SUFFICES ASSUME TypeOK, LockInvariant, [Next]_vars
             PROVE  LockInvariant'
    OBVIOUS
<1>1. CASE begin_transaction
    <2> DEFINE new == current_transaction_id + 1
    <2>1. /\ new \in Tids
          /\ current_transaction_id \in Nat
          /\ current_transaction_id' = new
          /\ transactions' = [transactions EXCEPT ![new] =
                [status |-> "ACTIVE", phase |-> "GROWING", locked_records |-> {}]]
          /\ UNCHANGED <<x_lock_table, s_lock_table>>
        BY <1>1, MaxTransactionsAssumption DEF begin_transaction, TypeOK, Tids
    <2> HIDE DEF new
    <2>2. get_transaction_status(new) = "TERMINATED"
        BY <2>1 DEF LockInvariant, FreshIds, new
    <2>3. transactions[new].locked_records = {}
        BY <2>1, <2>2 DEF LockInvariant, Active
    <2>4. LockExclusion'
        BY <2>1 DEF LockInvariant, LockExclusion
    <2>5. LockedRecordsAgree'
        BY <2>1, <2>3 DEF LockInvariant, LockedRecordsAgree, HoldsLock, TypeOK
    <2>6. FreshIds'
        BY <2>1, MaxTransactionsAssumption
        DEF LockInvariant, FreshIds, get_transaction_status, TypeOK, Tids, new
    <2>7. \A t \in Tids : ~Active(t)' => transactions'[t].locked_records = {}
        BY <2>1 DEF LockInvariant, Active, get_transaction_status, TypeOK
    <2> QED
        BY <2>4, <2>5, <2>6, <2>7 DEF LockInvariant
<1>2. ASSUME NEW t \in Tids, end_transaction(t)
      PROVE  LockInvariant'
    <2> DEFINE info == [transactions[t] EXCEPT !.phase = "SHRINKING"]
               over == [info EXCEPT !.status = "COMMITTED"]
    <2>1. /\ info \in TransactionInfo2PL
          /\ info.locked_records = transactions[t].locked_records
          /\ info.status = transactions[t].status
          /\ over \in TransactionInfo2PL
          /\ over.locked_records = transactions[t].locked_records
        BY DEF TypeOK, TransactionInfo2PL, TransactionPhase, TransactionStatus
    <2>2. CASE info.status = "ABORTED"
        <3>1. /\ transactions' = [transactions EXCEPT ![t] = info]
              /\ UNCHANGED <<current_transaction_id, x_lock_table, s_lock_table>>
            BY <1>2, <2>2 DEF end_transaction
        <3> HIDE DEF info
        <3>2. LockedRecordsAgree'
            BY <2>1, <3>1 DEF LockInvariant, LockedRecordsAgree, HoldsLock, TypeOK
        <3>3. FreshIds'
            BY <2>1, <3>1 DEF LockInvariant, FreshIds, get_transaction_status, TypeOK
        <3>4. \A u \in Tids : ~Active(u)' => transactions'[u].locked_records = {}
            BY <2>1, <3>1 DEF LockInvariant, Active, get_transaction_status, TypeOK
        <3> QED
            BY <3>1, <3>2, <3>3, <3>4 DEF LockInvariant, LockExclusion
    <2>3. CASE info.status # "ABORTED"
        <3>1. release_all_locks(t, over) /\ get_transaction_status(t) # "TERMINATED"
            BY <1>2, <2>3 DEF end_transaction
        <3> QED
            BY <2>1, <3>1, ReleaseKeepsLockInvariant
    <2> QED
        BY <2>2, <2>3
<1>3. ASSUME NEW t \in Tids, NEW r \in Records, NEW a \in Actions,
             validate_object(t, r, a)
      PROVE  LockInvariant'
    <2>1. CASE WaitInQueue(t, r) \/ WaitForHolder(t, r, a)
        BY <2>1, LocksUntouched DEF WaitInQueue, WaitForHolder
    <2>2. CASE AbortRequester(t, r, a)
        <3> DEFINE info == [transactions[t] EXCEPT !.status = "ABORTED"]
        <3>1. info \in TransactionInfo2PL /\ info.locked_records = transactions[t].locked_records
            BY DEF TypeOK, TransactionInfo2PL, TransactionStatus
        <3>2. release_all_locks(t, info) /\ get_transaction_status(t) # "TERMINATED"
            BY <2>2
            DEF AbortRequester, abort_transaction, MustAbort, NeedsLock, MayAcquire, Active
        <3> QED
            BY <3>1, <3>2, ReleaseKeepsLockInvariant
    <2>3. CASE GrantLock(t, r, a)
        <3>1. current_transaction_id' = current_transaction_id
            BY <2>3 DEF GrantLock
        <3>2. LockedRecordsAgree'
            BY <2>3, GrantLocks DEF LockInvariant, LockedRecordsAgree
        <3>3. FreshIds'
            BY <2>3, <3>1, GrantLocks DEF LockInvariant, FreshIds, get_transaction_status
        <3>4. Active(t)
            BY <2>3 DEF GrantLock, NeedsLock, MayAcquire
        <3>5. \A u \in Tids : ~Active(u)' => transactions'[u].locked_records = {}
            BY <2>3, <3>4, GrantLocks DEF LockInvariant, Active, get_transaction_status
        <3> QED
            BY <2>3, <3>2, <3>3, <3>5, GrantLocks DEF LockInvariant
    <2>4. CASE UNCHANGED vars
        BY <2>4, LocksUntouched DEF vars
    <2> QED
        BY <1>3, <2>1, <2>2, <2>3, <2>4 DEF validate_object, RefuseInactive, AllowLocked
<1>4. CASE UNCHANGED vars
    BY <1>4, LocksUntouched DEF vars
<1> QED
    BY <1>1, <1>2, <1>3, <1>4 DEF Next

(* A step of one transaction takes no lock from another.                   *)
LEMMA OthersKeepLocks ==
    ASSUME TypeOK, LockInvariant, NEW u \in Tids, NEW t \in Tids \ {u}, NEW r \in Records,
           \/ begin_transaction \/ end_transaction(u)
           \/ \E q \in Records, a \in Actions : validate_object(u, q, a)
    PROVE  /\ HoldsLock(t, r) => HoldsLock(t, r)'
           /\ x_lock_table[r] = t => x_lock_table'[r] = t
<1>1. CASE UNCHANGED <<x_lock_table, s_lock_table>>
    BY <1>1 DEF HoldsLock
<1>2. ASSUME NEW info, release_all_locks(u, info)
      PROVE  /\ HoldsLock(t, r) => HoldsLock(t, r)'
             /\ x_lock_table[r] = t => x_lock_table'[r] = t
    BY <1>2 DEF release_all_locks, HoldsLock, TypeOK
<1>3. ASSUME NEW q \in Records, NEW a \in Actions, GrantLock(u, q, a)
      PROVE  /\ HoldsLock(t, r) => HoldsLock(t, r)'
             /\ x_lock_table[r] = t => x_lock_table'[r] = t
    <2>1. x_lock_table[q] # t
        <3> SUFFICES ASSUME x_lock_table[q] = t PROVE FALSE
            OBVIOUS
        <3>1. t \in {x_lock_table[q]} \ {u, NoTid}
            BY MaxTransactionsAssumption DEF Tids, NoTid
        <3>2. Blockers(u, q, a) = {x_lock_table[q]} \ {u, NoTid}
            BY <3>1 DEF Blockers
        <3> QED
            BY <1>3, <3>1, <3>2 DEF GrantLock
    <2> QED
        BY <1>3, <2>1 DEF GrantLock, HoldsLock, TypeOK
<1>4. CASE end_transaction(u)
    BY <1>1, <1>2, <1>4 DEF end_transaction
<1>5. ASSUME NEW q \in Records, NEW a \in Actions, validate_object(u, q, a)
      PROVE  \/ UNCHANGED <<x_lock_table, s_lock_table>>
             \/ release_all_locks(u, [transactions[u] EXCEPT !.status = "ABORTED"])
             \/ GrantLock(u, q, a)
    BY <1>5 DEF validate_object, RefuseInactive, vars, WaitInQueue, AllowLocked,
       WaitForHolder, AbortRequester, abort_transaction
<1> QED
    BY <1>1, <1>2, <1>3, <1>4, <1>5 DEF begin_transaction

(* The lock tables are in order in every reachable state.                  *)
THEOREM LocksInvariant == Spec => []LockInvariant
<1>1. Init => LockInvariant
    BY MaxTransactionsAssumption
    DEF Init, LockInvariant, LockExclusion, LockedRecordsAgree, HoldsLock, FreshIds,
        get_transaction_status, Active, Tids, NoTid
<1> QED
    BY <1>1, TypeCorrect, LockInvariantInductive, PTL DEF Spec

(* The holder of an X lock shares its record with nobody.                  *)
THEOREM LocksExclusive == Spec => []LockExclusion
<1>1. LockInvariant => LockExclusion
    BY DEF LockInvariant
<1> QED
    BY <1>1, LocksInvariant, PTL

(* locked_records and the lock tables tell the same story.                 *)
THEOREM LockedRecordsExact == Spec => []LockedRecordsAgree
<1>1. LockInvariant => LockedRecordsAgree
    BY DEF LockInvariant
<1> QED
    BY <1>1, LocksInvariant, PTL

(* Strict two-phase locking: a lock is lost only in the step that ends its *)
(* transaction.                                                            *)
THEOREM LocksStrict == Spec => LocksHeldToTheEnd
<1> DEFINE Kept == \A t \in Tids, r \in Records :
                HoldsLock(t, r) /\ ~HoldsLock(t, r)' => ~Active(t)'
<1>1. TypeOK /\ LockInvariant /\ [Next]_vars => [Kept]_vars
    <2> SUFFICES ASSUME TypeOK, LockInvariant, Next,
                        NEW u \in Tids, NEW q \in Records,
                        HoldsLock(u, q), ~HoldsLock(u, q)'
                 PROVE  ~Active(u)'
        OBVIOUS
    <2>1. CASE begin_transaction
        BY <2>1 DEF begin_transaction, HoldsLock
    <2>2. ASSUME NEW t \in Tids, end_transaction(t)
          PROVE  ~Active(u)'
        <3> DEFINE over == [transactions[t] EXCEPT !.phase = "SHRINKING",
                                                   !.status = "COMMITTED"]
        <3>1. /\ over \in TransactionInfo2PL
              /\ over.locked_records = transactions[t].locked_records
              /\ over.status = "COMMITTED"
            BY DEF TypeOK, TransactionInfo2PL, TransactionPhase, TransactionStatus
        <3>2. CASE UNCHANGED <<x_lock_table, s_lock_table>>
            BY <3>2 DEF HoldsLock
        <3>3. CASE release_all_locks(t, over)
            <4>1. u = t /\ transactions'[t].status = "COMMITTED"
                BY <3>1, <3>3, ReleaseLocks
            <4> QED
                BY <4>1 DEF Active, get_transaction_status
        <3> QED
            BY <2>2, <3>2, <3>3 DEF end_transaction, TypeOK, TransactionInfo2PL
    <2>3. ASSUME NEW t \in Tids, NEW r \in Records, NEW a \in Actions,
                 validate_object(t, r, a)
          PROVE  ~Active(u)'
        <3>1. CASE UNCHANGED <<x_lock_table, s_lock_table>>
            BY <3>1 DEF HoldsLock
        <3>2. CASE AbortRequester(t, r, a)
            <4> DEFINE info == [transactions[t] EXCEPT !.status = "ABORTED"]
            <4>1. /\ info \in TransactionInfo2PL
                  /\ info.locked_records = transactions[t].locked_records
                  /\ info.status = "ABORTED"
                BY DEF TypeOK, TransactionInfo2PL, TransactionStatus
            <4>2. release_all_locks(t, info)
                BY <3>2 DEF AbortRequester, abort_transaction
            <4>3. u = t /\ transactions'[t].status = "ABORTED"
                BY <4>1, <4>2, ReleaseLocks
            <4> QED
                BY <4>3 DEF Active, get_transaction_status
        <3>3. CASE GrantLock(t, r, a)
            BY <3>3, GrantLocks
        <3> QED
            BY <2>3, <3>1, <3>2, <3>3
            DEF validate_object, RefuseInactive, AllowLocked, WaitInQueue, WaitForHolder, vars
    <2> QED
        BY <2>1, <2>2, <2>3 DEF Next
<1> QED
    BY <1>1, TypeCorrect, LocksInvariant, PTL DEF Spec, LocksHeldToTheEnd

-----------------------------------------------------------------------------
(* The queues.                                                             *)

(* Nobody is queued twice, and nobody who is over is queued at all.        *)
QueueInvariant ==
    /\ QueuedOnce
    /\ \A t \in Tids : ~Active(t) => \A r \in Records : ~Queued(t, r)

(* Enqueue adds t at the end unless it is in the queue already.            *)
LEMMA EnqueueElements ==
    ASSUME TypeOK, QueuedOnce, NEW t \in Tids, NEW r \in Records, Enqueue(t, r)
    PROVE  /\ QueuedOnce'
           /\ \A u \in Tids, q \in Records :
                Queued(u, q)' <=> Queued(u, q) \/ (u = t /\ q = r)
<1>1. CASE Queued(t, r)
    BY <1>1 DEF Enqueue, Queued, QueuedOnce
<1>2. CASE ~Queued(t, r)
    <2> DEFINE old == lock_wait_queue[r]
    <2>1. old \in Seq(Tids) /\ Len(old) \in Nat
        BY DEF TypeOK
    <2>2. /\ lock_wait_queue'[r] = Append(old, t)
          /\ \A q \in Records \ {r} : lock_wait_queue'[q] = lock_wait_queue[q]
        BY <1>2 DEF Enqueue, TypeOK
    <2>3. /\ Len(Append(old, t)) = Len(old) + 1
          /\ Append(old, t)[Len(old) + 1] = t
          /\ \A i \in 1..Len(old) : Append(old, t)[i] = old[i]
        BY <2>1, AppendProperties
    <2>4. \A i \in 1..Len(old) : old[i] # t
        BY <1>2 DEF Queued, Contains
    <2>5. \A i, j \in 1..Len(old) : old[i] = old[j] => i = j
        BY DEF QueuedOnce
    <2> HIDE DEF old
    <2>6. \A i, j \in 1..Len(old) + 1 : Append(old, t)[i] = Append(old, t)[j] => i = j
        <3> SUFFICES ASSUME NEW i \in 1..Len(old) + 1, NEW j \in 1..Len(old) + 1,
                            Append(old, t)[i] = Append(old, t)[j]
                     PROVE  i = j
            OBVIOUS
        <3>1. CASE i \in 1..Len(old) /\ j \in 1..Len(old)
            BY <2>3, <2>5, <3>1
        <3>2. CASE i = Len(old) + 1 \/ j = Len(old) + 1
            BY <2>1, <2>3, <2>4, <3>2
        <3> QED
            BY <2>1, <3>1, <3>2
    <2>7. QueuedOnce'
        BY <2>2, <2>3, <2>6 DEF QueuedOnce
    <2>8. \A u \in Tids : Contains(Append(old, t), u) <=> Contains(old, u) \/ u = t
        <3> SUFFICES ASSUME NEW u \in Tids
                     PROVE  Contains(Append(old, t), u) <=> Contains(old, u) \/ u = t
            OBVIOUS
        <3>1. Contains(old, u) => Contains(Append(old, t), u)
            BY <2>1, <2>3 DEF Contains
        <3>2. Contains(Append(old, t), t)
            BY <2>1, <2>3 DEF Contains
        <3>3. ASSUME Contains(Append(old, t), u), u # t
              PROVE  Contains(old, u)
            <4>1. PICK i \in 1..Len(old) + 1 : Append(old, t)[i] = u
                BY <2>3, <3>3 DEF Contains
            <4> QED
                BY <2>1, <2>3, <3>3, <4>1 DEF Contains
        <3> QED
            BY <3>1, <3>2, <3>3
    <2> QED
        BY <2>2, <2>7, <2>8 DEF Queued, old
<1> QED
    BY <1>1, <1>2

(* release_all_locks takes t, and nobody else, out of the queues.          *)
LEMMA ReleaseQueues ==
    ASSUME TypeOK, QueuedOnce, NEW t \in Tids, NEW info, release_all_locks(t, info)
    PROVE  /\ QueuedOnce'
           /\ \A u \in Tids, q \in Records : Queued(u, q)' <=> Queued(u, q) /\ u # t
<1>1. lock_wait_queue' = [r \in Records |-> Without(lock_wait_queue[r], t)]
    BY DEF release_all_locks
<1>2. ASSUME NEW q \in Records
      PROVE  /\ \A u : Contains(Without(lock_wait_queue[q], t), u) <=>
                            Contains(lock_wait_queue[q], u) /\ u # t
             /\ \A i, j \in 1..Len(Without(lock_wait_queue[q], t)) :
                    Without(lock_wait_queue[q], t)[i] = Without(lock_wait_queue[q], t)[j]
                        => i = j
    <2>1. /\ lock_wait_queue[q] \in Seq(Tids)
          /\ \A i, j \in 1..Len(lock_wait_queue[q]) :
                lock_wait_queue[q][i] = lock_wait_queue[q][j] => i = j
        BY DEF TypeOK, QueuedOnce
    <2> QED
        BY <2>1, WithoutElements
<1> QED
    BY <1>1, <1>2 DEF QueuedOnce, Queued

(* A grant takes t, and nobody else, out of the queue of its record.       *)
LEMMA GrantQueues ==
    ASSUME TypeOK, QueuedOnce, NEW t \in Tids, NEW r \in Records,
           NEW a \in Actions, GrantLock(t, r, a)
    PROVE  /\ QueuedOnce'
           /\ \A u \in Tids, q \in Records :
                Queued(u, q)' <=> Queued(u, q) /\ ~(u = t /\ q = r)
<1> DEFINE old == lock_wait_queue[r]
<1>1. old \in Seq(Tids) /\ Len(old) \in Nat
    BY DEF TypeOK
<1>2. /\ old # <<>> => Head(old) = t
      /\ lock_wait_queue'[r] = IF old # <<>> THEN Tail(old) ELSE old
      /\ \A q \in Records \ {r} : lock_wait_queue'[q] = lock_wait_queue[q]
    BY DEF GrantLock, NeedsLock, MayAcquire, QueuedBehindOther, TypeOK
<1>3. CASE old = <<>>
    <2>1. ~Contains(old, t)
        BY <1>3 DEF Contains
    <2> HIDE DEF old
    <2> QED
        BY <1>2, <1>3, <2>1 DEF QueuedOnce, Queued, old
<1>4. CASE old # <<>>
    <2>1. /\ Len(Tail(old)) = Len(old) - 1
          /\ \A i \in 1..Len(old) - 1 : Tail(old)[i] = old[i + 1]
          /\ old[1] = t
          /\ Len(old) >= 1
        BY <1>1, <1>2, <1>4, HeadTailProperties
    <2>2. \A i, j \in 1..Len(old) : old[i] = old[j] => i = j
        BY DEF QueuedOnce
    <2> HIDE DEF old
    <2>3. \A i, j \in 1..Len(Tail(old)) : Tail(old)[i] = Tail(old)[j] => i = j
        BY <1>1, <2>1, <2>2
    <2>4. QueuedOnce'
        BY <1>2, <1>4, <2>3 DEF QueuedOnce
    <2>5. ASSUME NEW u \in Tids
          PROVE  Contains(Tail(old), u) <=> Contains(old, u) /\ u # t
        <3>1. ASSUME Contains(Tail(old), u)
              PROVE  Contains(old, u) /\ u # t
            <4>1. PICK i \in 1..Len(Tail(old)) : Tail(old)[i] = u
                BY <3>1 DEF Contains
            <4>2. i + 1 \in 1..Len(old) /\ old[i + 1] = u /\ i + 1 # 1
                BY <1>1, <2>1, <4>1
            <4> QED
                BY <1>1, <2>1, <2>2, <4>2 DEF Contains
        <3>2. ASSUME Contains(old, u), u # t
              PROVE  Contains(Tail(old), u)
            <4>1. PICK i \in 1..Len(old) : old[i] = u
                BY <3>2 DEF Contains
            <4>2. i - 1 \in 1..Len(Tail(old)) /\ Tail(old)[i - 1] = u
                BY <1>1, <2>1, <3>2, <4>1
            <4> QED
                BY <4>2 DEF Contains
        <3> QED
            BY <3>1, <3>2
    <2> QED
        BY <1>2, <1>4, <2>4, <2>5 DEF Queued, old
<1> QED
    BY <1>3, <1>4

(* Every operation keeps the queues in order.                              *)
LEMMA QueueInvariantInductive ==
    TypeOK /\ LockInvariant /\ QueueInvariant /\ [Next]_vars => QueueInvariant'
<1> SUFFICES ASSUME TypeOK, LockInvariant, QueueInvariant, [Next]_vars
             PROVE  QueueInvariant'
    OBVIOUS
<1> USE DEF QueueInvariant
<1>1. CASE begin_transaction
    <2>1. /\ UNCHANGED lock_wait_queue
          /\ \A t \in Tids : ~Active(t)' => ~Active(t)
        BY <1>1 DEF begin_transaction, Active, get_transaction_status, TypeOK
    <2> QED
        BY <2>1 DEF QueuedOnce, Queued
<1>2. ASSUME NEW t \in Tids, NEW info \in TransactionInfo2PL,
             info.locked_records = transactions[t].locked_records,
             release_all_locks(t, info)
      PROVE  QueueInvariant'
    <2>1. \A u \in Tids \ {t} : transactions'[u] = transactions[u]
        BY <1>2, ReleaseLocks
    <2>2. \A u \in Tids : ~Active(u)' => u = t \/ ~Active(u)
        BY <2>1 DEF Active, get_transaction_status
    <2> QED
        BY <1>2, <2>2, ReleaseQueues
<1>3. ASSUME NEW t \in Tids, end_transaction(t)
      PROVE  QueueInvariant'
    <2> DEFINE over == [transactions[t] EXCEPT !.phase = "SHRINKING",
                                               !.status = "COMMITTED"]
    <2>1. /\ over \in TransactionInfo2PL
          /\ over.locked_records = transactions[t].locked_records
        BY DEF TypeOK, TransactionInfo2PL, TransactionPhase, TransactionStatus
    <2>2. CASE release_all_locks(t, over)
        BY <1>2, <2>1, <2>2
    <2>3. CASE /\ transactions' = [transactions EXCEPT ![t] =
                        [transactions[t] EXCEPT !.phase = "SHRINKING"]]
               /\ UNCHANGED lock_wait_queue
        <3>1. \A u \in Tids : ~Active(u)' => ~Active(u)
            BY <2>3 DEF Active, get_transaction_status, TypeOK, TransactionInfo2PL
        <3> QED
            BY <2>3, <3>1 DEF QueuedOnce, Queued
    <2> QED
        BY <1>3, <2>2, <2>3 DEF end_transaction, TypeOK, TransactionInfo2PL
<1>4. ASSUME NEW t \in Tids, NEW r \in Records, NEW a \in Actions,
             validate_object(t, r, a)
      PROVE  QueueInvariant'
    <2>1. CASE WaitInQueue(t, r) \/ WaitForHolder(t, r, a)
        <3>1. Active(t) /\ Enqueue(t, r) /\ UNCHANGED transactions
            BY <2>1 DEF WaitInQueue, WaitForHolder, NeedsLock, MayAcquire
        <3> QED
            BY <3>1, EnqueueElements DEF Active, get_transaction_status
    <2>2. CASE AbortRequester(t, r, a)
        <3> DEFINE info == [transactions[t] EXCEPT !.status = "ABORTED"]
        <3>1. info \in TransactionInfo2PL /\ info.locked_records = transactions[t].locked_records
            BY DEF TypeOK, TransactionInfo2PL, TransactionStatus
        <3>2. release_all_locks(t, info)
            BY <2>2 DEF AbortRequester, abort_transaction
        <3> QED
            BY <1>2, <3>1, <3>2
    <2>3. CASE GrantLock(t, r, a)
        <3>1. \A u \in Tids : Active(u)' <=> Active(u)
            BY <2>3, GrantLocks DEF Active, get_transaction_status
        <3> QED
            BY <2>3, <3>1, GrantQueues
    <2>4. CASE UNCHANGED vars
        BY <2>4 DEF vars, QueuedOnce, Queued, Active, get_transaction_status
    <2> QED
        BY <1>4, <2>1, <2>2, <2>3, <2>4 DEF validate_object, RefuseInactive, AllowLocked
<1>5. CASE UNCHANGED vars
    BY <1>5 DEF vars, QueuedOnce, Queued, Active, get_transaction_status
<1> QED
    BY <1>1, <1>3, <1>4, <1>5 DEF Next

(* The queues are in order in every reachable state.                       *)
THEOREM QueuesInvariant == Spec => []QueueInvariant
<1>1. Init => QueueInvariant
    BY DEF Init, QueueInvariant, QueuedOnce, Queued, Contains
<1> QED
    BY <1>1, TypeCorrect, LocksInvariant, QueueInvariantInductive, PTL DEF Spec

(* A lock goes to the head of the queue, so nobody queued is overtaken.    *)
THEOREM QueuesAreFair == Spec => NoOvertaking
<1> DEFINE Fair ==
        \A t \in Tids, r \in Records :
            ~HoldsLock(t, r) /\ HoldsLock(t, r)' =>
                \A u \in Tids \ {t} : Queued(u, r) =>
                    /\ Queued(t, r)
                    /\ \A i, j \in 1..Len(lock_wait_queue[r]) :
                        lock_wait_queue[r][i] = t /\ lock_wait_queue[r][j] = u => i < j
<1>1. ASSUME TypeOK, LockInvariant, QueueInvariant,
             NEW t \in Tids, NEW r \in Records, NEW a \in Actions, GrantLock(t, r, a),
             NEW u \in Tids \ {t}, Queued(u, r)
      PROVE  /\ Queued(t, r)
             /\ \A i, j \in 1..Len(lock_wait_queue[r]) :
                    lock_wait_queue[r][i] = t /\ lock_wait_queue[r][j] = u => i < j
    <2> DEFINE queue == lock_wait_queue[r]
    <2>1. queue \in Seq(Tids) /\ Len(queue) \in Nat
        BY <1>1 DEF TypeOK
    <2>2. queue # <<>> /\ Head(queue) = t
        BY <1>1, <2>1
        DEF Queued, Contains, GrantLock, NeedsLock, MayAcquire, QueuedBehindOther
    <2>3. 1 \in 1..Len(queue) /\ queue[1] = t
        BY <2>1, <2>2
    <2>4. \A i, j \in 1..Len(queue) : queue[i] = queue[j] => i = j
        BY <1>1 DEF QueueInvariant, QueuedOnce
    <2> HIDE DEF queue
    <2>5. ASSUME NEW i \in 1..Len(queue), NEW j \in 1..Len(queue), queue[i] = t, queue[j] = u
          PROVE  i < j
        <3>1. i = 1
            BY <2>3, <2>4, <2>5
        <3>2. j # 1
            BY <1>1, <2>3, <2>5
        <3> QED
            BY <2>1, <3>1, <3>2
    <2> QED
        BY <2>3, <2>5 DEF Queued, Contains, queue
<1>2. TypeOK /\ LockInvariant /\ QueueInvariant /\ [Next]_vars => [Fair]_vars
    <2> SUFFICES ASSUME TypeOK, LockInvariant, QueueInvariant, Next,
                        NEW v \in Tids, NEW q \in Records,
                        ~HoldsLock(v, q), HoldsLock(v, q)',
                        NEW u \in Tids \ {v}, Queued(u, q)
                 PROVE  /\ Queued(v, q)
                        /\ \A i, j \in 1..Len(lock_wait_queue[q]) :
                            lock_wait_queue[q][i] = v /\ lock_wait_queue[q][j] = u => i < j
        OBVIOUS
    <2>1. CASE UNCHANGED <<x_lock_table, s_lock_table>>
        BY <2>1 DEF HoldsLock
    <2>2. ASSUME NEW t \in Tids, NEW info \in TransactionInfo2PL,
                 info.locked_records = transactions[t].locked_records,
                 release_all_locks(t, info)
          PROVE  FALSE
        BY <2>2, ReleaseLocks
    <2>3. ASSUME NEW t \in Tids, end_transaction(t)
          PROVE  UNCHANGED <<x_lock_table, s_lock_table>>
        <3> DEFINE over == [transactions[t] EXCEPT !.phase = "SHRINKING",
                                                   !.status = "COMMITTED"]
        <3>1. over \in TransactionInfo2PL /\ over.locked_records = transactions[t].locked_records
            BY DEF TypeOK, TransactionInfo2PL, TransactionPhase, TransactionStatus
        <3>2. release_all_locks(t, over) \/ UNCHANGED <<x_lock_table, s_lock_table>>
            BY <2>3 DEF end_transaction, TypeOK, TransactionInfo2PL
        <3> HIDE DEF over
        <3> QED
            BY <2>2, <3>1, <3>2
    <2>4. ASSUME NEW t \in Tids, NEW r \in Records, NEW a \in Actions, AbortRequester(t, r, a)
          PROVE  FALSE
        <3> DEFINE info == [transactions[t] EXCEPT !.status = "ABORTED"]
        <3>1. info \in TransactionInfo2PL /\ info.locked_records = transactions[t].locked_records
            BY DEF TypeOK, TransactionInfo2PL, TransactionStatus
        <3>2. release_all_locks(t, info)
            BY <2>4 DEF AbortRequester, abort_transaction
        <3> HIDE DEF info
        <3> QED
            BY <2>2, <3>1, <3>2
    <2>5. ASSUME NEW t \in Tids, NEW r \in Records, NEW a \in Actions, GrantLock(t, r, a)
          PROVE  /\ Queued(v, q)
                 /\ \A i, j \in 1..Len(lock_wait_queue[q]) :
                        lock_wait_queue[q][i] = v /\ lock_wait_queue[q][j] = u => i < j
        <3>1. v = t /\ q = r
            BY <2>5, GrantLocks
        <3> QED
            BY <1>1, <2>5, <3>1
    <2> QED
        BY <2>1, <2>3, <2>4, <2>5
        DEF Next, begin_transaction, validate_object, RefuseInactive, AllowLocked, WaitInQueue,
            WaitForHolder, vars
<1> QED
    BY <1>2, TypeCorrect, LocksInvariant, QueuesInvariant, PTL DEF Spec, NoOvertaking

-----------------------------------------------------------------------------
(* The wait-for graph.                                                     *)

(* The edges stand for waits, and no set of transactions waits in circles. *)
GraphInvariant == WaitForEdgesAreWaits /\ WaitForGraphAcyclic

(* Fewer edges, no new cycle.                                              *)
LEMMA SubgraphAcyclic ==
    ASSUME WaitForGraphAcyclic, \A u \in Tids : wait_for_graph'[u] \subseteq wait_for_graph[u]
    PROVE  WaitForGraphAcyclic'
BY DEF WaitForGraphAcyclic

(* An edge that check_cycle lets through closes no cycle: a cycle of the   *)
(* new graph either passes through its source, where check_cycle would     *)
(* have found it, or was there before.                                     *)
LEMMA DetectionSound ==
    ASSUME TypeOK, WaitForGraphAcyclic, NEW t \in Tids, NEW u \in Tids,
           ~detect_deadlock(t, u), wait_for_graph' = AddEdge(wait_for_graph, t, u)
    PROVE  WaitForGraphAcyclic'
<1> SUFFICES ASSUME NEW C \in SUBSET Tids, C # {},
                    \A v \in C : wait_for_graph'[v] \cap C # {}
             PROVE  FALSE
    BY DEF WaitForGraphAcyclic
<1>1. CASE t \in C
    BY <1>1 DEF detect_deadlock, check_cycle
<1>2. CASE t \notin C
    <2>1. \A v \in C : wait_for_graph'[v] = wait_for_graph[v]
        BY <1>2 DEF AddEdge, TypeOK
    <2> QED
        BY <2>1 DEF WaitForGraphAcyclic
<1> QED
    BY <1>1, <1>2

(* release_all_locks leaves no edge that stands for no wait.               *)
LEMMA ReleaseGraph ==
    ASSUME TypeOK, LockInvariant, QueueInvariant, GraphInvariant,
           NEW t \in Tids, NEW info \in TransactionInfo2PL,
           info.locked_records = transactions[t].locked_records,
           release_all_locks(t, info)
    PROVE  GraphInvariant'
<1>1. wait_for_graph' = [u \in Tids |-> IF u = t THEN {} ELSE wait_for_graph[u] \ {t}]
    BY DEF release_all_locks
<1>2. WaitForGraphAcyclic'
    BY <1>1, SubgraphAcyclic DEF GraphInvariant
<1>3. WaitForEdgesAreWaits'
    <2> SUFFICES ASSUME NEW v \in Tids, NEW u \in wait_for_graph'[v]
                 PROVE  u # v /\ \E r \in Records : Queued(v, r)' /\ HoldsLock(u, r)'
        BY DEF WaitForEdgesAreWaits
    <2>1. v # t /\ u # t /\ u \in wait_for_graph[v] /\ u \in Tids
        BY <1>1 DEF TypeOK
    <2>2. u # v
        BY <2>1 DEF GraphInvariant, WaitForEdgesAreWaits
    <2>3. PICK r \in Records : Queued(v, r) /\ HoldsLock(u, r)
        BY <2>1 DEF GraphInvariant, WaitForEdgesAreWaits
    <2>4. HoldsLock(u, r)'
        BY <2>1, <2>3, ReleaseLocks
    <2>5. Queued(v, r)'
        BY <2>1, <2>3, ReleaseQueues DEF QueueInvariant
    <2> QED
        BY <2>2, <2>4, <2>5
<1> QED
    BY <1>2, <1>3 DEF GraphInvariant

(* Every operation keeps the wait-for graph in order.                      *)
LEMMA GraphInvariantInductive ==
    TypeOK /\ LockInvariant /\ QueueInvariant /\ GraphInvariant /\ [Next]_vars
        => GraphInvariant'
<1> SUFFICES ASSUME TypeOK, LockInvariant, QueueInvariant, GraphInvariant, [Next]_vars
             PROVE  GraphInvariant'
    OBVIOUS
<1>1. CASE UNCHANGED <<x_lock_table, s_lock_table, wait_for_graph, lock_wait_queue>>
    BY <1>1 DEF GraphInvariant, WaitForEdgesAreWaits, WaitForGraphAcyclic, Queued, HoldsLock
<1>2. ASSUME NEW t \in Tids, end_transaction(t)
      PROVE  GraphInvariant'
    <2> DEFINE over == [transactions[t] EXCEPT !.phase = "SHRINKING",
                                               !.status = "COMMITTED"]
    <2>1. /\ over \in TransactionInfo2PL
          /\ over.locked_records = transactions[t].locked_records
        BY DEF TypeOK, TransactionInfo2PL, TransactionPhase, TransactionStatus
    <2>2. CASE release_all_locks(t, over)
        BY <2>1, <2>2, ReleaseGraph
    <2> QED
        BY <1>1, <1>2, <2>2 DEF end_transaction, TypeOK, TransactionInfo2PL
<1>3. ASSUME NEW t \in Tids, NEW r \in Records, NEW a \in Actions,
             validate_object(t, r, a)
      PROVE  GraphInvariant'
    <2>1. CASE WaitInQueue(t, r)
        <3>1. /\ Enqueue(t, r)
              /\ UNCHANGED <<x_lock_table, s_lock_table, wait_for_graph>>
            BY <2>1 DEF WaitInQueue
        <3>2. \A u \in Tids, q \in Records : Queued(u, q) => Queued(u, q)'
            BY <3>1, EnqueueElements DEF QueueInvariant
        <3> QED
            BY <3>1, <3>2
            DEF GraphInvariant, WaitForEdgesAreWaits, WaitForGraphAcyclic, HoldsLock
    <2>2. CASE WaitForHolder(t, r, a)
        <3> DEFINE h == FirstBlocker(t, r, a)
        <3>1. /\ h \in Tids \ {t}
              /\ HoldsLock(h, r)
            BY <2>2, BlockersHold DEF WaitForHolder
        <3>2. /\ ~detect_deadlock(t, h)
              /\ wait_for_graph' = AddEdge(wait_for_graph, t, h)
              /\ Enqueue(t, r)
              /\ UNCHANGED <<x_lock_table, s_lock_table>>
            BY <2>2 DEF WaitForHolder
        <3> HIDE DEF h
        <3>3. WaitForGraphAcyclic'
            BY <3>1, <3>2, DetectionSound DEF GraphInvariant
        <3>4. \A u \in Tids, q \in Records :
                Queued(u, q)' <=> Queued(u, q) \/ (u = t /\ q = r)
            BY <3>2, EnqueueElements DEF QueueInvariant
        <3>5. WaitForEdgesAreWaits'
            <4> SUFFICES ASSUME NEW v \in Tids, NEW u \in wait_for_graph'[v]
                         PROVE  u # v /\ \E q \in Records : Queued(v, q)' /\ HoldsLock(u, q)'
                BY DEF WaitForEdgesAreWaits
            <4>1. CASE v = t /\ u = h
                BY <3>1, <3>2, <3>4, <4>1 DEF HoldsLock
            <4>2. CASE ~(v = t /\ u = h)
                <5>1. u \in wait_for_graph[v]
                    BY <3>2, <4>2 DEF AddEdge, TypeOK
                <5> QED
                    BY <3>2, <3>4, <5>1 DEF GraphInvariant, WaitForEdgesAreWaits, HoldsLock
            <4> QED
                BY <4>1, <4>2
        <3> QED
            BY <3>3, <3>5 DEF GraphInvariant
    <2>3. CASE AbortRequester(t, r, a)
        <3> DEFINE info == [transactions[t] EXCEPT !.status = "ABORTED"]
        <3>1. info \in TransactionInfo2PL /\ info.locked_records = transactions[t].locked_records
            BY DEF TypeOK, TransactionInfo2PL, TransactionStatus
        <3>2. release_all_locks(t, info)
            BY <2>3 DEF AbortRequester, abort_transaction
        <3> QED
            BY <3>1, <3>2, ReleaseGraph
    <2>4. CASE GrantLock(t, r, a)
        <3>1. wait_for_graph' = [wait_for_graph EXCEPT ![t] = {}]
            BY <2>4 DEF GrantLock
        <3>2. WaitForGraphAcyclic'
            BY <3>1, SubgraphAcyclic DEF GraphInvariant, TypeOK
        <3>3. WaitForEdgesAreWaits'
            <4> SUFFICES ASSUME NEW v \in Tids, NEW u \in wait_for_graph'[v]
                         PROVE  u # v /\ \E q \in Records : Queued(v, q)' /\ HoldsLock(u, q)'
                BY DEF WaitForEdgesAreWaits
            <4>1. v # t /\ u \in wait_for_graph[v] /\ u \in Tids
                BY <3>1 DEF TypeOK
            <4>2. PICK q \in Records : u # v /\ Queued(v, q) /\ HoldsLock(u, q)
                BY <4>1 DEF GraphInvariant, WaitForEdgesAreWaits
            <4>3. Queued(v, q)' /\ HoldsLock(u, q)'
                BY <2>4, <4>1, <4>2, GrantLocks, GrantQueues DEF QueueInvariant
            <4> QED
                BY <4>2, <4>3
        <3> QED
            BY <3>2, <3>3 DEF GraphInvariant
    <2>5. CASE UNCHANGED vars
        BY <1>1, <2>5 DEF vars
    <2> QED
        BY <1>3, <2>1, <2>2, <2>3, <2>4, <2>5
        DEF validate_object, RefuseInactive, AllowLocked
<1> QED
    BY <1>1, <1>2, <1>3 DEF Next, begin_transaction, vars

(* The wait-for graph is in order in every reachable state.                *)
THEOREM GraphsInvariant == Spec => []GraphInvariant
<1>1. Init => GraphInvariant
    BY DEF Init, GraphInvariant, WaitForEdgesAreWaits, WaitForGraphAcyclic
<1> QED
    BY <1>1, TypeCorrect, LocksInvariant, QueuesInvariant, GraphInvariantInductive, PTL
    DEF Spec

(* The wait-for graph is acyclic between any two operations.               *)
THEOREM DeadlocksBroken == Spec => []WaitForGraphAcyclic
<1>1. GraphInvariant => WaitForGraphAcyclic
    BY DEF GraphInvariant
<1> QED
    BY <1>1, GraphsInvariant, PTL

(* Every edge of the wait-for graph is a wait that is still on.            *)
THEOREM EdgesJustified == Spec => []WaitForEdgesAreWaits
<1>1. GraphInvariant => WaitForEdgesAreWaits
    BY DEF GraphInvariant
<1> QED
    BY <1>1, GraphsInvariant, PTL

(* A transaction that is over holds nothing, waits for nothing and is in   *)
(* nobody's way.                                                           *)
THEOREM FinishedGone == Spec => []FinishedLeaveNoTrace
<1>1. TypeOK /\ LockInvariant /\ QueueInvariant /\ GraphInvariant => FinishedLeaveNoTrace
    <2> SUFFICES ASSUME TypeOK, LockInvariant, QueueInvariant, GraphInvariant,
                        NEW t \in Tids, ~Active(t)
                 PROVE  /\ transactions[t].locked_records = {}
                        /\ wait_for_graph[t] = {}
                        /\ \A u \in Tids : t \notin wait_for_graph[u]
                        /\ \A r \in Records : ~HoldsLock(t, r) /\ ~Queued(t, r)
        BY DEF FinishedLeaveNoTrace
    <2>1. /\ transactions[t].locked_records = {}
          /\ \A r \in Records : ~HoldsLock(t, r) /\ ~Queued(t, r)
        BY DEF LockInvariant, LockedRecordsAgree, QueueInvariant
    <2> QED
        BY <2>1 DEF GraphInvariant, WaitForEdgesAreWaits
<1> QED
    BY <1>1, TypeCorrect, LocksInvariant, QueuesInvariant, GraphsInvariant, PTL

=============================================================================
