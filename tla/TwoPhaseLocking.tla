--------------------------- MODULE TwoPhaseLocking ---------------------------
(***************************************************************************)
(* TwoPhaseLockingCCManager                                                *)
(* (src/concurrency_control/two_phase_locking_protocol.cpp).               *)
(*                                                                         *)
(* Every public operation runs under one recursive mutex, so each is one   *)
(* action here.  Any client may call any operation for any transaction at  *)
(* any time: a refused client is told so and decides itself whether to     *)
(* poll again, to ask for something else or to end the transaction.        *)
(***************************************************************************)
EXTENDS Integers, Sequences, SequencesExt, FiniteSetsExt

CONSTANTS
    Records,            \* the record hashes locks are requested for
    MaxTransactions     \* bound on current_transaction_id

ASSUME MaxTransactionsAssumption == MaxTransactions \in Nat

VARIABLES
    current_transaction_id,   \* the last transaction id handed out
    transactions,             \* id -> TransactionInfo2PL
    x_lock_table,             \* record -> the holder of its X lock, or NoTid
    s_lock_table,             \* record -> the holders of its S lock
    wait_for_graph,           \* id -> the ids it waits for
    lock_wait_queue           \* record -> the ids waiting for a lock on it

vars == <<current_transaction_id, transactions, x_lock_table, s_lock_table,
          wait_for_graph, lock_wait_queue>>

Tids == 1..MaxTransactions
NoTid == 0
Actions == {"READ", "WRITE"}

(* TERMINATED is what get_transaction_status answers for an id that is not *)
(* in the map: here it marks the ids begin_transaction has not given yet.  *)
TransactionStatus == {"TERMINATED", "ACTIVE", "COMMITTED", "ABORTED"}
TransactionPhase == {"GROWING", "SHRINKING"}
TransactionInfo2PL ==
    [status : TransactionStatus, phase : TransactionPhase,
     locked_records : SUBSET Records]

-----------------------------------------------------------------------------
(* Queries on the state.                                                   *)

get_transaction_status(t) == transactions[t].status

(* An id in the map that may be granted locks.  The code tests ABORTED,    *)
(* FAILED (never set by this class) and COMMITTED one after another.       *)
Active(t) == get_transaction_status(t) = "ACTIVE"

HoldsLock(t, r) == t \in s_lock_table[r] \/ x_lock_table[r] = t

(* Fault: anybody who is in the queue may pass, not only its head.         *)
UnqueuedBehindOther(t, r) ==
    lock_wait_queue[r] # <<>> /\ ~Contains(lock_wait_queue[r], t)

(* Somebody else heads the queue of r: the request goes behind it before   *)
(* the lock tables are even looked at.                                     *)
QueuedBehindOther(t, r) ==
    lock_wait_queue[r] # <<>> /\ Head(lock_wait_queue[r]) # t

(* Fault: a writer is content with any lock, too.                          *)
AlreadyLockedSomehow(t, r, a) == r \in transactions[t].locked_records

(* The lock asked for is already there: a reader is content with any lock. *)
AlreadyLocked(t, r, a) ==
    IF a = "READ" THEN r \in transactions[t].locked_records
                  ELSE x_lock_table[r] = t

(* Fault: the default value of an empty entry passes for a holder.         *)
BlockersWithNobody(t, r, a) == {x_lock_table[r]} \ {t}

(* Fault: a lock is taken over from its X holder.                          *)
BlockersWithoutWriter(t, r, a) ==
    IF a = "READ" THEN {} ELSE s_lock_table[r] \ {t}

(* Fault: a writer does not look at the S holders.                         *)
BlockersWithoutReaders(t, r, a) == {x_lock_table[r]} \ {t, NoTid}

(* The holders in the way: the X holder, and for a writer without one, the *)
(* S holders.                                                              *)
Blockers(t, r, a) ==
    LET others(S) == S \ {t, NoTid}
    IN  IF a = "READ" \/ others({x_lock_table[r]}) # {}
        THEN others({x_lock_table[r]})
        ELSE others(s_lock_table[r])

(* The only holder the code looks at: the S holders come in id order.      *)
FirstBlocker(t, r, a) == Min(Blockers(t, r, a))

(* Fault: the recursive call starts with an empty rec_stack.               *)
CycleOfOne(graph, t) == t \in graph[t]

(* check_cycle: a depth-first search finds a cycle reachable from t iff    *)
(* some set of nodes around t lets one walk on forever inside it.          *)
check_cycle(graph, t) ==
    \E C \in SUBSET Tids : t \in C /\ \A u \in C : graph[u] \cap C # {}

AddEdge(graph, t, holder) == [graph EXCEPT ![t] = @ \cup {holder}]

(* Fault: the graph is searched before the edge is drawn.                  *)
DetectTooEarly(t, holder) == check_cycle(wait_for_graph, t)

(* Fault: whoever would have to wait is aborted.                           *)
AbortInsteadOfWaiting(t, holder) == TRUE

(* detect_deadlock: the tentative edge is taken back unless it closes a    *)
(* cycle, and then abort_transaction removes every edge of t.              *)
detect_deadlock(t, holder) == check_cycle(AddEdge(wait_for_graph, t, holder), t)

Queued(t, r) == Contains(lock_wait_queue[r], t)

(* list::remove takes every entry of t out; there is never more than one   *)
(* (QueuedOnce, proved in TwoPhaseLockingProofs).                          *)
Without(queue, t) ==
    IF Contains(queue, t)
    THEN RemoveAt(queue, CHOOSE i \in 1..Len(queue) : queue[i] = t)
    ELSE queue

-----------------------------------------------------------------------------

Init ==
    /\ current_transaction_id = 0
    /\ transactions = [t \in Tids |-> [status |-> "TERMINATED", phase |-> "GROWING",
                                       locked_records |-> {}]]
    /\ x_lock_table = [r \in Records |-> NoTid]
    /\ s_lock_table = [r \in Records |-> {}]
    /\ wait_for_graph = [t \in Tids |-> {}]
    /\ lock_wait_queue = [r \in Records |-> <<>>]

begin_transaction ==
    /\ current_transaction_id < MaxTransactions
    /\ current_transaction_id' = current_transaction_id + 1
    /\ transactions' = [transactions EXCEPT ![current_transaction_id'] =
            [status |-> "ACTIVE", phase |-> "GROWING", locked_records |-> {}]]
    /\ UNCHANGED <<x_lock_table, s_lock_table, wait_for_graph, lock_wait_queue>>

(* Fault: X locks are not given back.                                      *)
ReleaseOnlySLocks(t, info) ==
    LET released == {r \in info.locked_records : HoldsLock(t, r)}
    IN  /\ transactions' = [transactions EXCEPT ![t] =
                [info EXCEPT !.locked_records = @ \ released]]
        /\ s_lock_table' = [r \in Records |-> s_lock_table[r] \ {t}]
        /\ wait_for_graph' = [u \in Tids |->
                IF u = t THEN {} ELSE wait_for_graph[u] \ {t}]
        /\ lock_wait_queue' = [r \in Records |-> Without(lock_wait_queue[r], t)]
        /\ UNCHANGED <<current_transaction_id, x_lock_table>>

(* The locks and the entry of t alone, the wait-for graph and the queues   *)
(* left to the faults below.                                               *)
ReleaseLocksOnly(t, info) ==
    /\ transactions' = [transactions EXCEPT ![t] = [info EXCEPT !.locked_records = {}]]
    /\ s_lock_table' = [r \in Records |-> s_lock_table[r] \ {t}]
    /\ x_lock_table' = [r \in Records |->
            IF x_lock_table[r] = t THEN NoTid ELSE x_lock_table[r]]
    /\ UNCHANGED current_transaction_id

(* Fault: the transaction stays in the queues.                             *)
ReleaseLeavingQueues(t, info) ==
    /\ ReleaseLocksOnly(t, info)
    /\ wait_for_graph' = [u \in Tids |-> IF u = t THEN {} ELSE wait_for_graph[u] \ {t}]
    /\ UNCHANGED lock_wait_queue

(* Fault: others still wait for the transaction.                           *)
ReleaseLeavingEdges(t, info) ==
    /\ ReleaseLocksOnly(t, info)
    /\ wait_for_graph' = [wait_for_graph EXCEPT ![t] = {}]
    /\ lock_wait_queue' = [r \in Records |-> Without(lock_wait_queue[r], t)]

(* release_all_locks: t leaves the lock tables, the wait-for graph (as a   *)
(* source and as a target) and every queue; info is what the caller made   *)
(* of the transaction's entry before.                                      *)
release_all_locks(t, info) ==
    LET released == {r \in info.locked_records : HoldsLock(t, r)}
    IN  /\ transactions' = [transactions EXCEPT ![t] =
                [info EXCEPT !.locked_records = @ \ released]]
        /\ s_lock_table' = [r \in Records |->
                IF r \in released THEN s_lock_table[r] \ {t} ELSE s_lock_table[r]]
        /\ x_lock_table' = [r \in Records |->
                IF r \in released /\ x_lock_table[r] = t THEN NoTid ELSE x_lock_table[r]]
        /\ wait_for_graph' = [u \in Tids |->
                IF u = t THEN {} ELSE wait_for_graph[u] \ {t}]
        /\ lock_wait_queue' = [r \in Records |-> Without(lock_wait_queue[r], t)]
        /\ UNCHANGED current_transaction_id

(* abort_transaction leaves the phase as it is. *)
abort_transaction(t) ==
    release_all_locks(t, [transactions[t] EXCEPT !.status = "ABORTED"])

(* A transaction that is still growing and whose turn it is at r.  (The    *)
(* phase changes only where the transaction ends, so it is never the other *)
(* one here.)                                                              *)
MayAcquire(t, r) ==
    Active(t) /\ transactions[t].phase = "GROWING" /\ ~QueuedBehindOther(t, r)

NeedsLock(t, r, a) == MayAcquire(t, r) /\ ~AlreadyLocked(t, r, a)

Enqueue(t, r) ==
    lock_wait_queue' = IF Queued(t, r) THEN lock_wait_queue
                       ELSE [lock_wait_queue EXCEPT ![r] = Append(@, t)]

(* The five outcomes of validate_object for an active transaction.         *)

(* Refused: another transaction heads the queue.  No wait-for edge.        *)
WaitInQueue(t, r) ==
    /\ Active(t) /\ transactions[t].phase = "GROWING"
    /\ QueuedBehindOther(t, r)
    /\ Enqueue(t, r)
    /\ UNCHANGED <<current_transaction_id, transactions, x_lock_table, s_lock_table,
                   wait_for_graph>>

(* Allowed at once, and nothing changes: not even the queue t may head.    *)
AllowLocked(t, r, a) ==
    /\ MayAcquire(t, r)
    /\ AlreadyLocked(t, r, a)
    /\ UNCHANGED vars

(* Refused: t waits for one conflicting holder.                            *)
WaitForHolder(t, r, a) ==
    /\ NeedsLock(t, r, a)
    /\ Blockers(t, r, a) # {}
    /\ ~detect_deadlock(t, FirstBlocker(t, r, a))
    /\ wait_for_graph' = AddEdge(wait_for_graph, t, FirstBlocker(t, r, a))
    /\ Enqueue(t, r)
    /\ UNCHANGED <<current_transaction_id, transactions, x_lock_table, s_lock_table>>

MustAbort(t, r, a) ==
    \/ Active(t) /\ transactions[t].phase = "SHRINKING"
    \/ /\ NeedsLock(t, r, a)
       /\ Blockers(t, r, a) # {}
       /\ detect_deadlock(t, FirstBlocker(t, r, a))

(* Refused, and the transaction that asked is the victim.                  *)
AbortRequester(t, r, a) ==
    /\ MustAbort(t, r, a)
    /\ abort_transaction(t)

(* Fault: an upgrade leaves the S lock where it is.                        *)
GrantBesideSLock(t, r, a) ==
    /\ NeedsLock(t, r, a)
    /\ Blockers(t, r, a) = {}
    /\ s_lock_table' = [s_lock_table EXCEPT ![r] = IF a = "READ" THEN @ \cup {t} ELSE @]
    /\ x_lock_table' = [x_lock_table EXCEPT ![r] = IF a = "READ" THEN @ ELSE t]
    /\ transactions' = [transactions EXCEPT ![t].locked_records = @ \cup {r}]
    /\ UNCHANGED <<current_transaction_id, wait_for_graph, lock_wait_queue>>

(* Allowed: the lock is recorded, a reader's S lock gives way to its X     *)
(* lock, and t leaves the graph and the head of the queue.                 *)
GrantLock(t, r, a) ==
    /\ NeedsLock(t, r, a)
    /\ Blockers(t, r, a) = {}
    /\ s_lock_table' = [s_lock_table EXCEPT ![r] =
            IF a = "READ" THEN @ \cup {t} ELSE @ \ {t}]
    /\ x_lock_table' = [x_lock_table EXCEPT ![r] = IF a = "READ" THEN @ ELSE t]
    /\ transactions' = [transactions EXCEPT ![t].locked_records = @ \cup {r}]
    /\ wait_for_graph' = [wait_for_graph EXCEPT ![t] = {}]
    /\ lock_wait_queue' = [lock_wait_queue EXCEPT ![r] =
            IF @ # <<>> THEN Tail(@) ELSE @]
    /\ UNCHANGED current_transaction_id

(* Refused: the id is unknown or its transaction is over.                  *)
RefuseInactive(t, r, a) ==
    /\ ~Active(t)
    /\ UNCHANGED vars

validate_object(t, r, a) ==
    \/ RefuseInactive(t, r, a)
    \/ WaitInQueue(t, r)
    \/ AllowLocked(t, r, a)
    \/ WaitForHolder(t, r, a)
    \/ AbortRequester(t, r, a)
    \/ GrantLock(t, r, a)

(* end_transaction commits whatever was not aborted before.                *)
end_transaction(t) ==
    /\ get_transaction_status(t) # "TERMINATED"
    /\ LET info == [transactions[t] EXCEPT !.phase = "SHRINKING"]
       IN  IF info.status = "ABORTED"
           THEN /\ transactions' = [transactions EXCEPT ![t] = info]
                /\ UNCHANGED <<current_transaction_id, x_lock_table, s_lock_table,
                               wait_for_graph, lock_wait_queue>>
           ELSE release_all_locks(t, [info EXCEPT !.status = "COMMITTED"])

Next ==
    \/ begin_transaction
    \/ \E t \in Tids :
        \/ end_transaction(t)
        \/ \E r \in Records, a \in Actions : validate_object(t, r, a)

Spec == Init /\ [][Next]_vars

-----------------------------------------------------------------------------
(* Properties.                                                             *)

(* The types of the members of the class.                                  *)
TypeOK ==
    /\ current_transaction_id \in 0..MaxTransactions
    /\ transactions \in [Tids -> TransactionInfo2PL]
    /\ x_lock_table \in [Records -> Tids \cup {NoTid}]
    /\ s_lock_table \in [Records -> SUBSET Tids]
    /\ wait_for_graph \in [Tids -> SUBSET Tids]
    /\ lock_wait_queue \in [Records -> Seq(Tids)]

(* A writer is alone: whoever holds the X lock of a record holds it to the *)
(* exclusion of every other lock on that record, its own S lock included   *)
(* (the upgrade in acquire_x_lock must move it, not copy it).              *)
LockExclusion ==
    \A r \in Records : x_lock_table[r] # NoTid => s_lock_table[r] = {}

(* What a transaction believes it has locked is what the lock tables say:  *)
(* release_all_locks walks locked_records only, so a lock missing there is *)
(* never given back, and acquire_s_lock trusts it without a second look.   *)
LockedRecordsAgree ==
    \A t \in Tids, r \in Records :
        r \in transactions[t].locked_records <=> HoldsLock(t, r)

(* A transaction that is over, or unknown, stands in nobody's way: it      *)
(* holds no lock, waits for nobody, nobody waits for it, and it is in no   *)
(* queue, where as the head it would block the record for good.            *)
FinishedLeaveNoTrace ==
    \A t \in Tids : ~Active(t) =>
        /\ transactions[t].locked_records = {}
        /\ wait_for_graph[t] = {}
        /\ \A u \in Tids : t \notin wait_for_graph[u]
        /\ \A r \in Records : ~HoldsLock(t, r) /\ ~Queued(t, r)

(* Deadlocks are broken as they arise: between two operations no set of    *)
(* transactions waits for itself in the wait-for graph, so check_cycle     *)
(* can only ever find the cycle the new edge closes.                       *)
WaitForGraphAcyclic ==
    \A C \in SUBSET Tids :
        C # {} => \E t \in C : wait_for_graph[t] \cap C = {}

(* No victim for nothing: every edge of the wait-for graph stands for a    *)
(* wait that is still on, t being queued for a record its target locks.    *)
WaitForEdgesAreWaits ==
    \A t \in Tids : \A u \in wait_for_graph[t] :
        /\ u # t
        /\ \E r \in Records : Queued(t, r) /\ HoldsLock(u, r)

(* A queue holds a transaction once: the head is popped once when it is    *)
(* granted its lock, and a second entry would block the record.            *)
QueuedOnce ==
    \A r \in Records : \A i, j \in 1..Len(lock_wait_queue[r]) :
        lock_wait_queue[r][i] = lock_wait_queue[r][j] => i = j

(* Strict two-phase locking: a lock is given up only in the step that ends *)
(* the transaction, so nothing is locked after something was released and  *)
(* nobody sees what an unfinished transaction wrote.                       *)
LocksHeldToTheEnd ==
    [][\A t \in Tids, r \in Records :
            HoldsLock(t, r) /\ ~HoldsLock(t, r)' => ~Active(t)']_vars

(* First come, first served (test_twoPL_queue_fairness): a lock on a       *)
(* record goes to a transaction only while nobody who was queued for that  *)
(* record before it is still waiting.                                      *)
NoOvertaking ==
    [][\A t \in Tids, r \in Records :
            ~HoldsLock(t, r) /\ HoldsLock(t, r)' =>
                \A u \in Tids \ {t} : Queued(u, r) =>
                    /\ Queued(t, r)
                    /\ \A i, j \in 1..Len(lock_wait_queue[r]) :
                        lock_wait_queue[r][i] = t /\ lock_wait_queue[r][j] = u => i < j
      ]_vars

=============================================================================
