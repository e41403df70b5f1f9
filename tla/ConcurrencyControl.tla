-------------------------- MODULE ConcurrencyControl --------------------------
(***************************************************************************)
(* ConcurrencyControlManager                                               *)
(* (src/concurrency_control/concurrency_control.cpp): the one manager the  *)
(* query processors share, in front of the protocol it was created with.   *)
(*                                                                         *)
(* The query processor asks for whole tables (row_id -1 and no columns), so*)
(* the hash of a request is that of the name of its table.                 *)
(*                                                                         *)
(* The protocol is settled before the first transaction: the server takes  *)
(* the default, the tests call switch_algorithm first.  The two protocols  *)
(* share one counter of transaction ids here, since only one of them runs. *)
(***************************************************************************)
EXTENDS Integers

CONSTANTS
    Tables,
    MaxTransactions,    \* bound on the transaction ids handed out
    Algorithms          \* the protocols the manager may have been switched to

ASSUME MaxTransactionsAssumption == MaxTransactions \in Nat
ASSUME AlgorithmsAssumption == Algorithms \subseteq {"timestamp", "twophaselocking"}

VARIABLES
    current_algorithm_,
    last_transaction_id,
    transactions, x_lock_table, s_lock_table, wait_for_graph, lock_wait_queue,
    transactions_, object_timestamps_

locking == <<transactions, x_lock_table, s_lock_table, wait_for_graph, lock_wait_queue>>
ordering == <<transactions_, object_timestamps_>>
ccm == <<current_algorithm_, last_transaction_id, locking, ordering>>

Locking == INSTANCE TwoPhaseLocking
    WITH Records <- Tables, current_transaction_id <- last_transaction_id
Ordering == INSTANCE TimestampOrdering
    WITH Records <- Tables, current_timestamp_ <- last_transaction_id

Tids == 1..MaxTransactions

-----------------------------------------------------------------------------

(* get_instance and switch_algorithm: a manager of the chosen protocol,    *)
(* without transactions.                                                   *)
switch_algorithm ==
    /\ current_algorithm_ \in Algorithms
    /\ Locking!Init
    /\ Ordering!Init

IsLocking == current_algorithm_ = "twophaselocking" /\ UNCHANGED <<current_algorithm_, ordering>>
IsOrdering == current_algorithm_ = "timestamp" /\ UNCHANGED <<current_algorithm_, locking>>

cc_begin_transaction ==
    \/ IsLocking /\ Locking!begin_transaction
    \/ IsOrdering /\ Ordering!begin_transaction

(* A no-op under two-phase locking.                                        *)
log_object(t, r) ==
    \/ IsLocking /\ UNCHANGED <<last_transaction_id, locking>>
    \/ IsOrdering /\ Ordering!log_object(t, r)

(* validate_object, apart by the answer.                                   *)
Allowed(t, r, a) ==
    \/ IsLocking /\ Locking!AllowLocked(t, r, a)
    \/ IsLocking /\ Locking!GrantLock(t, r, a)
    \/ IsOrdering /\ Ordering!AllowAccess(t, r, a)

Denied(t, r, a) ==
    \/ IsLocking /\ Locking!RefuseInactive(t, r, a)
    \/ IsLocking /\ Locking!WaitInQueue(t, r)
    \/ IsLocking /\ Locking!WaitForHolder(t, r, a)
    \/ IsLocking /\ Locking!AbortRequester(t, r, a)
    \/ IsOrdering /\ Ordering!RefuseAccess(t, r)
    \/ IsOrdering /\ Ordering!FailAccess(t, r, a)

cc_end_transaction(t) ==
    \/ IsLocking /\ Locking!end_transaction(t)
    \/ IsOrdering /\ Ordering!end_transaction(t)

(* Begun, and end_transaction has not been called for it yet.              *)
Unended(t) ==
    IF current_algorithm_ = "timestamp"
    THEN Ordering!get_transaction_status(t) # "TERMINATED"
    ELSE /\ Locking!get_transaction_status(t) # "TERMINATED"
         /\ transactions[t].phase = "GROWING"

(* Open, and neither failed nor a victim.                                  *)
Accepted(t) ==
    IF current_algorithm_ = "timestamp"
    THEN Ordering!get_transaction_status(t) = "ACTIVE"
    ELSE Locking!Active(t)

=============================================================================
