-------------------------- MODULE TimestampOrdering --------------------------
(***************************************************************************)
(* TimestampCCManager (src/concurrency_control/timestamp_ordering.cpp),    *)
(* the protocol the server runs by default.                                *)
(*                                                                         *)
(* Every public operation runs under one mutex, so each is one action.     *)
(* Any client may call any operation for any transaction at any time.  A   *)
(* transaction's timestamp is its id.                                      *)
(***************************************************************************)
EXTENDS Integers

CONSTANTS
    Records,            \* the row hashes access is validated for
    MaxTransactions     \* bound on current_timestamp_

ASSUME MaxTransactionsAssumption == MaxTransactions \in Nat

VARIABLES
    current_timestamp_,   \* the last timestamp handed out
    transactions_,        \* id -> state; TERMINATED stands for "not in the map"
    object_timestamps_    \* logged record -> its read and write timestamps

vars == <<current_timestamp_, transactions_, object_timestamps_>>

Tids == 1..MaxTransactions
Actions == {"READ", "WRITE"}
ObjectTimestamp == [read_ts : Nat, write_ts : Nat]

-----------------------------------------------------------------------------

get_transaction_status(t) == transactions_[t]

Known(t) == get_transaction_status(t) # "TERMINATED"

Logged(r) == r \in DOMAIN object_timestamps_

(* Fault: a writer does not look at the readers.                           *)
TooLateForWriters(t, r, a) == t < object_timestamps_[r].write_ts

(* Fault: nobody looks at the writers.                                     *)
TooLateForReaders(t, r, a) == a = "WRITE" /\ t < object_timestamps_[r].read_ts

(* Fault: a transaction is too late for its own writing.                   *)
TooLateForItself(t, r, a) ==
    \/ t <= object_timestamps_[r].write_ts
    \/ a = "WRITE" /\ t < object_timestamps_[r].read_ts

(* An access comes too late when a younger transaction was allowed a       *)
(* conflicting one.                                                        *)
TooLate(t, r, a) ==
    \/ t < object_timestamps_[r].write_ts
    \/ a = "WRITE" /\ t < object_timestamps_[r].read_ts

Stamp(ts, t, a) ==
    IF a = "WRITE" THEN [ts EXCEPT !.write_ts = t]
    ELSE [ts EXCEPT !.read_ts = IF t > @ THEN t ELSE @]

-----------------------------------------------------------------------------

Init ==
    /\ current_timestamp_ = 0
    /\ transactions_ = [t \in Tids |-> "TERMINATED"]
    /\ object_timestamps_ = [r \in {} |-> [read_ts |-> 0, write_ts |-> 0]]

begin_transaction ==
    /\ current_timestamp_ < MaxTransactions
    /\ current_timestamp_' = current_timestamp_ + 1
    /\ transactions_' = [transactions_ EXCEPT ![current_timestamp_'] = "ACTIVE"]
    /\ UNCHANGED object_timestamps_

(* Fault: an object met again starts from 0.                               *)
LogAfresh(t, r) ==
    /\ Known(t)
    /\ object_timestamps_' =
        [s \in DOMAIN object_timestamps_ \cup {r} |->
            IF s # r THEN object_timestamps_[s] ELSE [read_ts |-> 0, write_ts |-> 0]]
    /\ UNCHANGED <<current_timestamp_, transactions_>>

(* For an unknown transaction the code throws and nothing changes.         *)
log_object(t, r) ==
    /\ Known(t)
    /\ object_timestamps_' =
        [s \in DOMAIN object_timestamps_ \cup {r} |->
            IF Logged(s) THEN object_timestamps_[s]
                         ELSE [read_ts |-> 0, write_ts |-> 0]]
    /\ UNCHANGED <<current_timestamp_, transactions_>>

(* The three outcomes of validate_object.                                  *)

(* Refused without a trace: unknown or failed transaction, or an object    *)
(* nobody has logged.                                                      *)
RefuseAccess(t, r) ==
    /\ get_transaction_status(t) # "ACTIVE" \/ ~Logged(r)
    /\ UNCHANGED vars

(* Refused for a conflict: from now on the transaction has failed.         *)
FailAccess(t, r, a) ==
    /\ get_transaction_status(t) = "ACTIVE"
    /\ Logged(r)
    /\ TooLate(t, r, a)
    /\ transactions_' = [transactions_ EXCEPT ![t] = "FAILED"]
    /\ UNCHANGED <<current_timestamp_, object_timestamps_>>

AllowAccess(t, r, a) ==
    /\ get_transaction_status(t) = "ACTIVE"
    /\ Logged(r)
    /\ ~TooLate(t, r, a)
    /\ object_timestamps_' = [object_timestamps_ EXCEPT ![r] = Stamp(@, t, a)]
    /\ UNCHANGED <<current_timestamp_, transactions_>>

validate_object(t, r, a) ==
    \/ RefuseAccess(t, r)
    \/ FailAccess(t, r, a)
    \/ AllowAccess(t, r, a)

(* Fault: a committed transaction stays in the map.                        *)
EndCommitted(t) ==
    /\ Known(t)
    /\ transactions_' = [transactions_ EXCEPT ![t] = "COMMITTED"]
    /\ UNCHANGED <<current_timestamp_, object_timestamps_>>

(* Every path through the state diagram ends in TERMINATED and erases the  *)
(* entry; the timestamps the transaction left on objects stay, whether it  *)
(* commits or fails.                                                       *)
end_transaction(t) ==
    /\ Known(t)
    /\ transactions_' = [transactions_ EXCEPT ![t] = "TERMINATED"]
    /\ UNCHANGED <<current_timestamp_, object_timestamps_>>

Next ==
    \/ begin_transaction
    \/ \E t \in Tids :
        \/ end_transaction(t)
        \/ \E r \in Records :
            \/ log_object(t, r)
            \/ \E a \in Actions : validate_object(t, r, a)

Spec == Init /\ [][Next]_vars

-----------------------------------------------------------------------------
(* Properties.                                                             *)

MembersTyped ==
    /\ current_timestamp_ \in 0..MaxTransactions
    /\ transactions_ \in [Tids -> {"TERMINATED", "ACTIVE", "FAILED"}]
    /\ DOMAIN object_timestamps_ \subseteq Records
    /\ object_timestamps_ \in [DOMAIN object_timestamps_ -> ObjectTimestamp]

(* Timestamps only come from transactions that began: an object stamped    *)
(* with a timestamp of the future would reject every transaction alive.    *)
NoFutureTimestamps ==
    /\ \A t \in Tids : Known(t) => t <= current_timestamp_
    /\ \A r \in DOMAIN object_timestamps_ :
        /\ object_timestamps_[r].read_ts <= current_timestamp_
        /\ object_timestamps_[r].write_ts <= current_timestamp_

(* The types of the members of the class; a transaction in the map has     *)
(* been given its id, and no timestamp on an object is from the future.    *)
TypeOK == MembersTyped /\ NoFutureTimestamps

(* The timestamps of an object never go back, not even when log_object     *)
(* meets an object again or the transaction that set them fails.           *)
TimestampsNeverRegress ==
    [][\A r \in DOMAIN object_timestamps_ :
            /\ Logged(r)'
            /\ object_timestamps_[r].read_ts <= object_timestamps_'[r].read_ts
            /\ object_timestamps_[r].write_ts <= object_timestamps_'[r].write_ts]_vars

=============================================================================
