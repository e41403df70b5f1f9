--------------------------- MODULE FailureRecovery ---------------------------
(***************************************************************************)
(* FailureRecoveryManager (src/failure_recovery/failure_recovery.cpp) on   *)
(* top of one table that fits one page: the write-ahead log, checkpoints,  *)
(* rollback, crashes and the recovery from them.                           *)
(*                                                                         *)
(* A step is what runs under one acquisition of the manager's mutex, cut   *)
(* further wherever something reaches the disk, since a crash may come     *)
(* between.  Transactions are those of the query processor: each is        *)
(* sequential, changes the table first and logs the change afterwards, and *)
(* has the table to itself from its first change until it has ended.       *)
(*                                                                         *)
(* Mishaps names what may happen besides; the .cfg files turn it on one at *)
(* a time.                                                                 *)
(***************************************************************************)
EXTENDS Integers, Sequences, SequencesExt, FiniteSetsExt

CONSTANTS
    Keys, Values,       \* a row is a primary key and the value of the rest
    WhereSets,          \* the sets of keys the WHERE of an UPDATE or DELETE may stand for
    MaxTransactions,    \* bound on the transaction ids of one life
    MaxLives,           \* bound on the lives of the process that run transactions
    MaxCrashes,         \* bound on the number of crashes
    MaxLog,             \* bound on the log ids handed out before new work stops
    MaxUnrecorded,      \* bound on the keys a log record misrepresents or leaves out
    MAX_BUFFER_SIZE,    \* log records that make write_log flush the buffer
    Mishaps

(* "early flush": the page is written to disk while the log record of a    *)
(*    change on it is not (by an eviction, or by another session's commit  *)
(*    between write_block and write_log);                                  *)
(* "crash in checkpoint": between CHECKPOINT_START and CHECKPOINT_END;     *)
(* "open exit": the process exits normally inside a transaction;           *)
(* "early release": COMMIT and ROLLBACK end the transaction for the        *)
(*    concurrency control before they turn to the recovery manager, so     *)
(*    another may change the table while that is still at work;            *)
(* "unconditional update": UPDATE without WHERE, which inserts a row.      *)
ASSUME MishapsAssumption ==
    Mishaps \subseteq {"early flush", "crash in checkpoint", "open exit", "early release",
                       "unconditional update"}

ASSUME BoundsAssumption ==
    /\ {MaxTransactions, MaxLives, MaxCrashes, MaxLog, MaxUnrecorded} \subseteq Nat
    /\ MAX_BUFFER_SIZE \in Nat \ {0}

ASSUME WhereSetsAssumption == WhereSets \subseteq SUBSET Keys

(* The columns of a row have types of a fixed size; "none" marks no row.   *)
ASSUME ValuesAssumption == IsFiniteSet(Values)
ASSUME KeysAssumption == "none" \notin Keys

Tids == 1..MaxTransactions
SystemTid == -1       \* the transaction_id of checkpoint records
Row == [key : Keys, val : Values]
NoRow == [key |-> "none", val |-> "none"]

VARIABLES
    log_buffer,                   \* log records not written yet
    wal,                          \* data/wal.bin
    active_transactions_cache,
    next_log_id,
    mtx,                          \* who holds the mutex between two steps, if anybody
    table,                        \* the table as the buffer pool has it: row -> copies
    disk,                         \* the table as its file has it
    marker,                       \* the file data/.running exists
    process,                      \* where the process is in its life
    session,                      \* transaction -> what it is doing
    unlogged,                     \* transaction -> the change write_log is owed
    changed,                      \* transaction -> the keys it changed, until it has ended
    committed,                    \* the rows the committed transactions leave
    unrecorded,                   \* the keys a log record has misrepresented or left out
    birth,                        \* the length of the log when this life began
    lives, crashes                \* counters for the bounds

log == <<log_buffer, wal, next_log_id>>
client == <<session, unlogged, changed>>
bounds == <<unrecorded, birth, lives, crashes>>
vars == <<log_buffer, wal, active_transactions_cache, next_log_id, mtx, table, disk,
          marker, process, session, unlogged, changed, committed, unrecorded,
          birth, lives, crashes>>

-----------------------------------------------------------------------------
(* The table: what the calls of the storage engine do to its rows.         *)

RowsOf(t) == {r \in Row : t[r] > 0}
WithKey(K) == {r \in Row : r.key \in K}
Copies(t, K) == MapThenSumSet(LAMBDA r : t[r], WithKey(K))

Insert(t, row) == [t EXCEPT ![row] = @ + 1]

Delete(t, K) == [r \in Row |-> IF r.key \in K THEN 0 ELSE t[r]]

(* Every row of key k becomes the row given. *)
Replace(t, k, row) == [Delete(t, {k}) EXCEPT ![row] = @ + Copies(t, {k})]

(* Every row with a key in K gets the value v. *)
SetValue(t, K, v) ==
    [r \in Row |-> IF r.key \notin K THEN t[r]
                   ELSE IF r.val = v THEN Copies(t, {r.key}) ELSE 0]

(* undo_operation and redo_operation find their rows by primary key.       *)
undo_operation(t, e) ==
    CASE e.operation = "INSERT" -> Delete(t, {e.new_value.key})
      [] e.operation = "DELETE" -> Insert(t, e.old_value)
      [] e.operation = "UPDATE" -> Replace(t, e.new_value.key, e.old_value)

redo_operation(t, e) ==
    CASE e.operation = "INSERT" -> Insert(t, e.new_value)
      [] e.operation = "DELETE" -> Delete(t, {e.old_value.key})
      [] e.operation = "UPDATE" -> Replace(t, e.new_value.key, e.new_value)

-----------------------------------------------------------------------------
(* The log.                                                                *)

DataOperations == {"INSERT", "UPDATE", "DELETE"}
EndOperations == {"COMMIT", "ABORT"}

(* A record about to be given the next id.                                 *)
Record(tid, op, old, new) ==
    [log_id |-> next_log_id, transaction_id |-> tid, operation |-> op,
     old_value |-> old, new_value |-> new, active |-> {}]

(* parse_checkpoint_list finds no list in CHECKPOINT_START: it reads as    *)
(* the empty one.                                                          *)
CheckpointRecord(active) ==
    [Record(SystemTid, "CHECKPOINT", NoRow, NoRow) EXCEPT !.active = active]

AppendAndFlush(e) ==
    /\ wal' = wal \o Append(log_buffer, e)
    /\ log_buffer' = <<>>
    /\ next_log_id' = next_log_id + 1

flush_buffer ==
    /\ wal' = wal \o log_buffer
    /\ log_buffer' = <<>>
    /\ UNCHANGED next_log_id

(* The end of write_log: a full buffer is flushed. *)
Push(e) ==
    IF Len(log_buffer) + 1 >= MAX_BUFFER_SIZE
    THEN AppendAndFlush(e)
    ELSE /\ log_buffer' = Append(log_buffer, e)
         /\ next_log_id' = next_log_id + 1
         /\ UNCHANGED wal

IsData(e) == e.operation \in DataOperations

HasChanges(entries, tid) == \E e \in ToSet(entries) : e.transaction_id = tid /\ IsData(e)

(* recover: the changes logged under a transaction id are undone, the last *)
(* first, as far back as the log goes.                                     *)
Undone(entries, t, tid) ==
    FoldRight(LAMBDA e, acc : IF e.transaction_id = tid /\ IsData(e)
                              THEN undo_operation(acc, e) ELSE acc,
              entries, t)

-----------------------------------------------------------------------------
(* recover_from_crash: analysis from the last checkpoint record on, redo   *)
(* forwards from there, undo backwards to the last BEGIN of each           *)
(* transaction.  entries is what read_all_logs finds.                      *)

LastCheckpoint(entries) ==
    Max({0} \cup {i \in 1..Len(entries) : entries[i].operation = "CHECKPOINT"})

SinceCheckpoint(entries) == SubSeq(entries, LastCheckpoint(entries) + 1, Len(entries))

(* Fault: the transactions the checkpoint lists are forgotten.             *)
UndoListFromLog(entries) ==
    {e.transaction_id : e \in {f \in ToSet(SinceCheckpoint(entries)) : f.operation = "BEGIN"}}
        \ {e.transaction_id : e \in {f \in ToSet(SinceCheckpoint(entries)) :
                                         f.operation \in EndOperations}}

(* Begun or listed by the last checkpoint record, and not ended since.     *)
undo_list(entries) ==
    FoldLeft(LAMBDA tids, e :
                 CASE e.operation = "BEGIN" -> tids \cup {e.transaction_id}
                   [] e.operation \in EndOperations -> tids \ {e.transaction_id}
                   [] OTHER -> tids,
             IF LastCheckpoint(entries) = 0 THEN {} ELSE entries[LastCheckpoint(entries)].active,
             SinceCheckpoint(entries))

committed_txs(entries) ==
    {e.transaction_id : e \in {f \in ToSet(SinceCheckpoint(entries)) : f.operation = "COMMIT"}}

(* The changes of some transactions are made again, in the order logged.   *)
Redone(entries, t, tids) ==
    FoldLeft(LAMBDA acc, e : IF e.transaction_id \in tids /\ IsData(e)
                             THEN redo_operation(acc, e) ELSE acc,
             t, entries)

(* One entry of the backward scan; todo is what is left of the undo list.  *)
UndoUnlessBegun(e, acc) ==
    IF e.transaction_id \notin acc.todo THEN acc
    ELSE CASE e.operation = "BEGIN" -> [acc EXCEPT !.todo = @ \ {e.transaction_id}]
           [] IsData(e)             -> [acc EXCEPT !.table = undo_operation(@, e)]
           [] OTHER                 -> acc

UndoneToBegin(entries, t, tids) ==
    FoldRight(UndoUnlessBegun, entries, [todo |-> tids, table |-> t]).table

Recovered(entries, t) ==
    UndoneToBegin(entries,
                  Redone(SinceCheckpoint(entries), t, committed_txs(entries)),
                  undo_list(entries))

-----------------------------------------------------------------------------

Init ==
    /\ log_buffer = <<>> /\ wal = <<>> /\ next_log_id = 1
    /\ active_transactions_cache = {}
    /\ mtx = "free"
    /\ table = [r \in Row |-> 0] /\ disk = table
    /\ marker = FALSE
    /\ process = "starting"
    /\ session = [t \in Tids |-> "none"]
    /\ unlogged = [t \in Tids |-> {}]
    /\ changed = [t \in Tids |-> {}]
    /\ committed = {}
    /\ unrecorded = {}
    /\ birth = 0 /\ lives = 0 /\ crashes = 0

(* What every step of a running process needs of the mutex: to be free.    *)
Running == process = "up" /\ mtx = "free"

RoomInLog == next_log_id <= MaxLog

(* QueryProcessor::begin_transaction: the concurrency control hands out    *)
(* the next id, from 1 on in every life, and BEGIN is logged.              *)
begin_transaction(t) ==
    /\ Running /\ RoomInLog /\ lives <= MaxLives
    /\ session[t] = "none"
    /\ \A u \in 1..(t - 1) : session[u] # "none"
    /\ session' = [session EXCEPT ![t] = "open"]
    /\ active_transactions_cache' = active_transactions_cache \cup {t}
    /\ Push(Record(t, "BEGIN", NoRow, NoRow))
    /\ UNCHANGED <<mtx, table, disk, marker, process, unlogged, changed, committed, bounds>>

(* Has changes that the concurrency control still protects.                *)
Protected(t) ==
    /\ changed[t] # {}
    /\ "early release" \in Mishaps => session[t] \in {"open", "writing"}

(* A statement that changes at least one row: write_block or delete_block. *)
(* No mutex is needed for that; another transaction's steps may be open.   *)
Change(t, operation, K, newTable, old, new) ==
    /\ process = "up" /\ RoomInLog
    /\ session[t] = "open"
    /\ \A u \in Tids \ {t} : ~Protected(u)
    /\ table' = newTable
    /\ session' = [session EXCEPT ![t] = "writing"]
    /\ unlogged' = [unlogged EXCEPT ![t] =
            {[operation |-> operation, old_value |-> old, new_value |-> new]}]
    /\ changed' = [changed EXCEPT ![t] = @ \cup K]
    /\ UNCHANGED <<log, active_transactions_cache, mtx, disk, marker, process,
                   committed, birth, lives, crashes>>

(* A primary key that is in the table is refused. *)
execute_insert(t, row) ==
    /\ \A r \in RowsOf(table) : r.key # row.key
    /\ Change(t, "INSERT", {row.key}, Insert(table, row), NoRow, row)
    /\ UNCHANGED unrecorded

(* However many rows match, one of them is logged: the first. *)
execute_update(t, K, v) ==
    /\ \E first \in RowsOf(table) \cap WithKey(K) :
        Change(t, "UPDATE", K, SetValue(table, K, v), first, [first EXCEPT !.val = v])
    /\ UNCHANGED unrecorded

(* UPDATE without WHERE, here with a SET of every column: write_block      *)
(* takes a write without conditions for an INSERT and adds the row.  The   *)
(* record it is owed is that of an update of the table's first row, or has *)
(* no rows when the table was empty.                                       *)
execute_update_unconditional(t, row) ==
    /\ "unconditional update" \in Mishaps /\ Cardinality(unrecorded) < MaxUnrecorded
    /\ \E first \in IF RowsOf(table) = {} THEN {NoRow} ELSE RowsOf(table) :
        LET K == {row.key} \cup ({first.key} \cap Keys)
        IN  /\ Change(t, "UPDATE", K, Insert(table, row), first,
                       IF first = NoRow THEN NoRow ELSE row)
            /\ unrecorded' = unrecorded \cup K

execute_delete(t, K) ==
    /\ \E first \in RowsOf(table) \cap WithKey(K) :
        Change(t, "DELETE", K, Delete(table, K), first, NoRow)
    /\ UNCHANGED unrecorded

(* An UPDATE whose query processor found no row to log comes without an    *)
(* old and a new value: it takes an id and gets no record.                 *)
Dropped(c) == c.operation = "UPDATE" /\ c.old_value = NoRow

LogOrDrop(t, c) ==
    \/ /\ ~Dropped(c)
       /\ Push(Record(t, c.operation, c.old_value, c.new_value))
    \/ /\ Dropped(c)
       /\ next_log_id' = next_log_id + 1
       /\ UNCHANGED <<log_buffer, wal>>

(* Fault: what was logged is logged again at the next call.                *)
WriteLogAndKeep(t) ==
    /\ Running
    /\ session[t] = "writing"
    /\ \E c \in unlogged[t] : LogOrDrop(t, c)
    /\ session' = [session EXCEPT ![t] = "open"]
    /\ UNCHANGED <<active_transactions_cache, mtx, table, disk, marker, process, unlogged,
                   changed, committed, bounds>>

(* write_log for the change just made. *)
write_log(t) ==
    /\ Running
    /\ session[t] = "writing"
    /\ \E c \in unlogged[t] : LogOrDrop(t, c)
    /\ session' = [session EXCEPT ![t] = "open"]
    /\ unlogged' = [unlogged EXCEPT ![t] = {}]
    /\ UNCHANGED <<active_transactions_cache, mtx, table, disk, marker, process, changed,
                   committed, bounds>>

(* A flush of the page must not come between a change and its log record,  *)
(* unless that is the mishap in question.                                  *)
FlushAllowed == "early flush" \in Mishaps \/ \A t \in Tids : session[t] # "writing"

(* Fault: the COMMIT record waits in the buffer like any other.            *)
CommitWithoutForce(t) ==
    /\ Running /\ FlushAllowed
    /\ session[t] = "open"
    /\ Push(Record(t, "COMMIT", NoRow, NoRow))
    /\ mtx' = "commit"
    /\ session' = [session EXCEPT ![t] = "committing"]
    /\ committed' = (committed \ WithKey(changed[t])) \cup (RowsOf(table) \cap WithKey(changed[t]))
    /\ UNCHANGED <<active_transactions_cache, table, disk, marker, process, unlogged,
                   changed, bounds>>

(* commit_transaction, first half: the COMMIT record and all before it are *)
(* in the file.  This is where the transaction becomes durable.            *)
commit_log(t) ==
    /\ Running /\ FlushAllowed
    /\ session[t] = "open"
    /\ AppendAndFlush(Record(t, "COMMIT", NoRow, NoRow))
    /\ mtx' = "commit"
    /\ session' = [session EXCEPT ![t] = "committing"]
    /\ committed' = (committed \ WithKey(changed[t])) \cup (RowsOf(table) \cap WithKey(changed[t]))
    /\ UNCHANGED <<active_transactions_cache, table, disk, marker, process, unlogged,
                   changed, bounds>>

(* Second half: the data follows. *)
commit_data(t) ==
    /\ process = "up" /\ FlushAllowed
    /\ session[t] = "committing"
    /\ disk' = table
    /\ active_transactions_cache' = active_transactions_cache \ {t}
    /\ mtx' = "free"
    /\ session' = [session EXCEPT ![t] = "ended"]
    /\ changed' = [changed EXCEPT ![t] = {}]
    /\ UNCHANGED <<log, table, marker, process, unlogged, committed, bounds>>

(* abort_transaction takes the mutex four times.  First it looks whether   *)
(* the log has changes of the transaction.                                 *)
abort_check(t) ==
    /\ Running
    /\ session[t] = "open"
    /\ t \in active_transactions_cache
    /\ session' = [session EXCEPT ![t] =
            IF HasChanges(wal \o log_buffer, t) THEN "undoing" ELSE "closing"]
    /\ UNCHANGED <<log, active_transactions_cache, mtx, table, disk, marker, process,
                   unlogged, changed, committed, bounds>>

recover(t) ==
    /\ Running
    /\ session[t] = "undoing"
    /\ table' = Undone(wal \o log_buffer, table, t)
    /\ flush_buffer
    /\ session' = [session EXCEPT ![t] = "undone"]
    /\ UNCHANGED <<active_transactions_cache, mtx, disk, marker, process, unlogged,
                   changed, committed, bounds>>

(* Fault: the undone rows stay in the buffer pool.                         *)
AbortWithoutData(t) ==
    /\ process = "up" /\ FlushAllowed
    /\ session[t] = "undone"
    /\ session' = [session EXCEPT ![t] = "closing"]
    /\ UNCHANGED <<log, active_transactions_cache, mtx, table, disk, marker, process,
                   unlogged, changed, committed, bounds>>

(* StorageEngine::checkpoint, with the mutex given up. *)
abort_data(t) ==
    /\ process = "up" /\ FlushAllowed
    /\ session[t] = "undone"
    /\ disk' = table
    /\ session' = [session EXCEPT ![t] = "closing"]
    /\ UNCHANGED <<log, active_transactions_cache, mtx, table, marker, process, unlogged,
                   changed, committed, bounds>>

(* Fault: the transaction stays in the cache.                              *)
AbortStillActive(t) ==
    /\ Running
    /\ session[t] = "closing"
    /\ AppendAndFlush(Record(t, "ABORT", NoRow, NoRow))
    /\ session' = [session EXCEPT ![t] = "ended"]
    /\ changed' = [changed EXCEPT ![t] = {}]
    /\ UNCHANGED <<active_transactions_cache, mtx, table, disk, marker, process, unlogged,
                   committed, bounds>>

abort_log(t) ==
    /\ Running
    /\ session[t] = "closing"
    /\ AppendAndFlush(Record(t, "ABORT", NoRow, NoRow))
    /\ active_transactions_cache' = active_transactions_cache \ {t}
    /\ session' = [session EXCEPT ![t] = "ended"]
    /\ changed' = [changed EXCEPT ![t] = {}]
    /\ UNCHANGED <<mtx, table, disk, marker, process, unlogged, committed, bounds>>

(* save_checkpoint holds the mutex throughout: the log, CHECKPOINT_START,  *)
(* the data and CHECKPOINT_END reach the disk one after another.           *)
CheckpointStep(from, to) ==
    /\ process \in {"up", "exiting"}
    /\ mtx = from /\ mtx' = to
    /\ UNCHANGED <<active_transactions_cache, table, marker, client, committed, bounds>>

checkpoint_begin ==
    /\ CheckpointStep("free", "checkpoint") /\ RoomInLog
    /\ flush_buffer
    /\ UNCHANGED <<disk, process>>

checkpoint_start ==
    /\ CheckpointStep("checkpoint", "started")
    /\ AppendAndFlush(CheckpointRecord({}))
    /\ UNCHANGED <<disk, process>>

checkpoint_data ==
    /\ CheckpointStep("started", "flushed") /\ FlushAllowed
    /\ disk' = table
    /\ UNCHANGED <<log, process>>

(* The destructor is over once its checkpoint is. *)
checkpoint_end ==
    /\ CheckpointStep("flushed", "free")
    /\ AppendAndFlush(CheckpointRecord(active_transactions_cache))
    /\ process' = IF process = "exiting" THEN "exited" ELSE process
    /\ UNCHANGED disk

(* evict_page writes a dirty page whenever the pool needs room, with no    *)
(* regard to the log.                                                      *)
evict_page ==
    /\ process = "up" /\ FlushAllowed
    /\ "early flush" \in Mishaps \/ \A e \in ToSet(log_buffer) : ~IsData(e)
    /\ disk # table
    /\ disk' = table
    /\ UNCHANGED <<log, active_transactions_cache, mtx, table, marker, process, client,
                   committed, bounds>>

-----------------------------------------------------------------------------
(* The life of the process.                                                *)

(* Nothing in memory survives. *)
Vanish ==
    /\ log_buffer' = <<>>
    /\ active_transactions_cache' = {}
    /\ mtx' = "free"
    /\ table' = disk
    /\ process' = "starting"
    /\ session' = [t \in Tids |-> "none"]
    /\ unlogged' = [t \in Tids |-> {}]
    /\ changed' = [t \in Tids |-> {}]
    /\ UNCHANGED <<wal, next_log_id, disk, committed>>

crash ==
    /\ process \in {"up", "recovered", "exiting"}
    /\ crashes < MaxCrashes
    /\ mtx \in {"started", "flushed"} => "crash in checkpoint" \in Mishaps
    /\ Vanish
    /\ crashes' = crashes + 1
    /\ UNCHANGED <<marker, unrecorded, birth, lives>>

(* The destructor removes the marker before its checkpoint. *)
exit ==
    /\ Running /\ RoomInLog
    /\ active_transactions_cache = {} \/ "open exit" \in Mishaps
    /\ \A t \in Tids : session[t] \in {"none", "open", "ended"}
    /\ process' = "exiting"
    /\ marker' = FALSE
    /\ UNCHANGED <<log, active_transactions_cache, mtx, table, disk, client, committed,
                   bounds>>

restart ==
    /\ process = "exited" /\ lives <= MaxLives
    /\ Vanish
    /\ UNCHANGED <<marker, bounds>>

(* The constructor.  recover_from_crash changes the file in the end only,  *)
(* and removes the marker after that.                                      *)
recover_from_crash ==
    /\ process = "starting" /\ marker /\ wal # <<>>
    /\ disk' = Recovered(wal, disk)
    /\ table' = disk'
    /\ process' = "recovered"
    /\ UNCHANGED <<log, active_transactions_cache, mtx, marker, client, committed, bounds>>

remove_marker ==
    /\ process = "recovered"
    /\ marker' = FALSE
    /\ process' = "starting"
    /\ UNCHANGED <<log, active_transactions_cache, mtx, table, disk, client, committed,
                   bounds>>

(* Fault: the ids of the log start again in every life.                    *)
ConstructAfresh ==
    /\ process = "starting" /\ (marker => wal = <<>>)
    /\ marker' = TRUE
    /\ next_log_id' = 1
    /\ process' = "up"
    /\ lives' = lives + 1
    /\ birth' = Len(wal)
    /\ UNCHANGED <<log_buffer, wal, active_transactions_cache, mtx, table, disk, client,
                   committed, unrecorded, crashes>>

construct ==
    /\ process = "starting" /\ (marker => wal = <<>>)
    /\ marker' = TRUE
    /\ next_log_id' = IF wal = <<>> THEN 1 ELSE Last(wal).log_id + 1
    /\ process' = "up"
    /\ lives' = lives + 1
    /\ birth' = Len(wal)
    /\ UNCHANGED <<log_buffer, wal, active_transactions_cache, mtx, table, disk, client,
                   committed, unrecorded, crashes>>

Next ==
    \/ \E t \in Tids :
        \/ begin_transaction(t)
        \/ \E row \in Row : execute_insert(t, row) \/ execute_update_unconditional(t, row)
        \/ \E K \in WhereSets : execute_delete(t, K) \/ \E v \in Values : execute_update(t, K, v)
        \/ write_log(t)
        \/ commit_log(t) \/ commit_data(t)
        \/ abort_check(t) \/ recover(t) \/ abort_data(t) \/ abort_log(t)
    \/ checkpoint_begin \/ checkpoint_start \/ checkpoint_data \/ checkpoint_end
    \/ evict_page
    \/ crash \/ exit \/ restart
    \/ recover_from_crash \/ remove_marker \/ construct

Spec == Init /\ [][Next]_vars

-----------------------------------------------------------------------------
(* Properties.                                                             *)

EverLogged == wal \o log_buffer

LogEntry ==
    [log_id : Nat, transaction_id : Tids \cup {SystemTid},
     operation : DataOperations \cup EndOperations \cup {"BEGIN", "CHECKPOINT"},
     old_value : Row \cup {NoRow}, new_value : Row \cup {NoRow}, active : SUBSET Tids]

(* Types; and a change is owed to the log exactly between the table and    *)
(* write_log.                                                              *)
TypeOK ==
    /\ log_buffer \in Seq(LogEntry) /\ Len(log_buffer) < MAX_BUFFER_SIZE
    /\ wal \in Seq(LogEntry) /\ next_log_id \in Nat \ {0}
    /\ active_transactions_cache \subseteq Tids
    /\ mtx \in {"free", "commit", "checkpoint", "started", "flushed"}
    /\ table \in [Row -> Nat] /\ disk \in [Row -> Nat]
    /\ marker \in BOOLEAN
    /\ process \in {"starting", "recovered", "up", "exiting", "exited"}
    /\ session \in [Tids -> {"none", "open", "writing", "committing", "undoing", "undone",
                             "closing", "ended"}]
    /\ \A t \in Tids :
        /\ \A c \in unlogged[t] : c.operation \in DataOperations
        /\ unlogged[t] # {} <=> session[t] = "writing"
    /\ changed \in [Tids -> SUBSET Keys]
    /\ committed \subseteq Row /\ unrecorded \subseteq Keys
    /\ birth \in Nat /\ lives \in Nat /\ crashes \in Nat

(* Log ids grow along the log, also across lives and though some are taken *)
(* for no record: no two records share one, since the constructor goes on  *)
(* behind the last record that reached the file.                           *)
LogIdsIncrease ==
    process \in {"up", "exiting"} =>
        \A i \in DOMAIN EverLogged :
            /\ EverLogged[i].log_id < next_log_id
            /\ \A j \in DOMAIN EverLogged : i < j => EverLogged[i].log_id < EverLogged[j].log_id

(* Nobody has changes outstanding. *)
Quiet == process = "up" /\ \A t \in Tids : changed[t] = {}

(* The rows whose changes the log tells of. *)
Recorded == WithKey(Keys \ unrecorded)

(* Atomicity and durability: with no changes outstanding, the table is     *)
(* what the committed transactions make it, whatever rollbacks, crashes    *)
(* and recoveries came before.                                             *)
TableIsCommitted == Quiet => RowsOf(table) \cap Recorded = committed \cap Recorded

(* Force at commit, and at the end of a rollback and of a recovery: what   *)
(* is over needs no redo.                                                  *)
DiskIsCurrent == Quiet => \A r \in Recorded : disk[r] = table[r]

(* Log before data: by the time a commit or a rollback turns to the data   *)
(* pages, the log file has a record of every row the transaction changed,  *)
(* whoever else filled or flushed the buffer meanwhile.                    *)
LoggedBeforeForced ==
    \A t \in Tids : session[t] \in {"committing", "undone"} =>
        \A k \in changed[t] \ unrecorded : \E e \in ToSet(wal) :
            /\ e.transaction_id = t /\ IsData(e)
            /\ k \in {e.old_value.key, e.new_value.key}

(* The cache is the transactions whose BEGIN this life has logged without  *)
(* an end to it: a checkpoint lists them for the next recovery to undo.    *)
CacheMatchesLog ==
    process \in {"up", "exiting"} /\ mtx # "commit" =>
        active_transactions_cache =
            {t \in Tids : \E i \in (birth + 1)..Len(EverLogged) :
                /\ EverLogged[i].transaction_id = t /\ EverLogged[i].operation = "BEGIN"
                /\ \A j \in i..Len(EverLogged) :
                    EverLogged[j].transaction_id = t =>
                        EverLogged[j].operation \notin EndOperations}

(* A primary key is in the table once: what execute_insert checks before   *)
(* it lets a row in.                                                       *)
PrimaryKeysUnique == \A k \in Keys : process = "up" => Copies(table, {k}) <= 1

=============================================================================
