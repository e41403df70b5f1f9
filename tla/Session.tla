------------------------------- MODULE Session -------------------------------
(***************************************************************************)
(* The sessions of the server: one thread and one QueryProcessor per       *)
(* connection (src/server.cpp,                                             *)
(* src/query_processor/query_processor.cpp), all on one concurrency        *)
(* control, one recovery manager and one storage engine.                   *)
(*                                                                         *)
(* A step is one call of a session into one of those parts: each part      *)
(* works under a lock of its own, so anything may happen between two calls.*)
(* What a statement computes is the business of Statements, how pages are  *)
(* kept of StorageEngine, and what survives a crash of FailureRecovery;    *)
(* here a table is there or not and has the rows of some transactions: the *)
(* only change is an INSERT, of one row that names its transaction, for    *)
(* UPDATE and DELETE make the same calls.                                  *)
(***************************************************************************)
EXTENDS ConcurrencyControl, Sequences, SequencesExt, FiniteSets

CONSTANTS
    Sessions,
    Databases,      \* the sets of tables the data directory may hold at the start
    Statements,     \* what the clients may send: [kind, tables]
    MaxRecords      \* bound on the log records of a transaction in new statements

ASSUME StatementsAssumption ==
    Statements \subseteq [kind : {"SELECT", "INSERT", "CREATE", "DROP"},
                          tables : Seq(Tables) \ {<<>>}]

ASSUME DatabasesAssumption == Databases \subseteq SUBSET Tables

VARIABLES
    current_transaction_id,        \* session -> its transaction, or NoTid
    explicit_transaction_started,  \* session -> BEGIN started it
    pc,                            \* session -> the call it makes next
    statement,                     \* session -> what it executes
    todo,                          \* session -> the tables it has yet to turn to
    log_buffer, wal,               \* transaction -> its records not in, and in, the file
    active_transactions_cache,
    pending_drop_schemas_,         \* tables whose schema was saved for a DROP
    tables,                        \* the tables there are
    rows,                          \* table -> the transactions whose row it has
    orphans                        \* transactions no session can name any more

query_processor == <<current_transaction_id, explicit_transaction_started, pc, statement, todo>>
recovery == <<log_buffer, wal, active_transactions_cache, pending_drop_schemas_>>
storage == <<tables, rows>>
vars == <<ccm, query_processor, recovery, storage, orphans>>

Places ==
    {"idle", "log_begin", "check_schema", "prepare", "log_object", "validate", "access",
     "log_change", "commit", "end_committed", "end_aborted", "undo", "log_abort"}

NoTid == -1
NoStatement == [kind |-> "NONE", tables |-> <<>>]
DataOperations == {"INSERT"}

Tid(s) == current_transaction_id[s]
Table(s) == Head(todo[s])

(* Fault: adding a row counts as reading the table.                        *)
ActionOnRows(s) == IF statement[s].kind \in {"SELECT", "INSERT"} THEN "READ" ELSE "WRITE"

Action(s) == IF statement[s].kind = "SELECT" THEN "READ" ELSE "WRITE"

-----------------------------------------------------------------------------
(* The recovery manager.  Every commit and rollback writes the buffer out  *)
(* long before it holds its 50 records.                                    *)

Entry(op, table, schema) == [operation |-> op, table_name |-> table, has_schema |-> schema]
Mark(op) == Entry(op, "none", FALSE)

Entries(t) == wal[t] \o log_buffer[t]
Ended(t, op) == Contains(Entries(t), Mark(op))

write_log(t, e) ==
    /\ log_buffer' = [log_buffer EXCEPT ![t] = Append(@, e)]
    /\ UNCHANGED wal

(* Fault: the rest of the buffer is thrown away.                           *)
WriteLastAlone(t, op) ==
    /\ wal' = [wal EXCEPT ![t] = Append(Entries(t), Mark(op))]
    /\ log_buffer' = [u \in Tids |-> <<>>]
    /\ active_transactions_cache' = active_transactions_cache \ {t}
    /\ UNCHANGED pending_drop_schemas_

(* The last record of a transaction, and with it all that was buffered.    *)
WriteLast(t, op) ==
    /\ wal' = [u \in Tids |->
            IF u = t THEN Append(Entries(t), Mark(op)) ELSE Entries(u)]
    /\ log_buffer' = [u \in Tids |-> <<>>]
    /\ active_transactions_cache' = active_transactions_cache \ {t}
    /\ UNCHANGED pending_drop_schemas_

has_data_modifications(t) ==
    \E e \in ToSet(Entries(t)) : e.operation \in DataOperations

NoTable(state, r) ==
    [tables |-> state.tables \ {r}, rows |-> [state.rows EXCEPT ![r] = {}]]

(* undo_operation: a dropped table comes back empty, and only if its       *)
(* schema was at hand when the DROP was logged.                            *)
UndoOperation(t, e, state) ==
    CASE e.operation = "INSERT" -> [state EXCEPT !.rows[e.table_name] = @ \ {t}]
      [] e.operation = "CREATE" -> NoTable(state, e.table_name)
      [] e.operation = "DROP" /\ e.has_schema ->
            [state EXCEPT !.tables = @ \cup {e.table_name}]
      [] OTHER -> state

Undone(t) ==
    FoldRight(LAMBDA e, state : UndoOperation(t, e, state), Entries(t),
              [tables |-> tables, rows |-> rows])

-----------------------------------------------------------------------------

Init ==
    /\ switch_algorithm
    /\ current_transaction_id = [s \in Sessions |-> NoTid]
    /\ explicit_transaction_started = [s \in Sessions |-> FALSE]
    /\ pc = [s \in Sessions |-> "idle"]
    /\ statement = [s \in Sessions |-> NoStatement]
    /\ todo = [s \in Sessions |-> <<>>]
    /\ log_buffer = [t \in Tids |-> <<>>]
    /\ wal = [t \in Tids |-> <<>>]
    /\ active_transactions_cache = {}
    /\ pending_drop_schemas_ = {}
    /\ tables \in Databases
    /\ rows = [r \in Tables |-> {}]
    /\ orphans = {}

Goto(s, place) == pc' = [pc EXCEPT ![s] = place]

(* The transaction a session holds, and whether BEGIN started it.          *)
Hold(s, t, explicit) ==
    /\ current_transaction_id' = [current_transaction_id EXCEPT ![s] = t]
    /\ explicit_transaction_started' = [explicit_transaction_started EXCEPT ![s] = explicit]

(* The end of execute_query.  Two sessions answered the same way are in    *)
(* the same state, whatever they were asked.                               *)
Answered(s) ==
    /\ Goto(s, "idle")
    /\ statement' = [statement EXCEPT ![s] = NoStatement]
    /\ todo' = [todo EXCEPT ![s] = <<>>]

(* The first call of a statement once there is a transaction.  A text that *)
(* analyze_query throws for goes the way of one that names no table.       *)
FirstCall(q) ==
    CASE q.kind \in {"SELECT", "INSERT"} -> "check_schema"
      [] q.kind = "DROP"                 -> "prepare"
      [] q.kind = "CREATE"               -> "log_object"

-----------------------------------------------------------------------------
(* Requests of the client.  COMMIT and ROLLBACK without a transaction are  *)
(* answered "failed" and change nothing.                                   *)

(* Fault: the id is taken before the counter moves.                        *)
BeginWithOldId(s) ==
    /\ pc[s] = "idle"
    /\ cc_begin_transaction
    /\ Hold(s, last_transaction_id, TRUE)
    /\ Goto(s, "log_begin")
    /\ orphans' = orphans \cup ({Tid(s)} \ {NoTid})
    /\ UNCHANGED <<statement, todo, recovery, storage>>

(* BEGIN, whether or not a transaction is open: the id of the open one is  *)
(* overwritten.                                                            *)
Begin(s) ==
    /\ pc[s] = "idle"
    /\ cc_begin_transaction
    /\ Hold(s, last_transaction_id', TRUE)
    /\ Goto(s, "log_begin")
    /\ orphans' = orphans \cup ({Tid(s)} \ {NoTid})
    /\ UNCHANGED <<statement, todo, recovery, storage>>

Take(s, q) ==
    /\ statement' = [statement EXCEPT ![s] = q]
    /\ todo' = [todo EXCEPT ![s] = q.tables]

(* A statement outside a transaction gets one of its own.                  *)
ExecuteAlone(s, q) ==
    /\ pc[s] = "idle" /\ Tid(s) = NoTid
    /\ cc_begin_transaction
    /\ Hold(s, last_transaction_id', FALSE)
    /\ Take(s, q)
    /\ Goto(s, "log_begin")
    /\ UNCHANGED <<recovery, storage, orphans>>

ExecuteInside(s, q) ==
    /\ pc[s] = "idle" /\ Tid(s) # NoTid
    /\ Len(Entries(Tid(s))) < MaxRecords
    /\ Take(s, q)
    /\ Goto(s, FirstCall(q))
    /\ UNCHANGED <<ccm, current_transaction_id, explicit_transaction_started,
                   recovery, storage, orphans>>

(* COMMIT and ROLLBACK: the concurrency control first.                     *)
Commit(s) ==
    /\ pc[s] = "idle" /\ Tid(s) # NoTid
    /\ cc_end_transaction(Tid(s))
    /\ Goto(s, "commit")
    /\ UNCHANGED <<current_transaction_id, explicit_transaction_started, statement, todo,
                   recovery, storage, orphans>>

Rollback(s) ==
    /\ pc[s] = "idle" /\ Tid(s) # NoTid
    /\ cc_end_transaction(Tid(s))
    /\ Goto(s, "undo")
    /\ UNCHANGED <<current_transaction_id, explicit_transaction_started, statement, todo,
                   recovery, storage, orphans>>

(* The connection ends, by exit or by itself, and its query processor with *)
(* it; the place is taken by the next client.                              *)
Disconnect(s) ==
    /\ pc[s] = "idle" /\ Tid(s) # NoTid
    /\ Hold(s, NoTid, FALSE)
    /\ orphans' = orphans \cup {Tid(s)}
    /\ UNCHANGED <<ccm, pc, statement, todo, recovery, storage>>

-----------------------------------------------------------------------------
(* The calls of a statement.                                               *)

LogBegin(s) ==
    /\ pc[s] = "log_begin"
    /\ write_log(Tid(s), Mark("BEGIN"))
    /\ active_transactions_cache' = active_transactions_cache \cup {Tid(s)}
    /\ Goto(s, IF statement[s] = NoStatement THEN "idle" ELSE FirstCall(statement[s]))
    /\ UNCHANGED <<ccm, current_transaction_id, explicit_transaction_started, statement,
                   todo, pending_drop_schemas_, storage, orphans>>

get_table_schema(s) ==
    /\ pc[s] = "check_schema"
    /\ Goto(s, IF Table(s) \in tables THEN "log_object" ELSE "end_aborted")
    /\ UNCHANGED <<ccm, current_transaction_id, explicit_transaction_started, statement,
                   todo, recovery, storage, orphans>>

(* Before any permission: the table may be another one when it is dropped. *)
prepare_ddl_operation(s) ==
    /\ pc[s] = "prepare"
    /\ pending_drop_schemas_' = pending_drop_schemas_ \cup ({Table(s)} \cap tables)
    /\ Goto(s, "log_object")
    /\ UNCHANGED <<ccm, current_transaction_id, explicit_transaction_started, statement,
                   todo, log_buffer, wal, active_transactions_cache, storage, orphans>>

LogObject(s) ==
    /\ pc[s] = "log_object"
    /\ log_object(Tid(s), Table(s))
    /\ Goto(s, "validate")
    /\ UNCHANGED <<current_transaction_id, explicit_transaction_started, statement, todo,
                   recovery, storage, orphans>>

AccessAllowed(s) ==
    /\ pc[s] = "validate"
    /\ Allowed(Tid(s), Table(s), Action(s))
    /\ Goto(s, "access")
    /\ UNCHANGED <<current_transaction_id, explicit_transaction_started, statement, todo,
                   recovery, storage, orphans>>

(* Fault: the session asks again until it is allowed.                      *)
AskAgain(s) ==
    /\ pc[s] = "validate"
    /\ Denied(Tid(s), Table(s), Action(s))
    /\ UNCHANGED <<query_processor, recovery, storage, orphans>>

(* Fault: the client is told, and may try something else.                  *)
ReportDenied(s) ==
    /\ pc[s] = "validate"
    /\ Denied(Tid(s), Table(s), Action(s))
    /\ Answered(s)
    /\ UNCHANGED <<current_transaction_id, explicit_transaction_started, recovery, storage,
                   orphans>>

(* Whatever the reason, a refusal is thrown as an error.                   *)
AccessDenied(s) ==
    /\ pc[s] = "validate"
    /\ Denied(Tid(s), Table(s), Action(s))
    /\ Goto(s, "end_aborted")
    /\ UNCHANGED <<current_transaction_id, explicit_transaction_started, statement, todo,
                   recovery, storage, orphans>>

(* After the last table: a transaction of its own is committed, the        *)
(* recovery manager first.                                                 *)
Finish(s) ==
    IF explicit_transaction_started[s]
    THEN Answered(s)
    ELSE Goto(s, "commit") /\ UNCHANGED <<statement, todo>>

(* read_block for a SELECT; of a table that is gone it gives no rows.      *)
Read(s) ==
    /\ pc[s] = "access" /\ statement[s].kind = "SELECT"
    /\ IF Len(todo[s]) > 1
       THEN /\ todo' = [todo EXCEPT ![s] = Tail(@)]
            /\ Goto(s, "check_schema")
            /\ UNCHANGED statement
       ELSE Finish(s)
    /\ UNCHANGED <<ccm, current_transaction_id, explicit_transaction_started, recovery,
                   storage, orphans>>

Change(s, r, there, content) ==
    /\ tables' = there
    /\ rows' = [rows EXCEPT ![r] = content]
    /\ Goto(s, "log_change")
    /\ UNCHANGED <<statement, todo>>

(* The search for the same primary key, and write_block, which changes     *)
(* nothing when the table is gone: an INSERT without a list of columns     *)
(* fails on that before, one with a list is done.                          *)
InsertRow(s, r) ==
    \/ r \in tables /\ Tid(s) \notin rows[r] /\ Change(s, r, tables, rows[r] \cup {Tid(s)})
    \/ r \notin tables /\ Finish(s) /\ UNCHANGED storage
    \/ /\ Tid(s) \in rows[r] \/ r \notin tables
       /\ Goto(s, "end_aborted")
       /\ UNCHANGED <<storage, statement, todo>>

(* create_table and drop_table answer false, without an exception, for a   *)
(* table that is there, or not there.                                      *)
CreateTable(s, r) ==
    IF r \in tables THEN Finish(s) /\ UNCHANGED storage
                    ELSE Change(s, r, tables \cup {r}, {})

DropTable(s, r) ==
    IF r \notin tables THEN Finish(s) /\ UNCHANGED storage
                       ELSE Change(s, r, tables \ {r}, {})

ChangeTable(s) ==
    /\ pc[s] = "access"
    /\ \/ statement[s].kind = "INSERT" /\ InsertRow(s, Table(s))
       \/ statement[s].kind = "CREATE" /\ CreateTable(s, Table(s))
       \/ statement[s].kind = "DROP" /\ DropTable(s, Table(s))
    /\ UNCHANGED <<ccm, current_transaction_id, explicit_transaction_started, recovery,
                   orphans>>

(* write_log of a DROP takes the saved schema, or the one of a table of    *)
(* that name that is there by now.                                         *)
LogChange(s) ==
    /\ pc[s] = "log_change"
    /\ LET op == statement[s].kind
       IN  /\ write_log(Tid(s), Entry(op, Table(s),
                   op = "DROP" /\ Table(s) \in pending_drop_schemas_ \cup tables))
           /\ pending_drop_schemas_' =
                  pending_drop_schemas_ \ (IF op = "DROP" THEN {Table(s)} ELSE {})
    /\ Finish(s)
    /\ UNCHANGED <<ccm, current_transaction_id, explicit_transaction_started,
                   active_transactions_cache, storage, orphans>>

-----------------------------------------------------------------------------
(* The ends of a transaction.                                              *)

(* FailureRecoveryManager::commit_transaction.  What execute_query began   *)
(* by itself is still to be ended for the concurrency control.             *)
CommitLog(s) ==
    /\ pc[s] = "commit"
    /\ WriteLast(Tid(s), "COMMIT")
    /\ IF statement[s] = NoStatement
       THEN Hold(s, NoTid, FALSE) /\ Answered(s)
       ELSE /\ Goto(s, "end_committed")
            /\ UNCHANGED <<current_transaction_id, explicit_transaction_started, statement,
                           todo>>
    /\ UNCHANGED <<ccm, storage, orphans>>

EndCommitted(s) ==
    /\ pc[s] = "end_committed"
    /\ cc_end_transaction(Tid(s))
    /\ Hold(s, NoTid, FALSE)
    /\ Answered(s)
    /\ UNCHANGED <<recovery, storage, orphans>>

(* Fault: the concurrency control is not told.                             *)
EndUntold(s) ==
    /\ pc[s] = "end_aborted"
    /\ Goto(s, "undo")
    /\ UNCHANGED <<ccm, current_transaction_id, explicit_transaction_started, statement,
                   todo, recovery, storage, orphans>>

(* The handler of execute_query: like ROLLBACK.                            *)
EndAborted(s) ==
    /\ pc[s] = "end_aborted"
    /\ cc_end_transaction(Tid(s))
    /\ Goto(s, "undo")
    /\ UNCHANGED <<current_transaction_id, explicit_transaction_started, statement, todo,
                   recovery, storage, orphans>>

(* FailureRecoveryManager::abort_transaction up to the ABORT record: the   *)
(* changes in the log are undone, if one of them is of rows.  recover      *)
(* holds the manager's mutex and is taken as one step.                     *)
Undo(s) ==
    /\ pc[s] = "undo"
    /\ IF Tid(s) \notin active_transactions_cache
       THEN Hold(s, NoTid, FALSE) /\ Answered(s) /\ UNCHANGED storage
       ELSE /\ Goto(s, "log_abort")
            /\ IF has_data_modifications(Tid(s))
               THEN tables' = Undone(Tid(s)).tables /\ rows' = Undone(Tid(s)).rows
               ELSE UNCHANGED storage
            /\ UNCHANGED <<current_transaction_id, explicit_transaction_started, statement,
                           todo>>
    /\ UNCHANGED <<ccm, recovery, orphans>>

LogAbort(s) ==
    /\ pc[s] = "log_abort"
    /\ WriteLast(Tid(s), "ABORT")
    /\ Hold(s, NoTid, FALSE)
    /\ Answered(s)
    /\ UNCHANGED <<ccm, storage, orphans>>

-----------------------------------------------------------------------------

(* What the thread of a session does on its own once it has a request.     *)
Step(s) ==
    \/ LogBegin(s) \/ get_table_schema(s) \/ prepare_ddl_operation(s) \/ LogObject(s)
    \/ AccessAllowed(s) \/ AccessDenied(s) \/ Read(s) \/ ChangeTable(s) \/ LogChange(s)
    \/ CommitLog(s) \/ EndCommitted(s) \/ EndAborted(s) \/ Undo(s) \/ LogAbort(s)

Request(s) ==
    \/ Begin(s) \/ Commit(s) \/ Rollback(s) \/ Disconnect(s)
    \/ \E q \in Statements : ExecuteAlone(s, q) \/ ExecuteInside(s, q)

Next == \E s \in Sessions : Step(s) \/ Request(s)

(* The scheduler runs every thread; the clients owe nobody a request.      *)
Spec == Init /\ [][Next]_vars /\ \A s \in Sessions : WF_vars(Step(s))

-----------------------------------------------------------------------------
(* Properties.                                                             *)

(* The types of the members of the sessions and of what they share.        *)
TypeOK ==
    /\ current_transaction_id \in [Sessions -> Tids \cup {NoTid}]
    /\ explicit_transaction_started \in [Sessions -> BOOLEAN]
    /\ pc \in [Sessions -> Places]
    /\ statement \in [Sessions -> Statements \cup {NoStatement}]
    /\ todo \in [Sessions -> Seq(Tables)]
    /\ {active_transactions_cache, orphans} \subseteq SUBSET Tids
    /\ pending_drop_schemas_ \subseteq Tables
    /\ tables \subseteq Tables
    /\ rows \in [Tables -> SUBSET Tids]

(* The concurrency control and the recovery manager, told of every begin   *)
(* and end in two calls and by four paths, in either order, never disagree *)
(* about which transactions are open except for those two calls of the     *)
(* session that holds the transaction.  A disagreement that lasts is a lock*)
(* nobody gives back, or a transaction that every checkpoint lists and     *)
(* every recovery rolls back.                                              *)
ManagersAgree ==
    \A t \in Tids :
        LET at(places) == \E s \in Sessions : Tid(s) = t /\ pc[s] \in places
        IN  /\ Unended(t) /\ t \notin active_transactions_cache =>
                    at({"log_begin", "end_committed"})
            /\ ~Unended(t) /\ t \in active_transactions_cache =>
                    at({"commit", "undo", "log_abort"})

(* Unless a nested BEGIN or a disconnect lost it, an open transaction is   *)
(* held by one session, which can still end it; and a session that waits   *)
(* for its client holds no transaction the concurrency control has given   *)
(* up, on which every further statement would fail.                        *)
OpenTransactionsAreHeld ==
    /\ \A t \in Tids : Unended(t) \/ t \in active_transactions_cache =>
            t \in orphans \/ \E s \in Sessions : Tid(s) = t
    /\ \A s, z \in Sessions : Tid(s) = Tid(z) => s = z \/ Tid(s) = NoTid
    /\ \A s \in Sessions : Tid(s) # NoTid => Tid(s) \notin orphans
    /\ \A s \in Sessions : pc[s] = "idle" /\ Tid(s) # NoTid => Accepted(Tid(s))

(* Under two-phase locking the storage engine may count on it that no      *)
(* statement works on a table while another changes it, though the lock is *)
(* asked for in one call and the table turned to in a later one.           *)
StatementsExclude ==
    current_algorithm_ = "twophaselocking" =>
        \A s, z \in Sessions :
            /\ pc[s] = "access" /\ pc[z] = "access"
            /\ Table(s) = Table(z)
            /\ statement[s].kind # "SELECT"
            => s = z

(* Once its ABORT record is written nothing is left of what a transaction  *)
(* inserted, wherever its records were when the rollback looked for them,  *)
(* and whatever others dropped, created and rolled back meanwhile.         *)
RolledBackLeaveNoRow ==
    \A t \in Tids : Ended(t, "ABORT") => \A r \in Tables : t \notin rows[r]

(* "Jika tidak diizinkan (deadlock/conflict), batalkan transaksi": no      *)
(* session waits for another.  Every request is answered, though the       *)
(* clients of other sessions may never send another word.                  *)
EveryRequestIsAnswered ==
    \A s \in Sessions : pc[s] # "idle" ~> pc[s] = "idle"

(* "Rollback semua perubahan yang dilakukan oleh transaksi"                *)
(* (query_processor.h:38): after a rollback the tables whose first change  *)
(* in the transaction was a DROP are there, and those it created first are *)
(* not.                                                                    *)
RollbacksRestoreTables ==
    [][\A s \in Sessions : pc[s] = "undo" /\ pc'[s] # "undo" =>
            LET ddl(r) == SelectSeq(Entries(Tid(s)),
                    LAMBDA e : e.table_name = r /\ e.operation \in {"CREATE", "DROP"})
            IN  \A r \in Tables : ddl(r) # <<>> =>
                    (r \in tables' <=> Head(ddl(r)).operation = "DROP")]_vars

=============================================================================
