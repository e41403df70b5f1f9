# MahSQL in TLA+

A verification project for MahSQL, a small relational DBMS in C++ (`src/`). It
models the parts of the system where the order of events, or a rule of SQL,
decides over correctness: the two concurrency control protocols, the recovery
manager, the sessions that drive both, the storage engine over its buffer pool,
and what the SQL statements compute. TLC checks the models on small instances;
TLAPS proves the theorems of section 4 for every value of the constants.

All paths below are relative to the repository root, and `tla/PROJECT.json`
maps every definition to the source lines it stands for.

## 1. The system

A client connects to the server, which gives each connection a thread and a
`QueryProcessor` of its own. Everything below the query processor is a
singleton that all sessions share:

```
client --TCP--> server --> QueryProcessor --> parser, optimizer (pure)
                              |  begin / log_object / validate_object / end
                              +----> ConcurrencyControlManager --> 2PL | timestamps
                              |  write_log / commit / abort
                              +----> FailureRecoveryManager --+--> wal.bin, .running
                              |  read / write / delete block   | undo, redo, checkpoint
                              +----> StorageEngine <-----------+
                                        |--> BufferManager --> <table>.dat
                                        +--> hash and B+ tree indexes
```

| Component | State | Operations | What is hard |
|---|---|---|---|
| `TwoPhaseLockingCCManager` (`src/src/concurrency_control/two_phase_locking_protocol.cpp`) | transactions with status, phase and lock list; S and X lock tables; wait-for graph; a FIFO queue per record | `begin_transaction`, `validate_object` (lock or refuse; never blocks), `end_transaction`, `get_transaction_status` | callers poll, so each call may come in any order; upgrades; deadlock victims; stale queue entries and edges |
| `TimestampCCManager` (`timestamp_ordering.cpp`, the default) | a counter, live transactions, read and write timestamp per logged object | the same and `log_object` | objects outlive the transactions that stamped them; late accesses |
| `ConcurrencyControlManager` (`concurrency_control.cpp`) | a pointer to the protocol in use | delegation, `switch_algorithm` | a switch while clients are inside |
| `FailureRecoveryManager` (`src/src/failure_recovery/failure_recovery.cpp`) | log buffer, log file, cache of active transactions, crash marker file, a checkpoint thread | `write_log`, `commit_transaction`, `abort_transaction`, `save_checkpoint`, `recover`, `recover_from_crash`, constructor, destructor | crashes between any two writes, the log against the pages, recovery run twice |
| `QueryProcessor` (`src/src/query_processor/query_processor.cpp`) | the open transaction's id and whether BEGIN started it | statements, BEGIN, COMMIT, ABORT, auto-commit; joins, filters, sorting | its order of calls into the other three, exceptions between them, and two evaluators of one WHERE clause |
| `StorageEngine` (`src/src/storage_manager/storage_manager.cpp`) | table files, schema files, `tables.meta` | row reads and writes, DDL, statistics | no lock of its own; pages evicted between two calls; DDL in several file operations |
| `BufferManager` (`buffer_manager.cpp`) | up to 50 pages with pin count, dirty flag and age | `get_page`, `new_page`, `unpin_page`, eviction, `checkpoint` | pins lost or left, failing flushes, rows that do not survive the disk |
| `HashIndexEngine`, `BPlusTreeIndexEngine` | index files | build, insert, delete, search | offsets of rows that move; overflow; node splits |
| Optimizer, parser | none | pure functions | what the parser drops of a clause |
| Server, client, terminal | connection count | socket I/O | a disconnect inside a transaction |

What makes each of them correct:

- concurrency control: the accesses allowed are conflict serializable (under
  locking, also strict); queues are fair; deadlocks are broken, and only they
  cost a victim; nothing of a finished transaction stays behind;
- recovery: once nothing is in progress, the tables hold what the committed
  transactions left in them, whatever rollbacks and crashes there were; a commit
  or a rollback forces the log before the data it describes (an eviction does
  not, see the mishap "early flush" below);
- sessions: the two managers learn of the start and the end of every
  transaction, every transaction can be ended by somebody, and no request
  waits for another session;
- buffer manager and storage engine: a read returns the last write; no page is
  lost or written twice under different contents; a page in use stays;
- query processor and parser: a statement does what SQL says it means.

`hazards` in `PROJECT.json` lists what can go wrong at which line, with the
properties that would notice, or the reason why none does.

## 2. Modules

| Module | Models | Builds on |
|---|---|---|
| `SerializableScheduler` | the abstract contract of the `CCManager` interface: transactions begin, are granted accesses, finish; the order of conflicting accesses stays acyclic | |
| `TwoPhaseLocking` | `TwoPhaseLockingCCManager`, every operation | |
| `TwoPhaseLockingSchedule` | the same, with a record of the accesses it allows; implements `SerializableScheduler` | `TwoPhaseLocking` |
| `LockClients` | the threads of `execute_with_retry` in `src/tests/test_concurrency_control.cpp`, polling for one lock after another | `TwoPhaseLocking` |
| `TimestampOrdering` | `TimestampCCManager`, every operation | |
| `TimestampOrderingSchedule` | with a record of the accesses; implements `SerializableScheduler` | `TimestampOrdering` |
| `ConcurrencyControl` | `ConcurrencyControlManager`: one of the two protocols behind one interface | `TwoPhaseLocking`, `TimestampOrdering` |
| `FailureRecovery` | log, commit, rollback, checkpoint, crash, recovery, over one table | |
| `Session` | the server's threads: sessions on one concurrency control, one recovery manager and one storage engine | `ConcurrencyControl` |
| `PageStore` | the abstract contract of the buffer manager: pages with contents and a stable copy | |
| `BufferManager` | the pool, the files of pages, every operation | |
| `StorageEngine` | statements of several sessions over the pool, DDL, crashes; implements `PageStore` | `BufferManager` |
| `Relational` | what a statement of SQL means, the reference for `Statements` | |
| `Statements` | parsing into a `ParsedQuery` and the execution of SELECT, INSERT, UPDATE, DELETE | `Relational` |
| `DataLemmas` | lemmas about sequences, folds, sums and sets of naturals, for the proofs | |
| `LockUseProofs` | proofs about `TwoPhaseLockingSchedule` and `LockClients`, the two modules that use the lock manager | `TwoPhaseLockingProofs` |
| the other `*Proofs` | proofs | the modules they are named after |
| `MC*` | constants for TLC | |

The system is too large for one state space, so each composition takes one cut
through it, and what one model assumes another one shows:

- `StorageEngine` lets one writer or several readers work on a table;
  `StatementsExclude` of `Session` says that this is so under two-phase
  locking. (Under timestamp ordering, the server's default, nobody sees to it,
  and a rollback never asks for a lock; the storage properties are not claimed
  there. Only the tests switch to two-phase locking.)
- `Session` takes the lock manager's word for a lock; `TwoPhaseLocking` shows
  that the word is good. The proof of `Session` uses the proof of
  `TwoPhaseLocking`.
- `FailureRecovery` has one table of one page and writers that keep their lock
  until they are undone; `Session` has the calls between which they lose it.

Definitions marked "Fault:" are variants of the definition after them with a
plausible bug. No specification uses them; they show that each property notices
the bug it is meant for (`mutants` in `PROJECT.json`).

### TwoPhaseLocking

Every public operation takes the manager's mutex, so each is one action. The
maps of the class are total functions here: "absent" is `TERMINATED` for a
transaction, `NoTid` for an X lock and the empty set or sequence elsewhere. A
call for an id nobody handed out is a refusal. `validate_object` is the
disjunction of its outcomes, in the order in which the code tests for them:

1. `RefuseInactive`: the transaction is over;
2. `WaitInQueue`: another transaction heads the record's queue. No lock table
   is looked at and *no wait-for edge is drawn*, which matters below;
3. `AllowLocked`: the lock is already there;
4. `WaitForHolder` / `AbortRequester`: a holder is in the way, and the edge to
   it closes no cycle / closes one;
5. `GrantLock`.

`check_cycle`, a depth-first search, is stated by what it finds: a cycle the
requester can reach and return from. `log_object` does nothing in this class.

### LockClients

A thread runs a *program*, a sequence of lock requests, and polls each request
until it is allowed or the thread is the victim, as `execute_with_retry` does.
The sets of programs in `MCLockClients` ask different questions: any programs
(safety), ordered programs (everybody commits) and crossing ones (everybody
finishes), and programs that ask twice for one record (a finding).

### TimestampOrdering

A transaction's timestamp is its id. All ways to end a transaction erase its
entry and leave its timestamps on the objects. A failed validation marks the
transaction `FAILED`; only its owner ends it.

### FailureRecovery

One table that fits in one page; a row is a key and a value, and the table is a
bag of rows, since recovery can duplicate one. `table` is the table as the
buffer pool has it, `disk` as its file has it. Rows are found by primary key
(`row_to_conditions`).

An operation is split where a crash between two writes can be told apart:
`commit_log` then `commit_data`; `abort_check`, `recover`, `abort_data`,
`abort_log` (the code gives the mutex up between them); `checkpoint_begin`,
`checkpoint_start`, `checkpoint_data`, `checkpoint_end`; `recover_from_crash`,
`remove_marker`, `construct`. `mtx` tells which steps exclude the others. The
two looks `abort_transaction` takes before it undoes, both of which only read
what the transaction itself wrote, are one step; so are taking an id from the
concurrency control and logging BEGIN. The recovered data reach the disk in
one write because the table is one page.

`write_log` takes an id before it looks at what it has to log, and drops an
UPDATE that comes without an old and a new row (`Dropped`, `LogOrDrop`): the id
is then gone, and the ids of the log have a gap. It meets one when an UPDATE
without WHERE finds the table empty (`execute_update_unconditional`).

`committed` (the rows the committed transactions leave), `changed` (the keys a
transaction has changed so far), `unrecorded` (the keys of rows that a record
has misrepresented or left out) and `birth` (where this life's log begins) are
history variables: no action of the code depends on them, except that
`Protected` reads `changed` for the table lock it stands for and
`MaxUnrecorded` bounds `unrecorded`.

Some ordinary events break the central property, each in its own way. They are
switched on by the constant `Mishaps`, so that one does not hide the others:

| Mishap | What may happen then | How `TableIsCommitted` fails |
|---|---|---|
| `"early flush"` | the page is written between a change and its log record, or before that record leaves the buffer | after a crash, an uncommitted row that no record tells of is still there |
| `"crash in checkpoint"` | a crash between the two checkpoint records | recovery starts from CHECKPOINT_START, which lists no active transaction, and undoes none |
| `"open exit"` | a normal exit with a transaction open | the destructor removes the marker, then writes the open transaction's changes; the next start recovers nothing |
| `"early release"` | another transaction changes the table while a commit or rollback is under way | a rollback takes away what the other changed and committed meanwhile |

TLC finds each of the four in a trace of 7 to 14 states when `Mishaps` in
`MCFailureRecovery.cfg` is set to it. With two more settings TLC finds
`TableIsCommitted` violated, too: ids used again after a restart (with
`MaxLives` = 2, a transaction of the second life takes back what its namesake
of the first one committed), and statements on many rows (with `WhereSets` set
to `AllRows` and two keys, a rollback brings back one row of two). A committed
INSERT redone needs no setting (the run `redo_twice`).

There is a fifth mishap, `"unconditional update"`: UPDATE without WHERE, which
`write_block` takes for an INSERT. A row is added; the record is that of an
update of the table's first row, or there is none when the table was empty, and
no rollback or recovery can take back the row. The run `recovery` has it on, and
its two properties about rows, `TableIsCommitted` and `DiskIsCurrent`, speak of
all rows but those with a key in `unrecorded`. So the run says: *apart from
these* the rows are right, which tells a maintainer how far each fix has to go.

Of the rule that the log goes before the data, `LoggedBeforeForced` says what
the code keeps: by the time a commit or a rollback turns to the pages, the log
file has a record of each row its transaction changed (but for keys in
`unrecorded`), whoever filled or flushed the buffer meanwhile. That
holds with all mishaps on, early flushes included (section 4). What the code
does not keep, a record in the file before *any* write of its page, is the mishap
"early flush": `evict_page` has no regard to the log, and the commit of another
session writes every page.

### ConcurrencyControl and Session

The query processor asks for whole tables, so the objects of the protocols are
tables here and the row hash has nothing to tell apart. `switch_algorithm` is
part of `Init`: the protocol is settled before the first transaction.

A step of `Session` is one call of one session into one shared part, because
each part has a mutex of its own and gives it back between calls. `pc` names
the call a session makes next, in the order of `execute_query`: BEGIN is
`Begin` then `LogBegin`; a statement outside a transaction opens one of its own
the same way. Then, for each table of the statement, `log_object`,
`validate_object` (`AccessAllowed` / `AccessDenied`), the access itself and its
log record (`LogChange`). The end takes the two managers in one of four ways:

| | first | second |
|---|---|---|
| COMMIT | concurrency control (`Commit`) | log (`CommitLog`) |
| auto-commit | log (`CommitLog`) | concurrency control (`EndCommitted`) |
| ROLLBACK | concurrency control (`Rollback`) | undo, log (`Undo`, `LogAbort`) |
| an exception | concurrency control (`EndAborted`) | undo, log (`Undo`, `LogAbort`) |

A nested BEGIN and a disconnect lose the session's transaction; `orphans`, a
history variable, keeps those. The only change of rows is an INSERT, which puts
the transaction's name into the table, since UPDATE and DELETE make the same
calls. DDL has its records, the schema saved for a DROP
(`prepare_ddl_operation`) and its undo.

### PageStore, BufferManager and StorageEngine

`BufferManager` has the pool and the files. A page is a sequence of rows; of a
row only what decides its way to the disk and back is kept: how much room it
takes (`RowSize`), whether its first column is stored as zeros, where
`load_page_internal` stops reading (`ZeroRows`), and whether it fits the schema,
without which `serialize_row_to_buffer` throws (`UnwritableRows`). `Sound` rows
come back as they went, `Reloaded` is what comes back of others. Ages are ranks,
since the code compares them only; two accesses may have the same millisecond.

A session in `StorageEngine` runs one statement at a time, one call of the
buffer manager a step: `GetPage` or `NewPage`, then `ScanPage`, `InsertRow` or
`PutRow`, which change the page through the pointer and unpin it. The number of
pages is read once at the start, as in `read_block` and `write_block`; a row
goes to the last page if it fits and to a new one otherwise. When every page is
pinned the call throws (`AllPagesPinned`). CREATE and DROP TABLE go through
`tables.meta`, `tables_temp.meta`, the schema file and the data file in the
order of the code, one file operation a step. `Checkpoint` and `Crash` may come
between any two steps.

`expected` has the rows a table ought to have, in their order; a crash resets it
to what the files hold, since what must be there after a crash is the business
of the log. `spoiled` has the tables that ever had a page that was not sound,
`cut` is set when a crash cuts a DDL statement short. All three are history.

`PageStore` is what remains when pool, files and evictions are hidden:
`contents`, a `stable` copy, and who holds which page. `StorageEngine`
implements it by `contents[k]` = what a session would see at `k`, from the pool
or from the file.

### Relational and Statements

`Relational` says what a statement means in the terms of SQL: products of
tables, selection, joins, projection with sets and functions. `Statements` is
the code's way there: `sql_parser` keeps what the parser keeps (the first
condition of UPDATE and DELETE, say), and one action per stage of
`execute_select` reads the tables one by one, joins them from the left, filters,
sorts, limits and renames; INSERT, UPDATE and DELETE find their rows twice, in
the query processor and in the storage engine, whose comparisons differ.

A value has a type and twice its amount, so that halves are exact. A name or a
text is a pair, because a text with a dot is taken for a qualified name.

Outside of a *plain* part of SQL, defined by `PlainSelect`, `PlainChange` and
the operators they use, the code does not do what the statement means; each
conjunct there names one such departure (several conditions in an UPDATE, a
literal of another type than its column, a column of the same name in both
tables, LIMIT 0, an UPDATE of the key, and so on). Inside it `SelectsAreExact`
and `ChangesAreExact` say that it does. `DeletesCanBeUndone` is claimed for all
statements but for texts with a dot: what a DELETE hands to the recovery manager
is what the storage engine removes.

## 3. Runs

Passing runs:

| Run | Properties | Shows | Bounds |
|---|---|---|---|
| `locking` | `TypeOK`, `LockExclusion`, `LockedRecordsAgree`, `FinishedLeaveNoTrace`, `WaitForGraphAcyclic`, `WaitForEdgesAreWaits`, `LocksHeldToTheEnd`, `NoOvertaking`, `UnfinishedNeverConflict`, `ImplementsScheduler` | the lock manager under any sequence of calls, ill-behaved clients included; it implements the serializable scheduler, and strictly | 3 transactions, 2 records; 220,400 states |
| `lock_clients` | `EdgesAreCurrentWaits`, `VictimsCloseCycles` | with polling threads, each edge is a current wait and each victim closes a real deadlock | 3, 2; all programs of one or two requests |
| `lock_progress` | `EveryThreadCommits`, `EveryThreadFinishes` | three threads with one lock order need no victims and do not starve; two that deadlock both finish | 3, 2; 36,047 states |
| `timestamps` | `TypeOK`, `TimestampsRecordYoungest`, `ConflictsFollowTimestamps`, `ImplementsScheduler`, `RejectionsAreJustified` | timestamp ordering implements the scheduler, in timestamp order, and rejects nobody for nothing | 3, 2; 38,551 states |
| `recovery` | `TypeOK`, `LogIdsIncrease`, `TableIsCommitted`, `DiskIsCurrent`, `LoggedBeforeForced`, `CacheMatchesLog` | rollbacks, checkpoints, evictions, unlogged rows and two crashes leave the committed rows; ids only grow; commits and rollbacks force the log first | 2 transactions, 1 key, 2 values, 2 crashes, 7 log ids, 1 key unrecorded; 2,897,976 states |
| `storage` | `TypeOK`, `TablesAsExpected`, `ReadsAreExact`, `PinsAgree`, `CatalogAgrees`, `ImplementsPageStore` | whatever is evicted, flushed, reloaded and lost, tables keep their rows in order, a SELECT returns what its table holds, pins are exact and the catalog agrees with the files | 2 tables of 2 and 1 pages, 3 sessions, a pool of 2 pages, 3 statements, 1 crash; 193,522 states |
| `statements` | `SelectsAreExact`, `ChangesAreExact`, `DeletesCanBeUndone` | in the plain part of SQL statements do what they mean; a DELETE can be undone | 3 tables, all pairs out of the statements of `MCStatements` |
| `sessions` | `TypeOK`, `ManagersAgree`, `OpenTransactionsAreHeld`, `StatementsExclude`, `RolledBackLeaveNoRow`, `EveryRequestIsAnswered` | the two managers agree about every transaction, every one has an owner, statements on a table exclude each other, rollbacks leave no row and every request is answered | 2 sessions, 2 tables, 2 transactions, 3 records each, both protocols; 310,202 states |

Why the bounds are enough for the cases to happen:

- *Concurrency control.* Three transactions and two records are the least that
  show a queue with two waiters, an upgrade against another reader, and a cycle
  longer than two.
- *Recovery.* Two transactions let one commit force the page while the other is
  still open; seven ids hold a committed transaction and one with two
  changes of a row (undone in the wrong order they leave a different row), and a
  checkpoint besides. A row is found by its key and only one transaction at a
  time has changes, so one key is enough except where one statement changes
  several rows; two values tell the old row from the new. The second crash may
  hit the recovery from the first. `MaxLog` stops new work only: a transaction
  can always log its end, and it counts the ids taken for no record. The two
  values are interchangeable (`SYMMETRY`). One unrecorded key is all there is
  here; with two keys, one crash and five ids the properties hold as well
  (1,250,283 states). The log buffer holds 2 records before it is flushed,
  instead of 49, so that flushes happen both by size and by commit.
- *Storage.* A pool of two pages for three pages of data evicts at every turn,
  and three sessions can pin more pages than there are. A page holds two narrow
  rows or a wide one: an insert finds room, finds none, and an update can make a
  page too large, which spoils it. Three statements are a change, a
  conflicting change and a read; the sessions are interchangeable (`SYMMETRY`).
- *Statements.* The tables have one, two and three rows; ids and courses overlap
  so that joins meet rows with no partner, one and two, and sorting meets equal
  keys. One change followed by one other statement shows what a
  change leaves behind.
- *Sessions.* One session can stand between the two calls that end the other's
  transaction. Three records of a transaction hold BEGIN, a change and one more
  statement; a DROP after another session's INSERT and a CREATE undone behind
  it happen. `Databases` starts with both tables there.

TLC does not look for deadlock where clients may just stop calling.

Runs that exhibit a disagreement between the code and what the repository says
of it (`findings` in `PROJECT.json` quotes both):

| Run | Property violated | What happens |
|---|---|---|
| `same_record_clients` | `EveryThreadFinishes` | a thread that has read a record asks for it again, while another one waits at the head of the record's queue to write it. The first is refused for the head of the queue, the head for the first one's S lock; no edge was drawn for the queue, so no cycle is found. Three threads with crossing programs can meet the same way. |
| `redo_twice` | `PrimaryKeysUnique` | commit, crash, recover: the committed row is there twice |
| `partial_rows` | `CheckpointsFlushAll` | an UPDATE leaves a row that does not fit the schema in a page; serializing it throws, and the checkpoint writes the other pages and leaves this one dirty in the pool. All rows have one size here, so that no page is cut for want of room. |
| `rollback_ddl` | `RollbacksRestoreTables` | BEGIN, DROP TABLE, ROLLBACK: the rollback looks for changes of rows only, and the table stays dropped |

While reading the tests: cases 9, 11 and 12 of `test_concurrency_control.cpp`
describe outcomes of an earlier version of the manager (aborts that now come
out as waits); the models follow the manager's code.

### Fairness

- `ClientSpec` of `LockClients`: weak fairness of each thread's step. A thread
  that holds a transaction loops in `execute_with_retry` until its request is
  answered for good and then ends the transaction, so it keeps taking steps
  unless the operating system suspends it for ever. Beginning a transaction is
  not fair. No fairness is assumed of who wins a race: queues give that.
- `Spec` of `Session`: weak fairness of each session's `Step`, for the same
  reason: a thread that has read a request executes it without waiting for
  anything but mutexes that are held for one call. `Request` is not fair:
  clients may fall silent for ever, also inside a transaction, and the other
  sessions must be answered all the same.
- The other specifications have none; their properties are safety.

## 4. Proofs

All theorems hold for every finite or infinite set of records, tables, keys and
sessions and for every value of the bounds; their only assumptions are the named
ones in the modules (`MaxTransactionsAssumption` and the like), which the runs
evaluate. Three theorems about the rows in `FailureRecovery` have hypotheses, in
their statements and explained below.

`DataLemmas` holds what several proofs need of data. The library's induction
theorems take an operator, which no installed prover can instantiate. They are
used once, for the least element of a set of naturals (`LeastNatural`), and from
that induction is restated for *sets* (`NatInduct`), which is instantiated like
any other lemma. `FoldLeft` and `FoldRight` of the community modules are defined
by CHOOSE over functions on sets of indices; the lemmas show that such a function
exists (`LeftFoldsExist`), that the fold is the end of a trace of steps
(`LeftFoldIs`), and hence its laws: the value on the empty sequence, and on a
sequence with one more element (`LeftFoldLaws`, `RightFoldLaws`). From them
follows by induction what a fold computes for every log.

`TwoPhaseLockingProofs` builds three inductive invariants on `TypeOK`:

- `LockInvariant`: lock lists and lock tables agree, X locks are exclusive, ids
  not handed out yet are unknown, and only active transactions hold locks. This
  gives `LocksExclusive`, `LockedRecordsExact` and `LocksStrict`.
  Agreement is needed for strictness, because `release_all_locks` walks the
  lists, and exclusion for the upgrade.
- `QueueInvariant`: queues hold active transactions, each once. The lemmas on
  `RemoveAt` say which elements a removal leaves and in what order.
  `QueuesAreFair` follows: only the head of a queue, or anybody if there is no
  queue, is granted a lock.
- `GraphInvariant`: every edge is a wait for a lock its target holds, and the
  graph is acyclic. `DetectionSound` is the argument: a new edge that closes no
  cycle through its source closes none at all, since the graph before had none.
  A release or a grant only removes edges. Hence `DeadlocksBroken`,
  `EdgesJustified` and `FinishedGone`.

`LockUseProofs` proves the refinement (`LockingIsSerializable`).
The invariant: each access of an active transaction is covered by a lock it
still holds; whoever precedes another transaction has come to its end; and the
precedence is acyclic. An access by an active transaction adds predecessors that
are all finished (`PredecessorsOver`, from lock exclusion), hence edges into a
transaction that precedes nobody, and the order stays acyclic
(`LastExtendsOrder`), which is the guard of the abstract `Grant`.

Of the polling threads it first shows that their steps are steps of the manager
(`ClientsUseTheManager`), so that what `TwoPhaseLockingProofs` shows of it holds
under them. `EdgesAlwaysCurrent` needs more than `EdgesJustified`: not only that
the target of an edge holds the lock, but that the source still polls for it, by
the very request. The property is inductive
on top of the manager's invariants and one fact about threads: nobody uses the
manager between the two halves of an end, so an active transaction is still
growing. What has to be shown is that each step that changes the holders of a
record, or a thread's request, takes along the edges it makes stale
(`StartKeepsEdges`, `PollAllowedKeepsEdges`, `PollRefusedKeepsEdges`,
`FinishKeepsEdges`). `VictimsAlwaysCloseCycles` follows for
every step: the cycle that `check_cycle` finds consists of edges, which are all
current, and the new one.

`TimestampOrderingProofs` needs less: precedence goes from smaller to larger
timestamps, so every nonempty set of transactions has a last one, the greatest
(`GreatestBelow`). The invariant behind
it is that an object's timestamps are the greatest of its readers and writers.
From it come `TimestampsOrderConflicts`, `FailuresHaveAYoungerRival` and
`TimestampsAreSerializable`; `TimestampsFromThePast`, which is part of `TypeOK`
(`TypeCorrect`), and `TimestampsGrow` are the facts it rests on.

`SessionProofs` shows `ManagersAlwaysAgree`, `OpenTransactionsAreAlwaysHeld` and
`StatementsAlwaysExclude`, under either protocol. The inductive invariant says,
for every place `pc[s]` a session can be at, what both managers know of its
transaction (`Stage`), and that every open transaction is held once or lost
(`Owned`). The first four lemmas say what a call of the concurrency control does
to the status of transactions; the rest of the proof needs no more of it. For
exclusion the sessions' steps are shown to be calls of the lock manager, whose
`LockInvariant` is taken over from `TwoPhaseLockingProofs`: a session at
`access` holds the lock it asked for, because nobody else ends its transaction.

`SessionsTyped` and `RolledBackNeverLeaveRow` rest on a second invariant
(`RowsInv`), about rows and log records. `RestTyped` gives the remaining types.
`RowsLogged` says that every row has an INSERT record among the records of its
transaction, or the session that holds the transaction is about to write one;
that no row is left when a session is about to write the ABORT record; and that
a transaction that has one is held by nobody and has no row. The rollback is a
fold over all records of the transaction: `UndoneTakesRows` shows, by induction
over the records, that it adds no row and takes away each row with an INSERT
record, whatever other records lie between. `LogSteps` and `StorageSteps` say
that a step writes records and rows of its own transaction only, and `IdsGrow`
that no id is given to two transactions; without that, a session could put a row
under an id that was rolled back before.

`FailureRecoveryProofs` shows `LogIdsAlwaysIncrease` and
`CacheAlwaysMatchesLog`, with every mishap switched on and for any number of
lives and crashes: these two do not depend on them. The invariant (`Kept`)
relates the log on both sides of the file to the counter and to the list of
open transactions. An id that `write_log` takes for no record leaves a gap, so
all that can be said of ids is that they grow along the log and stay below
`next_log_id`; that is enough for the constructor to go on without repeating
one (`LastIsTheHighest`). `LastRecordDecides` is the lemma behind the cache: a
record at the end of the log decides about its own transaction only. `CommitsAlone` is needed
because a COMMIT record is written one step before its transaction leaves the
list. Where no process runs, only the file counts (`AtRest`). `TypesAreKept` adds
the rest of the types (`RestTyped`), for which the folds of the recovery must be
known to make tables of tables.

About the rows it shows three theorems, each with its hypotheses in the
statement:

- `AlwaysLoggedBeforeForced`, for any mishaps, lives, crashes and bounds; only
  each WHERE has to stand for one row (`OneKeyEach`), since a statement on many
  rows logs one of them. The invariant (`Tells`) follows every changed row from
  the table to the file: its record is in the log, or its transaction is about
  to write it (`Told`), and it is in the file once the transaction is committing
  or undone (`ToldToFile`). Evictions, and commits of others between a change
  and its record, are steps like any other here.
- `DiskAlwaysCurrent`, if locks are kept to the end, no UPDATE is without WHERE
  and transactions run in the first life of the process (`Orderly`); the other
  mishaps may happen, and a statement may change any number of rows. The
  invariant (`Ownership`) says that one transaction at most has changes, and from
  which point of its end on the file equals the table.
- `TableAlwaysCommitted`, without mishaps, with transactions in one life and
  statements that change one row (`Undisturbed`). The number of keys, values,
  transactions, records, checkpoints, evictions, crashes and recoveries, also
  crashes during a recovery, is not limited. The conditions are those without
  which TLC finds the property violated; `hazards` lists each. An id of an
  earlier life may occur in the log again; a statement on several rows is logged
  as one; a lock released early lets another transaction in; a page may be
  written before its record; a crash inside a checkpoint leaves a checkpoint
  record that names nobody; an exit with a transaction open undoes nobody. Only
  for an UPDATE without WHERE the run goes further than the proof, with the keys
  in `unrecorded` left out.

The argument for the last is about what redo and undo would make of the rows with
one key. Redo is idempotent only in part: it adds a row once more, so what counts
is that it leaves the right row for every table it may meet. For each key the log
is summed up by a *mode* of redo (`keep`, `update`, `insert`, `fixed`) and one of
undo (`same`, `updated`, `deleted`, `free`): which rows the file or the table may
have for the redo to leave the target, and for the undo to leave the committed
rows. `RedoModeOfNext` and `UndoModeOfNext` say how a mode moves on with one more
record, and the laws of the folds carry that to every log. A key is `Clear`
(recovery restores it without undoing), `Curable` (recovery restores it by
undoing the one open writer), `Undoable` (so does a rollback) or `Redoable` (so
does redo once the writer has committed). The invariant of the first life
(`RowsAre`) says which of these hold of which part of the log, the file and the
buffer, at every step of a statement, a commit, a rollback and a checkpoint, for
the rows `N` that the table would have without the change that is made and not
logged yet. `Books` keeps what the log lists: the undo list of a recovery is the
open transactions. After a crash the log and the file are `Restorable`, and one
recovery, or several, give back the committed rows (`RecoveryRestores`).

`StorageEngineProofs` shows `PinsAlwaysAgree` and `PoolIsAPageStore`, the
refinement. Lemmas per call of the buffer manager (`AdmitKeeps`, `GetPagePins`,
`NewPagePins`, `UnpinPageKeeps`, `CheckpointKeeps`, ...) say what becomes of all
pages, and rest on two facts: a page that is clean and sound is on the disk
(`CleanIsOnDisk`), so that evicting it loses nothing, and nothing is behind the
end of a file (`FilesEnd`), so that a new page is empty. Above them the
statements come in four groups: those that take a page, leave one, change none,
and change all pages of a table. That pins are exact is part of the invariant:
only a page nobody uses can be a victim. `ChangesAlone` (the premise of two-phase
locking) and `DropsEmpty` are needed for DROP TABLE, which discards the pages of
a table and later its file: nobody may be using or loading one meanwhile.

Three more invariants stand on that one:

- `TypesHold` (`Typed`): also that a statement takes only the steps of its kind,
  that no page number leaves its table and that the ages of pages are bounded,
  from which the CHOOSE of the clock and of the last page gets its value.
- `TablesAreAsExpected` and `SelectsAreExact` (`Right`): for each table without
  an unsound page, and each statement on it, how far the statement is. While an
  UPDATE or a DELETE goes on, the rows expected are the pages before its cursor
  as they are and the others as its effect on them will be; an INSERT still
  lacks its row, which belongs behind all others; a SELECT has collected what its
  clause picks of the pages before its cursor. Behind the pages counted at the
  start there are no rows. That changing page after page changes the table
  follows from the laws of `FlattenSeq` in `DataLemmas` (`FlattenThrough`,
  `FlattenLonger`, `FlattenPadded`), of which the proof uses that `Matching` and
  `Replaced` go through concatenation (`MatchingDistributes`,
  `ReplacedDistributes`). Evictions, reloads and checkpoints change no sound page
  (`QuietPages`); where a session leaves an unsound page its table is no longer
  spoken of, until the file is removed.
- `CatalogAlwaysAgrees` (`CatalogRight`): only one statement of DDL is under way,
  and `Listed` says for each of its steps what tables.meta and tables_temp.meta
  hold. A table without a schema is `Gone`, with an empty file and no page in the
  pool, but for the step between the removal of its schema and of its file. Pages
  enter the pool only for tables with a schema, and a flush lengthens only files
  of pages in the pool (`FlushLeavesGone`), so what is gone stays gone.

The assumption `StorageAssumption` on `Rows` and `Clauses` is that there is a row
and that a clause is a set of rows.

`StatementsProofs` shows `ChangesAlwaysExact`, `DeletesAlwaysUndoable` and
`SelectsAlwaysExact`: the code's way through a plain statement ends where
`Relational` says, for every schema, every content of the tables and every
statement, with any number of tables, joins, conditions and columns. The
assumptions are that schemas are well formed (columns of different names, a type
for each, a key among them: `SchemasAssumption`), that the tables to begin with
fit them and repeat no key (`InitialTablesAssumption`), and that statements have
the form the parser gives them (`WrittenAssumption`).

The inductive invariant of the changes is `Consistent`: while every change was a
plain one the tables are the ideal ones, each row has its schema's types and no
key comes twice, and `pq` is what the parser makes of `sql`. That keys are
unique is not a detail: `UpdatedByKey` looks each row up by its key in the table
the rows before have left, and would change a row twice if two had one key
(`UpdateIsExact` keeps, over the rows gone through so far, which are changed and
that no key moved). The rows the query processor finds, the rows the storage
engine finds and the rows meant are the same because of the types
(`EvaluatedIsMet`, `HitIsHeld`); for a DELETE outside of the plain part as well,
as soon as the storage engine finds a row at all (`SameRowsFound`), from which
`DeletesAlwaysUndoable` follows by counting the occurrences of a row in the two
parts of a table (`OccurrencesAdd`).

For a SELECT the notion that carries the proof is that rows *list* combinations
(`Lists`): there is an enumeration, each combination once, such that row `x`
*shows* combination `f[x]` (`Shows`), that is, has for every column of every
source joined so far the cell of that source under the name the column goes by
at this point. `Partial` are the combinations of the first sources that meet the
joins so far. The invariant (`SelectsProgress`) says what each stage has:

| Stage | What has been shown of the rows by then |
|---|---|
| `read` | the tables read so far are read as they are, columns left out of the SELECT list dropped (`RowsReadAre`) |
| `where` | the joined rows list the combinations of all sources that meet the joins (`JoinsList`) |
| `order` | the rows list the chosen combinations (`FilterLists`) |
| `limit` | they do so in the order asked for (`OrderedLists`) |
| `done` | the rows are an answer (`AnswersInOrder`) |

Each kind of join has a lemma that it takes a list of the combinations of the
sources so far to one with the next source (`CartesianLists`, `NaturalLists`,
`JoinOnLists`). What is hard is names, not rows: the columns of one row
carry different kinds of names, so `FoundIs` has to show that a plain name finds
a column, and that all columns it could find hold the one value that is meant,
which a natural join has made equal. The code evaluates conditions from the left
and SQL takes AND first; that the two agree when no AND comes after an OR is an
induction over the conditions (`SelectedIsSatisfied`).

The proofs also settle how far the plain part reaches. `PlainSelect` and
`PlainChange` exclude, besides what the statements of `MCStatements` try, what
no bounded set of statements would have suggested: two items of a SELECT list
under one label (one column is lost), a column that differs in type between the
tables of a natural join (whole numbers and amounts are compared truncated), an
alias that is also the name of a table in use or stands for two sources, an
operand of another kind than its column, and an INSERT that lists a column
twice.

Model-checked only: liveness (`EveryThreadCommits`, `EveryThreadFinishes`,
`EveryRequestIsAnswered`) and anything with ENABLED, which the prover does not
handle. Every other property of a passing run is a theorem; the refinements are
proved as step simulations, and the runs check them on small instances too.

## 5. Not modelled

- The hash and B+ tree indexes: no SQL statement creates or uses one. Only tests
  call `set_index`, the index path of `read_block` has no caller, and
  `build_bptree_index` never writes its nodes to the file its search reads. The
  calls by which the storage engine keeps an index current are left out with
  them.
- The optimizer: its plan is not executed; the query processor works from the
  parsed clauses. So are the statistics the storage engine collects for it.
- How the parser cuts text into clauses, CREATE and DROP TABLE as text, sockets,
  the terminal and the formatting of results: no property is about them.
- `switch_algorithm` while clients run, which destroys the manager they are in;
  nothing but tests calls it. `abort_transaction_old`, which nothing calls.
- Foreign keys: the parser reads them and nothing checks them
  (`src/scripts/test_recovery_auto_abort.sql:9` to 14 expects otherwise), so
  there is nothing to model.
- Recovery: redo of CREATE and DROP TABLE, a log file that cannot be opened,
  torn records, tables of several pages or without a primary key, UPDATEs that
  change the key but for the one without WHERE, and expressions. In `Session`,
  the flush of a full log buffer and the periodic checkpoint, which `FailureRecovery` has.
- Data races inside a call of the buffer manager, whose pool has no lock, and
  two DDL statements on one `tables_temp.meta` at once: calls are steps, and
  `StorageEngine` runs one DDL statement at a time. Both are listed under
  `hazards`.

## 6. Plan

Done: both protocols with their contract, clients and proofs; recovery; the
sessions; buffer pool and storage engine with their contract; the statements;
proofs about both protocols and their clients, the sessions, recovery, the
storage engine with its pool, and the statements. What could follow:

1. Concurrent DDL statements on `tables.meta` and `tables_temp.meta`, with the
   file operations of two sessions interleaved.
2. Several tables in `FailureRecovery`, and redo of DDL records against tables
   that exist.
3. The storage engine under timestamp ordering, where writers of one table meet:
   which rows are lost, and which pages stay pinned.
4. The indexes, once a statement uses them.
