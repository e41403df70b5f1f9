--------------------------- MODULE StorageEngine ---------------------------
(***************************************************************************)
(* Tables in files of pages, read and written through the buffer pool by   *)
(* sessions that run one statement each at a time, and the list of tables  *)
(* in tables.meta.  The sessions interleave between calls of the buffer    *)
(* manager.  A WHERE clause is the set of rows that satisfy it.            *)
(*                                                                         *)
(* Statements on one table exclude each other: one writer or several       *)
(* readers.  Under two-phase locking the sessions see to that, except for  *)
(* what a rollback takes back (StatementsExclude of Session); under        *)
(* timestamp ordering nobody does.                                         *)
(***************************************************************************)
EXTENDS BufferManager

CONSTANTS
    Sessions,       \* the threads of the server
    InitialPages,   \* the pages each table has on disk at the start
    Clauses,        \* the WHERE clauses in use
    MaxStatements,  \* bound: statements begun in a behaviour
    MaxCrashes      \* bound: crashes

VARIABLES
    op,             \* op[s]: the statement of session s
    tables_meta,    \* what the file tables.meta holds
    schemas,        \* tables with a .schema file
    expected,       \* history: the rows table t ought to have
    spoiled,        \* history: tables that ever had a page that is not Sound
    cut,            \* history: a crash has cut a DDL statement short
    statements, crashes

catalogVars == <<tables_meta, schemas>>
historyVars == <<expected, spoiled, cut>>
boundVars == <<statements, crashes>>
vars == <<bufferVars, op, catalogVars, historyVars, boundVars>>

ASSUME StorageAssumption ==
    /\ InitialPages \in [Tables -> Seq(Seq(Rows))]
    /\ \A t \in Tables : Len(InitialPages[t]) <= MaxPages
    /\ \A t \in Tables : \A i \in DOMAIN InitialPages[t] : Sound(InitialPages[t][i])
    /\ Rows # {} /\ Clauses \subseteq SUBSET Rows
    /\ MaxStatements \in Nat /\ MaxCrashes \in Nat

(* at is the next call the statement makes, page the page it is about, and *)
(* result what it has collected: rows for a SELECT, names of tables for    *)
(* tables_temp.meta in DDL.                                                *)
Kinds == {"select", "insert", "update", "delete", "create", "drop"}
Steps == {"get", "use", "new", "put", "done",
          "schema", "data", "remove", "rename", "add"}

Idle == [at |-> "idle"]

Statement ==
    [at : Steps, kind : Kinds, table : Tables, where : SUBSET Rows, new : Rows,
     page : -1..MaxPages - 1, pages : 0..MaxPages, rows : Seq(Rows),
     names : SUBSET Tables]

Active == {s \in Sessions : op[s] # Idle}
On(t) == {s \in Active : op[s].table = t}
DDL == {s \in Active : op[s].kind \in {"create", "drop"}}
Writing(t) == \E s \in On(t) : op[s].kind # "select"
At(s, step) == op[s] # Idle /\ op[s].at = step
Key(s) == <<op[s].table, op[s].page>>
Using(s) == At(s, "use") \/ At(s, "put")

(* The rows of a table, page after page.                                   *)
Actual(t) == FlattenSeq([i \in 1..MaxPages |-> View(<<t, i - 1>>)])

Matching(rows, where) ==
    FoldLeft(LAMBDA kept, r : IF r \in where THEN Append(kept, r) ELSE kept, <<>>, rows)
Without(rows, where) == Matching(rows, Rows \ where)
Replaced(rows, where, new) == [i \in DOMAIN rows |-> IF rows[i] \in where THEN new ELSE rows[i]]

-----------------------------------------------------------------------------

TypeOK ==
    /\ BufferTypeOK
    /\ op \in [Sessions -> Statement \cup {Idle}]
    /\ tables_meta \in [exists : BOOLEAN, names : SUBSET Tables]
    /\ schemas \subseteq Tables
    /\ expected \in [Tables -> Seq(Rows)]
    /\ spoiled \subseteq Tables
    /\ cut \in BOOLEAN
    /\ statements \in 0..MaxStatements /\ crashes \in 0..MaxCrashes

InitialContents ==
    [k \in Addresses |->
        IF k[2] < Len(InitialPages[k[1]]) THEN InitialPages[k[1]][k[2] + 1] ELSE <<>>]

(* A database left by a clean shutdown, with an empty pool.                *)
Init ==
    /\ buffer_pool = [k \in Addresses |-> NotLoaded]
    /\ disk = InitialContents
    /\ file_pages = [t \in Tables |-> Len(InitialPages[t])]
    /\ op = [s \in Sessions |-> Idle]
    /\ schemas = {t \in Tables : InitialPages[t] # <<>>}
    /\ tables_meta = [exists |-> TRUE, names |-> schemas]
    /\ expected = [t \in Tables |-> FlattenSeq(InitialPages[t])]
    /\ spoiled = {} /\ cut = FALSE
    /\ statements = 0 /\ crashes = 0

-----------------------------------------------------------------------------
(* Statements on rows.                                                     *)

Started(s, kind, t, where, new, at, page) ==
    /\ op' = [op EXCEPT ![s] =
          [at |-> at, kind |-> kind, table |-> t, where |-> where, new |-> new,
           page |-> page, pages |-> get_max_page_id(t) + 1, rows |-> <<>>, names |-> {}]]
    /\ statements' = statements + 1

(* A statement may begin.  Without a schema file it returns at once.       *)
Ready(s, t) ==
    /\ op[s] = Idle /\ statements < MaxStatements
    /\ t \in schemas /\ ~Writing(t)

AnyRow == CHOOSE r \in Rows : TRUE

(* read_block without an index, and the scans of write_block for UPDATE    *)
(* and of delete_block: the number of pages is fixed at the start.         *)
Scan(s, kind, t, where, new) ==
    /\ Started(s, kind, t, where, new, IF get_max_page_id(t) = -1 THEN "done" ELSE "get", 0)
    /\ UNCHANGED <<bufferVars, catalogVars, spoiled, cut, crashes>>

full_scan(s, t, where) ==
    /\ Ready(s, t)
    /\ Scan(s, "select", t, where, AnyRow)
    /\ UNCHANGED expected

write_block_update(s, t, where, new) ==
    /\ Ready(s, t) /\ On(t) = {}
    /\ Scan(s, "update", t, where, new)
    /\ expected' = [expected EXCEPT ![t] = Replaced(@, where, new)]

delete_block(s, t, where) ==
    /\ Ready(s, t) /\ On(t) = {}
    /\ Scan(s, "delete", t, where, AnyRow)
    /\ expected' = [expected EXCEPT ![t] = Without(@, where)]

(* write_block without conditions: the row goes to the last page.          *)
write_block_insert(s, t, row) ==
    /\ Ready(s, t) /\ On(t) = {}
    /\ LET last == get_max_page_id(t)
       IN  /\ last = MaxPages - 1 =>
                Bytes(View(<<t, last>>)) + RowSize[row] <= PageSize  \* bound on the pages
           /\ Started(s, "insert", t, {}, row, IF last = -1 THEN "new" ELSE "get", last)
    /\ expected' = [expected EXCEPT ![t] = Append(@, row)]
    /\ UNCHANGED <<bufferVars, catalogVars, spoiled, cut, crashes>>

GetPage(s) ==
    /\ At(s, "get") /\ get_page(Key(s))
    /\ op' = [op EXCEPT ![s].at = "use"]
    /\ UNCHANGED <<catalogVars, historyVars, boundVars>>

(* All pages are pinned: the statement ends in an exception, with its      *)
(* changes so far in place.                                                *)
AllPagesPinned(s) ==
    /\ At(s, "get") \/ At(s, "new")
    /\ (At(s, "get") => Key(s) \notin Resident) /\ ~HasRoom
    /\ op' = [op EXCEPT ![s] = Idle]
    /\ expected' = IF op[s].kind = "select" THEN expected
                   ELSE [expected EXCEPT ![op[s].table] = Actual(op[s].table)]
    /\ UNCHANGED <<bufferVars, catalogVars, spoiled, cut, boundVars>>

(* The page in use gets rows and is unpinned.                              *)
Leave(s, rows, mark_dirty) ==
    /\ unpin_page(Key(s), rows, mark_dirty)
    /\ spoiled' = IF Sound(rows) THEN spoiled ELSE spoiled \cup {op[s].table}
    /\ UNCHANGED <<catalogVars, expected, cut, boundVars>>

(* One page of a scan, then the next one.                                  *)
ScanPage(s) ==
    LET o == op[s]
        old == buffer_pool[Key(s)].rows
        hit == Matching(old, o.where)
    IN  /\ At(s, "use") /\ o.kind # "insert"
        /\ IF o.kind = "select" \/ hit = <<>> THEN Leave(s, old, FALSE)
           ELSE Leave(s, IF o.kind = "update" THEN Replaced(old, o.where, o.new)
                         ELSE Without(old, o.where), TRUE)
        /\ op' = [op EXCEPT
              ![s].page = IF o.page + 1 < o.pages THEN o.page + 1 ELSE o.page,
              ![s].at = IF o.page + 1 < o.pages THEN "get" ELSE "done",
              ![s].rows = IF o.kind = "select" THEN @ \o hit ELSE @]

(* The row goes into the last page if it fits.                             *)
InsertRow(s) ==
    LET o == op[s]
        old == buffer_pool[Key(s)].rows
        fits == Bytes(old) + RowSize[o.new] <= PageSize
    IN  /\ At(s, "use") /\ o.kind = "insert"
        /\ IF fits THEN Leave(s, Append(old, o.new), TRUE) ELSE Leave(s, old, FALSE)
        /\ op' = [op EXCEPT ![s].at = IF fits THEN "done" ELSE "new"]

NewPage(s) ==
    LET k == <<op[s].table, get_max_page_id(op[s].table) + 1>>
    IN  /\ At(s, "new") /\ k[2] < MaxPages    \* bound on the pages, as above
        /\ new_page(k)
        /\ op' = [op EXCEPT ![s].at = "put", ![s].page = k[2]]
        /\ UNCHANGED <<catalogVars, historyVars, boundVars>>

PutRow(s) ==
    /\ At(s, "put")
    /\ Leave(s, Append(buffer_pool[Key(s)].rows, op[s].new), TRUE)
    /\ op' = [op EXCEPT ![s].at = "done"]

Return(s) ==
    /\ At(s, "done")
    /\ op' = [op EXCEPT ![s] = Idle]
    /\ UNCHANGED <<bufferVars, catalogVars, historyVars, boundVars>>

-----------------------------------------------------------------------------
(* Statements on tables.                                                   *)

DDLStarted(s, kind, t, at, names) ==
    /\ op' = [op EXCEPT ![s] =
          [at |-> at, kind |-> kind, table |-> t, where |-> {}, new |-> AnyRow,
           page |-> 0, pages |-> 0, rows |-> <<>>, names |-> names]]
    /\ statements' = statements + 1

Proceed(s, step) == op' = [op EXCEPT ![s].at = step]

(* check_and_update_tables_metadata: a first table is written in place, a  *)
(* further one by way of tables_temp.meta.  A name that is listed is       *)
(* refused, which changes nothing.                                         *)
create_table(s, t) ==
    /\ op[s] = Idle /\ statements < MaxStatements
    /\ DDL = {} /\ On(t) = {}
    /\ ~tables_meta.exists \/ t \notin tables_meta.names
    /\ IF tables_meta.exists /\ tables_meta.names # {}
       THEN /\ DDLStarted(s, "create", t, "remove", tables_meta.names \cup {t})
            /\ UNCHANGED tables_meta
       ELSE /\ DDLStarted(s, "create", t, "add", {})
            /\ tables_meta' = [exists |-> TRUE, names |-> {t}]
    /\ UNCHANGED <<bufferVars, schemas, historyVars, crashes>>

(* drop_table: the pages leave the pool.  Without a list, or with an empty *)
(* one, that is all: delete_table throws.                                  *)
drop_table(s, t) ==
    /\ op[s] = Idle /\ statements < MaxStatements
    /\ DDL = {} /\ On(t) = {} /\ t \in schemas
    /\ evict_table_without_flush(t)
    /\ IF tables_meta.exists /\ tables_meta.names # {}
       THEN DDLStarted(s, "drop", t, "schema", tables_meta.names \ {t})
       ELSE DDLStarted(s, "drop", t, "done", {})
    /\ expected' = [expected EXCEPT ![t] =
                       FlattenSeq([i \in 1..MaxPages |-> disk[<<t, i - 1>>]])]
    /\ UNCHANGED <<catalogVars, spoiled, cut, crashes>>

RemoveSchema(s) ==
    /\ At(s, "schema") /\ schemas' = schemas \ {op[s].table}
    /\ Proceed(s, "data")
    /\ UNCHANGED <<bufferVars, tables_meta, historyVars, boundVars>>

RemoveData(s) ==
    /\ At(s, "data") /\ RemoveFile(op[s].table)
    /\ expected' = [expected EXCEPT ![op[s].table] = <<>>]
    /\ spoiled' = spoiled \ {op[s].table}
    /\ Proceed(s, "remove")
    /\ UNCHANGED <<catalogVars, cut, boundVars>>

RemoveMeta(s) ==
    /\ At(s, "remove") /\ tables_meta' = [exists |-> FALSE, names |-> {}]
    /\ Proceed(s, "rename")
    /\ UNCHANGED <<bufferVars, schemas, historyVars, boundVars>>

RenameMeta(s) ==
    /\ At(s, "rename") /\ tables_meta' = [exists |-> TRUE, names |-> op[s].names]
    /\ Proceed(s, IF op[s].kind = "create" THEN "add" ELSE "done")
    /\ UNCHANGED <<bufferVars, schemas, historyVars, boundVars>>

AddSchema(s) ==
    /\ At(s, "add") /\ schemas' = schemas \cup {op[s].table}
    /\ Proceed(s, "done")
    /\ UNCHANGED <<bufferVars, tables_meta, historyVars, boundVars>>

-----------------------------------------------------------------------------

(* The checkpoint of a commit or a rollback, or of the destructor.         *)
Checkpoint ==
    /\ checkpoint
    /\ UNCHANGED <<op, catalogVars, historyVars, boundVars>>

(* The process dies: the pool and the statements are gone.                 *)
Crash ==
    /\ crashes < MaxCrashes /\ crashes' = crashes + 1
    /\ LosePool
    /\ op' = [s \in Sessions |-> Idle]
    /\ expected' = [t \in Tables |-> FlattenSeq([i \in 1..MaxPages |-> disk[<<t, i - 1>>]])]
    /\ cut' = (cut \/ DDL # {})
    /\ UNCHANGED <<catalogVars, spoiled, statements>>

Begin(s, t) ==
    \/ \E where \in Clauses :
          \/ full_scan(s, t, where)
          \/ delete_block(s, t, where)
          \/ \E new \in Rows : write_block_update(s, t, where, new)
    \/ \E row \in Rows : write_block_insert(s, t, row)
    \/ create_table(s, t)
    \/ drop_table(s, t)

Continue(s) ==
    \/ GetPage(s) \/ AllPagesPinned(s) \/ ScanPage(s) \/ InsertRow(s)
    \/ NewPage(s) \/ PutRow(s) \/ Return(s)
    \/ RemoveSchema(s) \/ RemoveData(s) \/ RemoveMeta(s) \/ RenameMeta(s) \/ AddSchema(s)

Next ==
    \/ \E s \in Sessions : Continue(s) \/ \E t \in Tables : Begin(s, t)
    \/ Checkpoint
    \/ Crash

Spec == Init /\ [][Next]_vars

-----------------------------------------------------------------------------

(* The header says of a checkpoint that it flushes all dirty pages to the  *)
(* disk.                                                                   *)
CheckpointsFlushAll ==
    [][Checkpoint => \A k \in Resident : disk'[k] = buffer_pool[k].rows]_vars

(* Whatever is evicted, flushed or rolled in again, a table no writer is   *)
(* at has the rows its statements left in it, in their order, unless a     *)
(* page of it ever held what the disk cannot give back.                    *)
TablesAsExpected ==
    \A t \in Tables \ spoiled : Writing(t) \/ Actual(t) = expected[t]

(* A SELECT returns the rows of its table that satisfy the clause, though  *)
(* the pages it has read may have been evicted and reloaded by others.     *)
ReadsAreExact ==
    \A s \in Active :
        op[s].kind = "select" /\ op[s].at = "done" /\ op[s].table \notin spoiled =>
            op[s].rows = Matching(expected[op[s].table], op[s].where)

Users(k) == {s \in Sessions : Using(s) /\ Key(s) = k}

(* A page is pinned once by every session that has a pointer to it: no     *)
(* pin is lost, which would let the page go under the pointer, and none    *)
(* is left behind, which would keep it in the pool for good.               *)
PinsAgree ==
    \A k \in Addresses :
        IF k \in Resident THEN buffer_pool[k].pin_count = Cardinality(Users(k))
        ELSE Users(k) = {}

(* tables.meta lists the tables that have a schema, and a name without one *)
(* has no rows left anywhere, unless a crash cut a DDL statement short.    *)
CatalogAgrees ==
    ~cut =>
        /\ DDL = {} => tables_meta.names = schemas
        /\ \A t \in Tables \ schemas :
              On(t) = {} => Actual(t) = <<>> /\ get_max_page_id(t) = -1

(* Seen from above, the buffer pool is a page store: pages change only in  *)
(* the hands of a session, and what a checkpoint finds is on the disk.     *)
Store == INSTANCE PageStore WITH
    PageIds <- 0..MaxPages - 1,
    SoundPages <- {rows \in Seq(Rows) : Sound(rows)},
    Initially <- InitialContents,
    contents <- [k \in Addresses |-> View(k)],
    stable <- disk,
    holder <- [s \in Sessions |-> IF Using(s) THEN Key(s) ELSE <<>>]

ImplementsPageStore == Store!Spec

=============================================================================
