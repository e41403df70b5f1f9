--------------------------- MODULE BufferManager ---------------------------
(***************************************************************************)
(* The buffer pool: pages of table files kept in memory, pinned while a    *)
(* session works on them, evicted when another page needs the room.        *)
(* This module has the state and the operations; StorageEngine calls them. *)
(*                                                                         *)
(* A row is an element of Rows.  What matters of it is how much room it    *)
(* takes, whether its first column is stored as zeros, which the routine   *)
(* that loads a page takes for the padding behind the last row, and        *)
(* whether a column is missing or has a value of another type, which the   *)
(* routine that writes the page refuses.                                   *)
(***************************************************************************)
EXTENDS Integers, Sequences, SequencesExt, FiniteSets

CONSTANTS
    Tables,     \* names of tables
    Rows,       \* values of rows
    RowSize,    \* RowSize[r]: the bytes row r takes
    ZeroRows,   \* rows whose first column is 0 or the empty string
    UnwritableRows, \* rows that do not fit the columns of the schema
    PageSize,   \* PAGE_SIZE
    Capacity,   \* capacity_, the most pages in the pool
    MaxPages    \* bound: the most pages of a table

ASSUME BufferAssumption ==
    /\ PageSize \in Nat /\ Capacity \in Nat \ {0} /\ MaxPages \in Nat \ {0}
    /\ RowSize \in [Rows -> Nat \ {0}]
    /\ ZeroRows \subseteq Rows /\ UnwritableRows \subseteq Rows

VARIABLES
    buffer_pool,    \* buffer_pool[k]: the page at address k, or NotLoaded
    disk,           \* disk[k]: the rows written at k in the table's file
    file_pages      \* file_pages[t]: the length in pages of t's file

bufferVars == <<buffer_pool, disk, file_pages>>

Addresses == Tables \X (0..MaxPages - 1)
PagesOf(t) == {t} \X (0..MaxPages - 1)

(* last_access_time holds ranks: the clock's values are only compared.     *)
BufferPage ==
    [rows : Seq(Rows), is_dirty : BOOLEAN, pin_count : Nat, last_access_time : Nat]

NotLoaded == [rows |-> <<>>, is_dirty |-> FALSE, pin_count |-> -1, last_access_time |-> 0]

BufferTypeOK ==
    /\ buffer_pool \in [Addresses -> BufferPage \cup {NotLoaded}]
    /\ disk \in [Addresses -> Seq(Rows)]
    /\ file_pages \in [Tables -> 0..MaxPages]

-----------------------------------------------------------------------------
(* What a page turns into on its way to the disk and back.                 *)

Bytes(rows) == FoldLeft(LAMBDA n, r : n + RowSize[r], 0, rows)

(* serialize_row_to_buffer throws on a row that does not fit the schema:   *)
(* nothing of the page is written then.                                    *)
Writable(rows) == \A i \in DOMAIN rows : rows[i] \notin UnwritableRows

(* flush_page_internal cuts the page at PAGE_SIZE, and load_page_internal  *)
(* stops at a row cut in two and at one that starts with zeros.            *)
ReadBack(rows, i) ==
    /\ Bytes(SubSeq(rows, 1, i)) <= PageSize
    /\ \A j \in 1..i : rows[j] \notin ZeroRows

(* Rows that come back from the disk as they went there.                   *)
Sound(rows) == Writable(rows) /\ ReadBack(rows, Len(rows))

Reloaded(rows) ==
    IF Sound(rows) THEN rows
    ELSE SubSeq(rows, 1, Cardinality({i \in DOMAIN rows : ReadBack(rows, i)}))

-----------------------------------------------------------------------------
(* The pool.                                                               *)

Resident == {k \in Addresses : buffer_pool[k].pin_count >= 0}

(* The rows a session sees at k, from the pool or, once loaded, the file.  *)
View(k) == IF buffer_pool[k].pin_count >= 0 THEN buffer_pool[k].rows ELSE disk[k]

(* Fault: only the file is looked at.                                      *)
PagesOnDiskOnly(t) == file_pages[t] - 1

(* Fault: the number of pages, not of the last one.                        *)
CountOfPages(t) == Max({k[2] : k \in Resident \cap PagesOf(t)} \cup {file_pages[t]})

get_max_page_id(t) ==
    LET cached == {k[2] : k \in Resident \cap PagesOf(t)}
    IN  Max(cached \cup {file_pages[t] - 1})

(* The ages of the pages: only their order is kept.                        *)
Ranked(pool) ==
    LET times == {pool[k].last_access_time : k \in Addresses} \ {0}
    IN  [k \in Addresses |-> [pool[k] EXCEPT
            !.last_access_time = Cardinality({x \in times : x <= pool[k].last_access_time})]]

(* The millisecond clock may not have moved since the last access.         *)
Now == LET last == Max({buffer_pool[k].last_access_time : k \in Addresses})
       IN  {last + 1} \cup ({last} \ {0})

(* Fault: pins are ignored.                                                *)
OldestPages == {k \in Resident : \A j \in Resident :
                   buffer_pool[k].last_access_time <= buffer_pool[j].last_access_time}

(* evict_page: the unpinned page accessed longest ago.  Equal times are    *)
(* decided by the order of the map; here any of them may go.               *)
Victims ==
    LET unpinned == {k \in Resident : buffer_pool[k].pin_count = 0}
    IN  {k \in unpinned : \A j \in unpinned :
            buffer_pool[k].last_access_time <= buffer_pool[j].last_access_time}

Dirty == {k \in Resident : buffer_pool[k].is_dirty}

(* flush_page_internal for the pages of a set that it can write; files     *)
(* grow to hold them.  The callers catch what it throws for the others.    *)
Flushed(pages) == {k \in pages \cap Dirty : Writable(buffer_pool[k].rows)}

Flush(pages) ==
    /\ disk' = [k \in Addresses |->
                  IF k \in Flushed(pages) THEN Reloaded(buffer_pool[k].rows) ELSE disk[k]]
    /\ file_pages' = [t \in Tables |->
                  Max({file_pages[t]} \cup {k[2] + 1 : k \in Flushed(pages) \cap PagesOf(t)})]

(* Fault: the victim goes without being written.                           *)
AdmitUnsaved(k, page) ==
    /\ buffer_pool' \in {Ranked([buffer_pool EXCEPT ![v] = NotLoaded, ![k] = page]) :
            v \in IF Cardinality(Resident) < Capacity THEN {k} ELSE Victims}
    /\ UNCHANGED <<disk, file_pages>>

(* Page k enters the pool as page.  A full pool first evicts a victim,     *)
(* whether or not it could be written.                                     *)
Admit(k, page) ==
    \/ /\ Cardinality(Resident) < Capacity
       /\ buffer_pool' = Ranked([buffer_pool EXCEPT ![k] = page])
       /\ UNCHANGED <<disk, file_pages>>
    \/ /\ Cardinality(Resident) >= Capacity
       /\ \E v \in Victims :
            /\ Flush({v})
            /\ buffer_pool' = Ranked([buffer_pool EXCEPT ![v] = NotLoaded, ![k] = page])

(* Without a victim the code throws.                                       *)
HasRoom == Cardinality(Resident) < Capacity \/ Victims # {}

get_page(k) ==
    \E now \in Now :
        IF k \in Resident
        THEN /\ buffer_pool' = Ranked([buffer_pool EXCEPT
                                   ![k].pin_count = @ + 1, ![k].last_access_time = now])
             /\ UNCHANGED <<disk, file_pages>>
        ELSE Admit(k, [rows |-> disk[k], is_dirty |-> FALSE, pin_count |-> 1,
                       last_access_time |-> now])

new_page(k) ==
    \E now \in Now :
        Admit(k, [rows |-> <<>>, is_dirty |-> TRUE, pin_count |-> 1,
                  last_access_time |-> now])

(* The caller changes the rows through its pointer, then unpins the page.  *)
unpin_page(k, rows, mark_dirty) ==
    /\ buffer_pool' = [buffer_pool EXCEPT ![k].rows = rows,
                          ![k].pin_count = IF @ > 0 THEN @ - 1 ELSE @,
                          ![k].is_dirty = @ \/ mark_dirty]
    /\ UNCHANGED <<disk, file_pages>>

(* checkpoint and flush_all: pages that cannot be written stay dirty.      *)
checkpoint ==
    /\ Flush(Dirty)
    /\ buffer_pool' = [k \in Addresses |->
          [buffer_pool[k] EXCEPT !.is_dirty = @ /\ k \notin Flushed(Dirty)]]

(* Fault: the pages stay.                                                  *)
KeepPages(t) == UNCHANGED bufferVars

evict_table_without_flush(t) ==
    /\ buffer_pool' = Ranked([k \in Addresses |->
          IF k[1] = t THEN NotLoaded ELSE buffer_pool[k]])
    /\ UNCHANGED <<disk, file_pages>>

(* delete_table removes the file.                                          *)
RemoveFile(t) ==
    /\ disk' = [k \in Addresses |-> IF k[1] = t THEN <<>> ELSE disk[k]]
    /\ file_pages' = [file_pages EXCEPT ![t] = 0]
    /\ UNCHANGED buffer_pool

(* The process dies: what the pool holds is gone.                          *)
LosePool ==
    /\ buffer_pool' = [k \in Addresses |-> NotLoaded]
    /\ UNCHANGED <<disk, file_pages>>

=============================================================================
