------------------------- MODULE StorageEngineProofs -------------------------
(***************************************************************************)
(* Proofs about the tables in their files, the buffer pool and the list of *)
(* tables, under the statements of any number of sessions: the pins are    *)
(* exact, the pool implements the page store, the types hold, tables and   *)
(* reads are exact, and the list agrees with the schemas.  Nothing is      *)
(* assumed of the tables, rows, sizes, clauses and capacity but what the   *)
(* modules assume.                                                         *)
(*                                                                         *)
(* Inv is what the pins and the page store need.  Typed adds the types,    *)
(* Right relates the pages of each table to the rows it ought to have and  *)
(* to how far the statements on it are, and CatalogRight the list and the  *)
(* schemas to how far the one statement of DDL is.                         *)
(***************************************************************************)
EXTENDS StorageEngine, DataLemmas, FiniteSetTheorems

-----------------------------------------------------------------------------
(* The pool.                                                               *)

IsPage(p) ==
    /\ p = [rows |-> p.rows, is_dirty |-> p.is_dirty, pin_count |-> p.pin_count,
            last_access_time |-> p.last_access_time]
    /\ p.is_dirty \in BOOLEAN
    /\ p.pin_count \in Int /\ p.pin_count >= -1

IsPool(pool) ==
    /\ pool = [k \in Addresses |-> pool[k]]
    /\ \A k \in Addresses : IsPage(pool[k])

(* The same page, but for its age.                                         *)
Alike(p, q) == p.rows = q.rows /\ p.is_dirty = q.is_dirty /\ p.pin_count = q.pin_count

PoolTyped ==
    /\ IsPool(buffer_pool)
    /\ disk = [k \in Addresses |-> disk[k]]
    /\ file_pages \in [Tables -> 0..MaxPages]

(* A page that is not loaded has the shape of a page.                      *)
LEMMA NotLoadedIsPage == IsPage(NotLoaded) /\ NotLoaded.pin_count = -1
BY DEF IsPage, NotLoaded

(* Ranking the ages changes nothing else of a page.                        *)
LEMMA RankedKeeps ==
    ASSUME NEW pool, IsPool(pool)
    PROVE  /\ IsPool(Ranked(pool))
           /\ \A k \in Addresses : Alike(Ranked(pool)[k], pool[k])
<1> DEFINE times == {pool[k].last_access_time : k \in Addresses} \ {0}
           rank(k) == Cardinality({x \in times : x <= pool[k].last_access_time})
<1> HIDE DEF times, rank
<1>1. Ranked(pool) = [k \in Addresses |-> [pool[k] EXCEPT !.last_access_time = rank(k)]]
    BY DEF Ranked, times, rank
<1>2. ASSUME NEW k \in Addresses
      PROVE  IsPage(Ranked(pool)[k]) /\ Alike(Ranked(pool)[k], pool[k])
    <2>1. IsPage(pool[k])
        BY DEF IsPool
    <2>2. Ranked(pool)[k] =
            [rows |-> pool[k].rows, is_dirty |-> pool[k].is_dirty,
             pin_count |-> pool[k].pin_count, last_access_time |-> rank(k)]
        BY <1>1, <2>1 DEF IsPage
    <2> QED
        BY <2>1, <2>2 DEF IsPage, Alike
<1>3. Ranked(pool) = [k \in Addresses |-> Ranked(pool)[k]]
    BY <1>1
<1> QED
    BY <1>2, <1>3 DEF IsPool

(* The greatest of a bounded set of integers.                              *)
LEMMA MaxIsGreatest ==
    ASSUME NEW N \in Nat, NEW S \in SUBSET (-1..N), S # {}
    PROVE  Max(S) \in S /\ \A x \in S : x <= Max(S)
<1> DEFINE T == {x + 1 : x \in S}
<1>1. T \in SUBSET (0..(N + 1)) /\ T # {}
    OBVIOUS
<1>2. N + 1 \in Nat
    OBVIOUS
<1>3. PICK m \in T : \A n \in T : n <= m
    <2> HIDE DEF T
    <2> QED
        BY <1>1, <1>2, GreatestBelow
<1>4. PICK x \in S : m = x + 1
    OBVIOUS
<1>5. \A y \in S : x >= y
    <2> SUFFICES ASSUME NEW y \in S PROVE x >= y
        OBVIOUS
    <2>1. y + 1 <= m
        BY <1>3
    <2> QED
        BY <1>4, <2>1
<1>6. Max(S) \in S /\ \A y \in S : Max(S) >= y
    BY <1>5 DEF Max
<1> QED
    BY <1>6

(* get_max_page_id is behind every page in the pool and in the file.       *)
LEMMA LastPage ==
    ASSUME PoolTyped, NEW t \in Tables
    PROVE  /\ get_max_page_id(t) \in -1..(MaxPages - 1)
           /\ get_max_page_id(t) >= file_pages[t] - 1
           /\ \A k \in Resident : k[1] = t => k[2] <= get_max_page_id(t)
<1> DEFINE cached == {k[2] : k \in Resident \cap PagesOf(t)}
           S == cached \cup {file_pages[t] - 1}
<1>1. MaxPages \in Nat \ {0}
    BY BufferAssumption
<1>2. cached \subseteq 0..(MaxPages - 1)
    BY DEF PagesOf
<1>3. file_pages[t] - 1 \in -1..(MaxPages - 1)
    BY <1>1 DEF PoolTyped
<1>4. MaxPages - 1 \in Nat /\ S \in SUBSET (-1..(MaxPages - 1)) /\ S # {}
    BY <1>1, <1>2, <1>3
<1>5. get_max_page_id(t) = Max(S)
    BY DEF get_max_page_id
<1>6. \A k \in Resident : k[1] = t => k[2] \in S
    <2> SUFFICES ASSUME NEW k \in Resident, k[1] = t PROVE k[2] \in cached
        OBVIOUS
    <2>1. k \in PagesOf(t)
        BY DEF Resident, Addresses, PagesOf
    <2> QED
        BY <2>1
<1>7. file_pages[t] - 1 \in S
    OBVIOUS
<1> HIDE DEF S
<1>8. Max(S) \in S /\ \A x \in S : x <= Max(S)
    BY <1>4, MaxIsGreatest
<1> QED
    BY <1>3, <1>4, <1>5, <1>6, <1>7, <1>8

-----------------------------------------------------------------------------
(* What the calls of the buffer manager do to all pages.                   *)

(* A page the pool has read and not changed, or written, is that of the    *)
(* file, if it can be.                                                     *)
CleanIsOnDisk ==
    \A k \in Resident :
        ~buffer_pool[k].is_dirty /\ Sound(buffer_pool[k].rows) => disk[k] = buffer_pool[k].rows

(* Nothing is behind the end of a file.                                    *)
FilesEnd == \A k \in Addresses : k[2] >= file_pages[k[1]] => disk[k] = <<>>

PoolInv == PoolTyped /\ CleanIsOnDisk /\ FilesEnd

(* Flushed pages lie within their files, which have grown for them.        *)
LEMMA FlushGrowsFiles ==
    ASSUME PoolInv, NEW pages \in SUBSET Addresses, Flush(pages)
    PROVE  /\ file_pages' \in [Tables -> 0..MaxPages]
           /\ disk' = [k \in Addresses |-> disk'[k]]
           /\ FilesEnd'
<1> DEFINE S(t) == {file_pages[t]} \cup {k[2] + 1 : k \in Flushed(pages) \cap PagesOf(t)}
<1>1. MaxPages \in Nat \ {0}
    BY BufferAssumption
<1>2. ASSUME NEW t \in Tables
      PROVE  /\ file_pages'[t] \in S(t) /\ file_pages'[t] \in 0..MaxPages
             /\ \A x \in S(t) : x <= file_pages'[t]
    <2>1. S(t) \in SUBSET (0..MaxPages) /\ S(t) # {}
        BY <1>1 DEF PagesOf, PoolInv, PoolTyped
    <2>2. S(t) \in SUBSET (-1..MaxPages)
        BY <1>1, <2>1
    <2>3. file_pages'[t] = Max(S(t))
        BY DEF Flush
    <2> HIDE DEF S
    <2> QED
        BY <1>1, <2>1, <2>2, <2>3, MaxIsGreatest
<1>3. file_pages' = [t \in Tables |-> file_pages'[t]]
    BY DEF Flush
<1>4. file_pages' \in [Tables -> 0..MaxPages]
    BY <1>2, <1>3
<1>5. ASSUME NEW k \in Addresses, k[2] >= file_pages'[k[1]]
      PROVE  disk'[k] = <<>>
    <2>1. k[1] \in Tables /\ k[2] \in 0..(MaxPages - 1) /\ k \in PagesOf(k[1])
        BY DEF Addresses, PagesOf
    <2>2. k \notin Flushed(pages)
        <3> SUFFICES ASSUME k \in Flushed(pages) PROVE FALSE
            OBVIOUS
        <3>1. k[2] + 1 \in S(k[1])
            BY <2>1
        <3>2. k[2] + 1 <= file_pages'[k[1]] /\ file_pages'[k[1]] \in 0..MaxPages
            BY <1>2, <2>1, <3>1
        <3> QED
            BY <1>1, <1>5, <2>1, <3>2
    <2>3. disk'[k] = disk[k]
        BY <2>2 DEF Flush
    <2>4. file_pages[k[1]] \in S(k[1])
        OBVIOUS
    <2>5. /\ file_pages[k[1]] <= file_pages'[k[1]] /\ file_pages'[k[1]] \in 0..MaxPages
          /\ file_pages[k[1]] \in 0..MaxPages
        BY <1>2, <2>1, <2>4 DEF PoolInv, PoolTyped
    <2>6. k[2] >= file_pages[k[1]]
        BY <1>1, <1>5, <2>1, <2>5
    <2> QED
        BY <2>3, <2>6 DEF PoolInv, FilesEnd
<1> QED
    BY <1>4, <1>5 DEF FilesEnd, Flush

(* A sound page is the same on its way to the disk and back.               *)
LEMMA SoundIsKept ==
    ASSUME NEW rows, Sound(rows)
    PROVE  Reloaded(rows) = rows /\ Writable(rows)
BY DEF Reloaded, Sound

(* A page comes into the pool; another one may have to go.                 *)
LEMMA AdmitKeeps ==
    ASSUME PoolInv, NEW k \in Addresses \ Resident, NEW page, IsPage(page),
           page.pin_count = 1, page.is_dirty \/ page.rows = disk[k], Admit(k, page)
    PROVE  /\ PoolInv'
           /\ Alike(buffer_pool'[k], page) /\ disk'[k] = disk[k]
           /\ \A j \in Addresses \ {k} :
                /\ \/ buffer_pool'[j].pin_count = buffer_pool[j].pin_count
                   \/ buffer_pool[j].pin_count = 0 /\ buffer_pool'[j].pin_count = -1
                /\ Sound(View(j)) =>
                        View(j)' = View(j) /\ disk'[j] \in {disk[j], View(j)}
<1> DEFINE Effect(gone) ==
        /\ PoolTyped' /\ FilesEnd'
        /\ Alike(buffer_pool'[k], page)
        /\ \A j \in gone : buffer_pool[j].pin_count = 0 /\ buffer_pool'[j].pin_count = -1
        /\ \A j \in Addresses \ (gone \cup {k}) : Alike(buffer_pool'[j], buffer_pool[j])
        /\ \A j \in Addresses :
                disk'[j] = IF j \in Flushed(gone) THEN Reloaded(buffer_pool[j].rows) ELSE disk[j]
<1>1. PICK gone \in SUBSET Resident : Effect(gone)
    <2>1. CASE /\ buffer_pool' = Ranked([buffer_pool EXCEPT ![k] = page])
               /\ UNCHANGED <<disk, file_pages>>
        <3> DEFINE pool == [buffer_pool EXCEPT ![k] = page]
        <3>1. IsPool(pool) /\ pool[k] = page
              /\ \A j \in Addresses \ {k} : pool[j] = buffer_pool[j]
            BY DEF PoolInv, PoolTyped, IsPool
        <3> HIDE DEF pool
        <3>2. IsPool(buffer_pool') /\ \A j \in Addresses : Alike(buffer_pool'[j], pool[j])
            BY <2>1, <3>1, RankedKeeps DEF pool
        <3>3. PoolTyped' /\ FilesEnd'
            BY <2>1, <3>2 DEF PoolInv, PoolTyped, FilesEnd
        <3>4. Alike(buffer_pool'[k], page)
            BY <3>1, <3>2
        <3>5. \A j \in Addresses \ {k} : Alike(buffer_pool'[j], buffer_pool[j])
            BY <3>1, <3>2
        <3>6. Flushed({}) = {}
            BY DEF Flushed
        <3>7. Effect({})
            BY <2>1, <3>3, <3>4, <3>5, <3>6
        <3> QED
            BY <3>7
    <2>2. ASSUME NEW v \in Victims, Flush({v}),
                 buffer_pool' = Ranked([buffer_pool EXCEPT ![v] = NotLoaded, ![k] = page])
          PROVE  Effect({v}) /\ v \in Resident
        <3>1. v \in Resident /\ v \in Addresses /\ v # k /\ buffer_pool[v].pin_count = 0
            BY DEF Victims, Resident
        <3> DEFINE pool == [buffer_pool EXCEPT ![v] = NotLoaded, ![k] = page]
        <3>2. IsPool(pool) /\ pool[k] = page /\ pool[v] = NotLoaded
              /\ \A j \in Addresses \ {v, k} : pool[j] = buffer_pool[j]
            BY <3>1, NotLoadedIsPage DEF PoolInv, PoolTyped, IsPool
        <3> HIDE DEF pool
        <3>3. IsPool(buffer_pool') /\ \A j \in Addresses : Alike(buffer_pool'[j], pool[j])
            BY <2>2, <3>2, RankedKeeps DEF pool
        <3>4. PoolTyped' /\ FilesEnd'
            BY <2>2, <3>1, <3>3, FlushGrowsFiles DEF PoolTyped
        <3>5. Alike(buffer_pool'[k], page) /\ buffer_pool'[v].pin_count = -1
            BY <3>1, <3>2, <3>3, NotLoadedIsPage DEF Alike
        <3>6. \A j \in Addresses \ {v, k} : Alike(buffer_pool'[j], buffer_pool[j])
            BY <3>2, <3>3
        <3>7. \A j \in Addresses : disk'[j] =
                IF j \in Flushed({v}) THEN Reloaded(buffer_pool[j].rows) ELSE disk[j]
            BY <2>2 DEF Flush
        <3> QED
            BY <3>1, <3>4, <3>5, <3>6, <3>7
    <2> QED
        BY <2>1, <2>2 DEF Admit
<1> HIDE DEF Effect
<1>2. /\ PoolTyped' /\ FilesEnd' /\ Alike(buffer_pool'[k], page)
      /\ \A j \in gone : buffer_pool[j].pin_count = 0 /\ buffer_pool'[j].pin_count = -1
      /\ \A j \in Addresses \ (gone \cup {k}) : Alike(buffer_pool'[j], buffer_pool[j])
      /\ \A j \in Addresses :
            disk'[j] = IF j \in Flushed(gone) THEN Reloaded(buffer_pool[j].rows) ELSE disk[j]
      /\ gone \subseteq Addresses /\ k \notin gone
    BY <1>1 DEF Effect, Resident
<1>3. Flushed(gone) \subseteq gone
    BY DEF Flushed
<1>4. disk'[k] = disk[k]
    BY <1>2, <1>3
<1>5. ASSUME NEW j \in Addresses \ {k}, Sound(View(j))
      PROVE  View(j)' = View(j) /\ disk'[j] \in {disk[j], View(j)}
    <2>1. CASE j \in gone
        <3>1. View(j) = buffer_pool[j].rows /\ j \in Resident /\ View(j)' = disk'[j]
            BY <1>2, <2>1 DEF View, Resident
        <3>2. CASE buffer_pool[j].is_dirty
            <4>1. j \in Flushed(gone) /\ Reloaded(buffer_pool[j].rows) = buffer_pool[j].rows
                BY <1>5, <2>1, <3>1, <3>2, SoundIsKept DEF Flushed, Dirty
            <4> QED
                BY <1>2, <3>1, <4>1
        <3>3. CASE ~buffer_pool[j].is_dirty
            <4>1. disk'[j] = disk[j] /\ disk[j] = buffer_pool[j].rows
                BY <1>2, <1>5, <3>1, <3>3 DEF Flushed, Dirty, PoolInv, CleanIsOnDisk
            <4> QED
                BY <3>1, <4>1
        <3> QED
            BY <3>2, <3>3
    <2>2. CASE j \notin gone
        <3>1. Alike(buffer_pool'[j], buffer_pool[j]) /\ disk'[j] = disk[j]
            BY <1>2, <1>3, <2>2
        <3> QED
            BY <3>1 DEF View, Alike
    <2> QED
        BY <2>1, <2>2
<1>6. ASSUME NEW j \in Resident', ~buffer_pool'[j].is_dirty, Sound(buffer_pool'[j].rows)
      PROVE  disk'[j] = buffer_pool'[j].rows
    <2>1. j \in Addresses /\ buffer_pool'[j].pin_count >= 0
        BY DEF Resident
    <2>2. CASE j = k
        BY <1>2, <1>4, <1>6, <2>2 DEF Alike
    <2>3. CASE j # k
        <3>1. j \notin gone
            BY <1>2, <2>1
        <3>2. Alike(buffer_pool'[j], buffer_pool[j]) /\ disk'[j] = disk[j]
            BY <1>2, <1>3, <2>1, <2>3, <3>1
        <3> QED
            BY <1>6, <2>1, <3>2 DEF Alike, PoolInv, CleanIsOnDisk, Resident
    <2> QED
        BY <2>2, <2>3
<1>7. \A j \in Addresses \ {k} :
          \/ buffer_pool'[j].pin_count = buffer_pool[j].pin_count
          \/ buffer_pool[j].pin_count = 0 /\ buffer_pool'[j].pin_count = -1
    BY <1>2 DEF Alike
<1>8. CleanIsOnDisk'
    BY <1>6 DEF CleanIsOnDisk
<1> QED
    BY <1>2, <1>4, <1>5, <1>7, <1>8 DEF PoolInv

(* What the pages other than k may notice of a call about page k.          *)
OthersKept(k) ==
    \A j \in Addresses \ {k} :
        /\ \/ buffer_pool'[j].pin_count = buffer_pool[j].pin_count
           \/ buffer_pool[j].pin_count = 0 /\ buffer_pool'[j].pin_count = -1
        /\ Sound(View(j)) => View(j)' = View(j) /\ disk'[j] \in {disk[j], View(j)}

(* Page k is pinned once more, as it was.                                  *)
Pinned(k) ==
    /\ buffer_pool'[k].pin_count = IF k \in Resident THEN buffer_pool[k].pin_count + 1 ELSE 1
    /\ View(k)' = View(k) /\ disk'[k] = disk[k]
    /\ OthersKept(k)

(* get_page pins its page once more and does not disturb the others.       *)
LEMMA GetPagePins ==
    ASSUME PoolInv, NEW k \in Addresses, get_page(k)
    PROVE  PoolInv' /\ Pinned(k)
<1>1. PICK now : IF k \in Resident
        THEN /\ buffer_pool' = Ranked([buffer_pool EXCEPT
                                   ![k].pin_count = @ + 1, ![k].last_access_time = now])
             /\ UNCHANGED <<disk, file_pages>>
        ELSE Admit(k, [rows |-> disk[k], is_dirty |-> FALSE, pin_count |-> 1,
                       last_access_time |-> now])
    BY DEF get_page
<1>2. CASE k \in Resident
    <2> DEFINE pool == [buffer_pool EXCEPT ![k].pin_count = @ + 1, ![k].last_access_time = now]
    <2>1. IsPage(buffer_pool[k]) /\ buffer_pool[k].pin_count >= 0
        BY <1>2 DEF Resident, PoolInv, PoolTyped, IsPool
    <2>2. pool[k] = [rows |-> buffer_pool[k].rows, is_dirty |-> buffer_pool[k].is_dirty,
                     pin_count |-> buffer_pool[k].pin_count + 1, last_access_time |-> now]
        BY <2>1 DEF IsPage, PoolInv, PoolTyped, IsPool
    <2>3. pool = [j \in Addresses |-> pool[j]]
          /\ \A j \in Addresses \ {k} : pool[j] = buffer_pool[j]
        BY DEF PoolInv, PoolTyped, IsPool
    <2> HIDE DEF pool
    <2>4. IsPool(pool)
        BY <2>1, <2>2, <2>3 DEF IsPool, IsPage, PoolInv, PoolTyped
    <2>5. IsPool(buffer_pool') /\ \A j \in Addresses : Alike(buffer_pool'[j], pool[j])
        BY <1>1, <1>2, <2>4, RankedKeeps DEF pool
    <2>6. /\ buffer_pool'[k].pin_count = buffer_pool[k].pin_count + 1
          /\ buffer_pool'[k].rows = buffer_pool[k].rows
          /\ buffer_pool'[k].is_dirty = buffer_pool[k].is_dirty
        BY <2>2, <2>5 DEF Alike
    <2>7. \A j \in Addresses \ {k} : Alike(buffer_pool'[j], buffer_pool[j])
        BY <2>3, <2>5
    <2>8. \A j \in Addresses : View(j)' = View(j) /\ (j \in Resident' <=> j \in Resident)
        BY <1>1, <1>2, <2>1, <2>6, <2>7 DEF View, Alike, Resident, IsPage
    <2>9. PoolTyped' /\ CleanIsOnDisk' /\ FilesEnd'
        BY <1>1, <1>2, <2>5, <2>6, <2>7, <2>8
        DEF PoolInv, PoolTyped, CleanIsOnDisk, FilesEnd, Alike, Resident
    <2> QED
        BY <1>1, <1>2, <2>6, <2>7, <2>8, <2>9 DEF PoolInv, Pinned, OthersKept, Alike
<1>3. CASE k \notin Resident
    <2> DEFINE page == [rows |-> disk[k], is_dirty |-> FALSE, pin_count |-> 1,
                        last_access_time |-> now]
    <2>1. IsPage(page) /\ page.pin_count = 1 /\ page.rows = disk[k]
        BY DEF IsPage
    <2>2. Admit(k, page)
        BY <1>1, <1>3
    <2>3. View(k) = disk[k]
        BY <1>3 DEF View, Resident
    <2> HIDE DEF page
    <2>4. PoolInv' /\ Alike(buffer_pool'[k], page) /\ disk'[k] = disk[k] /\ OthersKept(k)
        BY <1>3, <2>1, <2>2, AdmitKeeps DEF OthersKept
    <2>5. View(k)' = View(k)
        BY <2>1, <2>3, <2>4 DEF View, Alike
    <2> QED
        BY <1>3, <2>1, <2>4, <2>5 DEF Pinned, Alike
<1> QED
    BY <1>2, <1>3

(* new_page pins an empty page and does not disturb the others.            *)
LEMMA NewPagePins ==
    ASSUME PoolInv, NEW k \in Addresses \ Resident, k[2] >= file_pages[k[1]], new_page(k)
    PROVE  PoolInv' /\ Pinned(k)
<1>1. PICK now : Admit(k, [rows |-> <<>>, is_dirty |-> TRUE, pin_count |-> 1,
                           last_access_time |-> now])
    BY DEF new_page
<1> DEFINE page == [rows |-> <<>>, is_dirty |-> TRUE, pin_count |-> 1, last_access_time |-> now]
<1>2. IsPage(page) /\ page.pin_count = 1 /\ page.rows = <<>> /\ page.is_dirty
    BY DEF IsPage
<1>3. View(k) = <<>>
    BY DEF View, Resident, PoolInv, FilesEnd
<1> HIDE DEF page
<1>4. PoolInv' /\ Alike(buffer_pool'[k], page) /\ disk'[k] = disk[k] /\ OthersKept(k)
    BY <1>1, <1>2, AdmitKeeps DEF page, OthersKept
<1>5. View(k)' = View(k)
    BY <1>2, <1>3, <1>4 DEF View, Alike
<1> QED
    BY <1>2, <1>4, <1>5 DEF Pinned, Alike

(* A caller that changes rows says so.                                     *)
LEMMA UnpinPageKeeps ==
    ASSUME PoolInv, NEW k \in Addresses, buffer_pool[k].pin_count > 0, NEW rows,
           NEW mark_dirty \in BOOLEAN, mark_dirty \/ rows = buffer_pool[k].rows,
           unpin_page(k, rows, mark_dirty)
    PROVE  /\ PoolInv' /\ disk' = disk
           /\ buffer_pool'[k].pin_count = buffer_pool[k].pin_count - 1
           /\ \A j \in Addresses \ {k} : buffer_pool'[j] = buffer_pool[j]
<1>1. IsPage(buffer_pool[k])
    BY DEF PoolInv, PoolTyped, IsPool
<1>2. buffer_pool'[k] =
        [rows |-> rows, is_dirty |-> buffer_pool[k].is_dirty \/ mark_dirty,
         pin_count |-> buffer_pool[k].pin_count - 1,
         last_access_time |-> buffer_pool[k].last_access_time]
    BY <1>1 DEF unpin_page, IsPage, PoolInv, PoolTyped, IsPool
<1>3. buffer_pool' = [j \in Addresses |-> buffer_pool'[j]]
      /\ \A j \in Addresses \ {k} : buffer_pool'[j] = buffer_pool[j]
    BY DEF unpin_page, PoolInv, PoolTyped, IsPool
<1>4. disk' = disk /\ file_pages' = file_pages
    BY DEF unpin_page
<1>5. buffer_pool'[k].is_dirty \in BOOLEAN /\ (~buffer_pool'[k].is_dirty =>
          ~buffer_pool[k].is_dirty /\ buffer_pool'[k].rows = buffer_pool[k].rows)
    BY <1>1, <1>2 DEF IsPage
<1>6. IsPage(buffer_pool'[k])
    BY <1>1, <1>2, <1>5 DEF IsPage
<1>7. PoolTyped' /\ FilesEnd'
    BY <1>3, <1>4, <1>6 DEF PoolInv, PoolTyped, IsPool, FilesEnd
<1>8. CleanIsOnDisk'
    <2> SUFFICES ASSUME NEW j \in Resident', ~buffer_pool'[j].is_dirty,
                        Sound(buffer_pool'[j].rows)
                 PROVE  disk'[j] = buffer_pool'[j].rows
        BY DEF CleanIsOnDisk
    <2>1. k \in Resident /\ j \in Addresses
        BY <1>1 DEF Resident, IsPage
    <2>2. j \in Resident /\ ~buffer_pool[j].is_dirty /\ buffer_pool'[j].rows = buffer_pool[j].rows
        BY <1>3, <1>5, <2>1 DEF Resident
    <2> QED
        BY <1>4, <2>2 DEF PoolInv, CleanIsOnDisk
<1> QED
    BY <1>2, <1>3, <1>4, <1>7, <1>8 DEF PoolInv

(* A checkpoint writes every page the disk can give back, and moves none.  *)
LEMMA CheckpointKeeps ==
    ASSUME PoolInv, checkpoint
    PROVE  /\ PoolInv'
           /\ \A j \in Addresses :
                /\ buffer_pool'[j].pin_count = buffer_pool[j].pin_count
                /\ View(j)' = IF j \in Resident THEN View(j) ELSE disk[j]
                /\ Sound(View(j)) => disk'[j] = View(j)
<1>1. Dirty \subseteq Addresses /\ Flush(Dirty) /\ Flushed(Dirty) \subseteq Dirty
    BY DEF Dirty, Resident, checkpoint, Flushed
<1>2. ASSUME NEW j \in Addresses
      PROVE  /\ IsPage(buffer_pool'[j]) /\ buffer_pool'[j].rows = buffer_pool[j].rows
             /\ buffer_pool'[j].pin_count = buffer_pool[j].pin_count
    <2> DEFINE dirty == buffer_pool[j].is_dirty /\ j \notin Flushed(Dirty)
    <2>1. IsPage(buffer_pool[j]) /\ dirty \in BOOLEAN
        BY DEF PoolInv, PoolTyped, IsPool
    <2>2. buffer_pool'[j] = [buffer_pool[j] EXCEPT !.is_dirty = dirty]
        BY <2>1 DEF checkpoint, IsPage
    <2> HIDE DEF dirty
    <2>3. buffer_pool'[j] =
            [rows |-> buffer_pool[j].rows, is_dirty |-> dirty,
             pin_count |-> buffer_pool[j].pin_count,
             last_access_time |-> buffer_pool[j].last_access_time]
        BY <2>1, <2>2 DEF IsPage
    <2> QED
        BY <2>1, <2>3 DEF IsPage
<1>3. buffer_pool' = [j \in Addresses |-> buffer_pool'[j]]
    BY DEF checkpoint
<1>4. IsPool(buffer_pool')
    BY <1>2, <1>3 DEF IsPool
<1>5. PoolTyped' /\ FilesEnd'
    BY <1>1, <1>4, FlushGrowsFiles DEF PoolTyped
<1>6. \A j \in Addresses :
          disk'[j] = IF j \in Flushed(Dirty) THEN Reloaded(buffer_pool[j].rows) ELSE disk[j]
    BY <1>1 DEF Flush
<1>7. ASSUME NEW j \in Addresses, Sound(View(j))
      PROVE  disk'[j] = View(j)
    <2>1. CASE j \in Dirty
        BY <1>6, <1>7, <2>1, SoundIsKept DEF Dirty, Resident, View, Flushed
    <2>2. CASE j \in Resident \ Dirty
        BY <1>1, <1>6, <1>7, <2>2 DEF Dirty, Resident, View, PoolInv, CleanIsOnDisk
    <2>3. CASE j \notin Resident
        BY <1>1, <1>6, <1>7, <2>3 DEF Dirty, Resident, View
    <2> QED
        BY <2>1, <2>2, <2>3 DEF Dirty
<1>8. \A j \in Addresses : View(j)' = IF j \in Resident THEN View(j) ELSE disk[j]
    <2> SUFFICES ASSUME NEW j \in Addresses
                 PROVE  View(j)' = IF j \in Resident THEN View(j) ELSE disk[j]
        OBVIOUS
    <2>1. j \notin Resident => disk'[j] = disk[j]
        BY <1>1, <1>6 DEF Dirty
    <2>2. buffer_pool'[j].pin_count = buffer_pool[j].pin_count
          /\ buffer_pool'[j].rows = buffer_pool[j].rows
        BY <1>2
    <2> QED
        BY <2>1, <2>2 DEF View, Resident
<1>9. CleanIsOnDisk'
    <2> SUFFICES ASSUME NEW j \in Resident', Sound(buffer_pool'[j].rows)
                 PROVE  disk'[j] = buffer_pool'[j].rows
        BY DEF CleanIsOnDisk
    <2>1. j \in Addresses /\ View(j) = buffer_pool'[j].rows
        BY <1>2 DEF Resident, View
    <2> QED
        BY <1>7, <2>1
<1> QED
    BY <1>2, <1>5, <1>7, <1>8, <1>9 DEF PoolInv

(* The pages of a table, or all of them, leave the pool.                   *)
LEMMA PagesLeave ==
    ASSUME PoolInv, NEW going \in SUBSET Addresses, UNCHANGED <<disk, file_pages>>,
           IsPool(buffer_pool'),
           \A j \in going : buffer_pool'[j].pin_count = -1,
           \A j \in Addresses \ going : Alike(buffer_pool'[j], buffer_pool[j])
    PROVE  /\ PoolInv'
           /\ \A j \in Addresses : View(j)' = IF j \in going THEN disk[j] ELSE View(j)
<1>1. \A j \in Addresses : View(j)' = IF j \in going THEN disk[j] ELSE View(j)
    BY DEF View, Alike
<1>2. PoolTyped' /\ FilesEnd'
    BY DEF PoolInv, PoolTyped, FilesEnd
<1>3. CleanIsOnDisk'
    BY DEF PoolInv, CleanIsOnDisk, Alike, Resident
<1> QED
    BY <1>1, <1>2, <1>3 DEF PoolInv

(* The pages of a dropped table leave the pool, the others stay.           *)
LEMMA EvictTableKeeps ==
    ASSUME PoolInv, NEW t \in Tables, evict_table_without_flush(t)
    PROVE  /\ PoolInv'
           /\ \A j \in Addresses :
                /\ View(j)' = IF j[1] = t THEN disk[j] ELSE View(j)
                /\ buffer_pool'[j].pin_count =
                      IF j[1] = t THEN -1 ELSE buffer_pool[j].pin_count
<1> DEFINE pool == [k \in Addresses |-> IF k[1] = t THEN NotLoaded ELSE buffer_pool[k]]
           going == {k \in Addresses : k[1] = t}
<1>1. IsPool(pool)
    BY NotLoadedIsPage DEF PoolInv, PoolTyped, IsPool
<1>2. \A k \in Addresses : pool[k] = IF k \in going THEN NotLoaded ELSE buffer_pool[k]
    OBVIOUS
<1> HIDE DEF pool, going
<1>3. IsPool(buffer_pool') /\ \A j \in Addresses : Alike(buffer_pool'[j], pool[j])
    BY <1>1, RankedKeeps DEF pool, evict_table_without_flush
<1>4. \A j \in going : buffer_pool'[j].pin_count = -1
    BY <1>2, <1>3, NotLoadedIsPage DEF Alike, going
<1>5. \A j \in Addresses \ going : Alike(buffer_pool'[j], buffer_pool[j])
    BY <1>2, <1>3
<1>6. /\ PoolInv'
      /\ \A j \in Addresses : View(j)' = IF j \in going THEN disk[j] ELSE View(j)
    BY <1>3, <1>4, <1>5, PagesLeave DEF evict_table_without_flush, going
<1> QED
    BY <1>4, <1>5, <1>6 DEF going, Alike

(* After a crash every page is what the disk has.                          *)
LEMMA LosePoolKeeps ==
    ASSUME PoolInv, LosePool
    PROVE  /\ PoolInv'
           /\ \A j \in Addresses : View(j)' = disk[j] /\ buffer_pool'[j].pin_count = -1
<1>1. IsPool(buffer_pool') /\ \A j \in Addresses : buffer_pool'[j].pin_count = -1
    BY NotLoadedIsPage DEF LosePool, IsPool
<1> QED
    BY <1>1, PagesLeave DEF LosePool

(* Without its file a table has no rows, and the others keep theirs.       *)
LEMMA RemoveFileKeeps ==
    ASSUME PoolInv, NEW t \in Tables, RemoveFile(t), \A k \in Resident : k[1] # t
    PROVE  /\ PoolInv'
           /\ \A j \in Addresses : View(j)' = IF j[1] = t THEN <<>> ELSE View(j)
<1>1. MaxPages \in Nat
    BY BufferAssumption
<1>2. PoolTyped'
    BY <1>1 DEF PoolInv, PoolTyped, RemoveFile
<1>3. FilesEnd'
    BY DEF PoolInv, PoolTyped, FilesEnd, RemoveFile, Addresses
<1>4. CleanIsOnDisk'
    BY DEF PoolInv, CleanIsOnDisk, RemoveFile, Resident
<1>5. \A j \in Addresses : View(j)' = IF j[1] = t THEN <<>> ELSE View(j)
    BY DEF View, RemoveFile, Resident
<1> QED
    BY <1>2, <1>3, <1>4, <1>5 DEF PoolInv

-----------------------------------------------------------------------------
(* The statements.                                                         *)

IsStatement(o) ==
    /\ o = [at |-> o.at, kind |-> o.kind, table |-> o.table, where |-> o.where, new |-> o.new,
            page |-> o.page, pages |-> o.pages, rows |-> o.rows, names |-> o.names]
    /\ o.at \in Steps /\ o.kind \in Kinds /\ o.table \in Tables
    /\ o.page \in Int /\ o.pages \in 0..MaxPages
    /\ o.at \in {"get", "use", "put"} => o.page \in 0..(MaxPages - 1)
    /\ o.at \in {"schema", "data"} => o.kind = "drop"

OpsTyped ==
    /\ op = [s \in Sessions |-> op[s]]
    /\ \A s \in Sessions : op[s] = Idle \/ IsStatement(op[s])

(* A statement that changes a table is alone on it.                        *)
ChangesAlone ==
    \A s, z \in Active :
        op[s].table = op[z].table /\ op[s].kind # "select" => s = z

(* While the files of a dropped table go, none of its pages is loaded.     *)
DropsEmpty ==
    \A s \in Active : op[s].at \in {"schema", "data"} =>
        \A k \in Resident : k[1] # op[s].table

PinsExact ==
    \A k \in Addresses :
        /\ IsFiniteSet(Users(k))
        /\ IF k \in Resident THEN buffer_pool[k].pin_count = Cardinality(Users(k))
           ELSE Users(k) = {}

Inv == PoolInv /\ OpsTyped /\ ChangesAlone /\ DropsEmpty /\ PinsExact

(* The page store's variables, as StorageEngine has them.                  *)
Contents == [k \in Addresses |-> View(k)]
Holder == [s \in Sessions |-> IF Using(s) THEN Key(s) ELSE <<>>]

(* A statement is not the idle value.                                      *)
LEMMA StatementsAreNotIdle ==
    ASSUME NEW o, IsStatement(o)
    PROVE  o # Idle
BY DEF IsStatement, Idle, Steps

(* A session moves and the others stay.                                    *)
OnlyMoves(s) == \A z \in Sessions \ {s} : op'[z] = op[z]

(* When one session moves, the users of a page change by that session.     *)
LEMMA UsersOfOthers ==
    ASSUME NEW s \in Sessions, OnlyMoves(s), NEW k
    PROVE  Users(k)' = (Users(k) \ {s}) \cup (IF Using(s)' /\ Key(s)' = k THEN {s} ELSE {})
BY DEF OnlyMoves, Users, Using, At, Key

(* The same of the holders of the page store.                              *)
LEMMA HolderOfOthers ==
    ASSUME NEW s \in Sessions, OnlyMoves(s)
    PROVE  Holder' = [Holder EXCEPT ![s] = IF Using(s)' THEN Key(s)' ELSE <<>>]
BY DEF OnlyMoves, Holder, Using, At, Key

(* A session turns to a statement, or to nothing.                          *)
LEMMA MoveIsTyped ==
    ASSUME OpsTyped, NEW s \in Sessions, NEW o, o = Idle \/ IsStatement(o),
           op' = [op EXCEPT ![s] = o]
    PROVE  OpsTyped' /\ OnlyMoves(s) /\ op'[s] = o
BY DEF OpsTyped, OnlyMoves

(* A session that goes on with its statement, or ends it.                  *)
LEMMA GoingOnIsAlone ==
    ASSUME Inv, NEW s \in Sessions, OnlyMoves(s), op[s] # Idle,
           op'[s] = Idle \/ (op'[s].table = op[s].table /\ op'[s].kind = op[s].kind)
    PROVE  ChangesAlone'
BY DEF Inv, ChangesAlone, OnlyMoves, Active

-----------------------------------------------------------------------------
(* The steps.                                                              *)

(* No page changes hands and the pool stays.                               *)
LEMMA QuietSteps ==
    ASSUME Inv, NEW s \in Sessions, OnlyMoves(s), OpsTyped', ChangesAlone',
           UNCHANGED bufferVars, ~Using(s), ~Using(s)',
           op'[s] # Idle /\ op'[s].at \in {"schema", "data"} =>
               op[s] # Idle /\ op[s].at \in {"schema", "data"} /\ op'[s].table = op[s].table
    PROVE  Inv' /\ Holder' = Holder /\ Contents' = Contents /\ disk' = disk
<1>1. UNCHANGED <<buffer_pool, disk, file_pages>>
    BY DEF bufferVars
<1>2. \A k : Users(k)' = Users(k)
    BY UsersOfOthers DEF Users
<1>3. PoolInv' /\ PinsExact'
    BY <1>1, <1>2 DEF Inv, PoolInv, PoolTyped, CleanIsOnDisk, FilesEnd, PinsExact, Resident
<1>4. DropsEmpty'
    BY <1>1 DEF Inv, DropsEmpty, OnlyMoves, Active, Resident
<1>5. Holder' = Holder
    BY HolderOfOthers DEF Holder
<1>6. Contents' = Contents
    BY <1>1 DEF Contents, View
<1> QED
    BY <1>1, <1>3, <1>4, <1>5, <1>6 DEF Inv

(* A session takes a page.                                                 *)
LEMMA TakingSteps ==
    ASSUME Inv, NEW s \in Sessions, OnlyMoves(s), OpsTyped', op[s] # Idle, ~Using(s), Using(s)',
           op'[s].table = op[s].table, op'[s].kind = op[s].kind,
           NEW k \in Addresses, Key(s)' = k, PoolInv', Pinned(k)
    PROVE  Inv' /\ Store!Acquire(s, k)
<1>1. k \in Addresses /\ k[1] = op[s].table
    BY DEF Key, Addresses
<1>2. s \notin Users(k) /\ Users(k)' = Users(k) \cup {s}
      /\ \A j \in Addresses \ {k} : Users(j)' = Users(j)
    BY UsersOfOthers DEF Users
<1>3. Holder' = [Holder EXCEPT ![s] = k] /\ Holder[s] = <<>>
    BY HolderOfOthers DEF Holder
<1>4. op'[s].at \in {"use", "put"} /\ op'[s] # Idle
    BY DEF Using, At
<1>5. /\ buffer_pool'[k].pin_count = IF k \in Resident THEN buffer_pool[k].pin_count + 1 ELSE 1
      /\ View(k)' = View(k) /\ disk'[k] = disk[k] /\ OthersKept(k)
    BY DEF Pinned
<1>6. \A j \in Addresses : IsFiniteSet(Users(j)) /\
          IF j \in Resident THEN buffer_pool[j].pin_count = Cardinality(Users(j))
          ELSE Users(j) = {}
    BY DEF Inv, PinsExact
<1>7. /\ IsFiniteSet(Users(k)') /\ k \in Resident'
      /\ buffer_pool'[k].pin_count = Cardinality(Users(k)')
    <2>1. /\ IsFiniteSet(Users(k) \cup {s})
          /\ Cardinality(Users(k) \cup {s}) = Cardinality(Users(k)) + 1
        BY <1>1, <1>2, <1>6, FS_AddElement
    <2>2. k \notin Resident => Cardinality(Users(k)) = 0
        BY <1>1, <1>6, FS_EmptySet
    <2>3. Cardinality(Users(k)) \in Nat
        BY <1>1, <1>6, FS_CardinalityType
    <2>4. buffer_pool'[k].pin_count = Cardinality(Users(k)) + 1
        BY <1>1, <1>5, <1>6, <2>2, <2>3
    <2> QED
        BY <1>1, <1>2, <2>1, <2>3, <2>4 DEF Resident
<1>8. ASSUME NEW j \in Addresses \ {k}
      PROVE  /\ IsFiniteSet(Users(j)')
             /\ IF j \in Resident' THEN buffer_pool'[j].pin_count = Cardinality(Users(j)')
                ELSE Users(j)' = {}
    <2>1. Users(j)' = Users(j) /\ IsFiniteSet(Users(j))
        BY <1>2, <1>6
    <2>2. CASE buffer_pool'[j].pin_count = buffer_pool[j].pin_count
        BY <1>6, <2>1, <2>2 DEF Resident
    <2>3. CASE buffer_pool[j].pin_count = 0 /\ buffer_pool'[j].pin_count = -1
        <3>1. j \in Resident /\ j \notin Resident'
            BY <2>3 DEF Resident
        <3>2. Users(j) = {}
            BY <1>6, <2>1, <2>3, <3>1, FS_EmptySet
        <3> QED
            BY <2>1, <3>1, <3>2
    <2> QED
        BY <1>5, <2>2, <2>3 DEF OthersKept
<1>9. PinsExact'
    BY <1>7, <1>8 DEF PinsExact
<1>10. ChangesAlone'
    BY GoingOnIsAlone
<1>11. DropsEmpty'
    <2> SUFFICES ASSUME NEW z \in Active', op'[z].at \in {"schema", "data"}, NEW j \in Resident',
                        j[1] = op'[z].table
                 PROVE  FALSE
        BY DEF DropsEmpty
    <2>1. z \in Sessions \ {s} /\ op'[z] = op[z] /\ z \in Active
        BY <1>4 DEF Active, OnlyMoves
    <2>2. op[z].kind = "drop"
        BY <2>1 DEF Inv, OpsTyped, IsStatement, Active
    <2>3. CASE j = k
        <3>1. s \in Active /\ op[z].table = op[s].table
            BY <1>1, <2>1, <2>3 DEF Active
        <3> QED
            BY <2>1, <2>2, <3>1 DEF Inv, ChangesAlone
    <2>4. CASE j # k
        <3>1. j \in Resident
            BY <1>5, <2>4 DEF OthersKept, Resident
        <3> QED
            BY <2>1, <3>1 DEF Inv, DropsEmpty
    <2> QED
        BY <2>3, <2>4
<1>12. Inv'
    BY <1>9, <1>10, <1>11 DEF Inv
<1>13. \A p \in Addresses : Sound(View(p)) =>
           View(p)' = View(p) /\ (disk'[p] = disk[p] \/ disk'[p] = View(p))
    BY <1>5 DEF OthersKept
<1>14. Store!Acquire(s, k)
    <2>1. Store!Addresses = Addresses
        BY DEF Store!Addresses, Addresses
    <2> QED
        BY <1>3, <1>13, <2>1 DEF Store!Acquire, Store!Free, Holder
<1> QED
    BY <1>12, <1>14

(* A session is done with its page.                                        *)
LEMMA LeavingSteps ==
    ASSUME Inv, NEW s \in Sessions, OnlyMoves(s), OpsTyped', Using(s), ~Using(s)',
           op'[s].table = op[s].table, op'[s].kind = op[s].kind,
           op'[s] # Idle => op'[s].at \notin {"schema", "data"},
           NEW rows, NEW mark_dirty \in BOOLEAN,
           mark_dirty \/ rows = buffer_pool[Key(s)].rows,
           unpin_page(Key(s), rows, mark_dirty)
    PROVE  Inv' /\ Store!Release(s)
<1>1. op[s] # Idle /\ IsStatement(op[s]) /\ op[s].at \in {"use", "put"}
    BY DEF Using, At, Inv, OpsTyped
<1>2. PICK k \in Addresses : k = Key(s) /\ k # <<>>
    BY <1>1 DEF Key, Addresses, IsStatement
<1>3. s \in Users(k) /\ \A j \in Addresses \ {k} : s \notin Users(j)
    BY <1>2 DEF Users
<1>4. /\ Users(k)' = Users(k) \ {s}
      /\ \A j \in Addresses \ {k} : Users(j)' = Users(j)
    <2>1. \A j : Users(j)' = Users(j) \ {s}
        BY UsersOfOthers
    <2> QED
        BY <1>3, <2>1
<1>5. Holder' = [Holder EXCEPT ![s] = <<>>] /\ Holder[s] = k
    BY <1>2, HolderOfOthers DEF Holder
<1>6. \A j \in Addresses : IsFiniteSet(Users(j)) /\
          IF j \in Resident THEN buffer_pool[j].pin_count = Cardinality(Users(j))
          ELSE Users(j) = {}
    BY DEF Inv, PinsExact
<1>7. /\ k \in Resident /\ IsFiniteSet(Users(k) \ {s})
      /\ Cardinality(Users(k) \ {s}) = Cardinality(Users(k)) - 1
      /\ Cardinality(Users(k)) \in Nat /\ Cardinality(Users(k) \ {s}) \in Nat
    BY <1>2, <1>3, <1>6, FS_RemoveElement, FS_CardinalityType
<1>8. buffer_pool[k].pin_count = Cardinality(Users(k)) /\ buffer_pool[k].pin_count > 0
    BY <1>2, <1>6, <1>7
<1>9. /\ PoolInv' /\ disk' = disk
      /\ buffer_pool'[k].pin_count = buffer_pool[k].pin_count - 1
      /\ \A j \in Addresses \ {k} : buffer_pool'[j] = buffer_pool[j]
    BY <1>2, <1>8, UnpinPageKeeps DEF Inv
<1>10. Resident' = Resident
    BY <1>7, <1>8, <1>9 DEF Resident
<1>11. PinsExact'
    <2> SUFFICES ASSUME NEW j \in Addresses
                 PROVE  /\ IsFiniteSet(Users(j)')
                        /\ IF j \in Resident' THEN buffer_pool'[j].pin_count = Cardinality(Users(j)')
                           ELSE Users(j)' = {}
        BY DEF PinsExact
    <2>1. CASE j = k
        BY <1>4, <1>7, <1>8, <1>9, <1>10, <2>1
    <2>2. CASE j # k
        <3>1. Users(j)' = Users(j) /\ buffer_pool'[j] = buffer_pool[j]
            BY <1>4, <1>9, <2>2
        <3> QED
            BY <1>6, <1>10, <3>1
    <2> QED
        BY <2>1, <2>2
<1>12. ChangesAlone'
    BY <1>1, GoingOnIsAlone
<1>13. DropsEmpty'
    BY <1>10 DEF Inv, DropsEmpty, OnlyMoves, Active
<1>14. Inv'
    BY <1>9, <1>11, <1>12, <1>13 DEF Inv
<1>15. \A p \in Addresses \ {k} : View(p)' = View(p)
    BY <1>9 DEF View
<1>16. Store!Release(s)
    <2>1. Store!Addresses = Addresses
        BY DEF Store!Addresses, Addresses
    <2> QED
        BY <1>2, <1>5, <1>9, <1>15, <2>1 DEF Store!Release, Store!Free, Holder
<1> QED
    BY <1>14, <1>16

(* A statement comes to its next call.                                     *)
LEMMA AtMoves ==
    ASSUME Inv, NEW s \in Sessions, op[s] # Idle, NEW step \in Steps,
           step \in {"get", "use", "put"} => op[s].page \in 0..(MaxPages - 1),
           step \in {"schema", "data"} => op[s].kind = "drop",
           op' = [op EXCEPT ![s].at = step]
    PROVE  /\ OpsTyped' /\ OnlyMoves(s)
           /\ op'[s] # Idle /\ op'[s].at = step /\ op'[s].table = op[s].table
           /\ op'[s].kind = op[s].kind /\ op'[s].page = op[s].page
<1>1. IsStatement(op[s]) /\ op = [z \in Sessions |-> op[z]]
    BY DEF Inv, OpsTyped
<1> DEFINE o == [at |-> step, kind |-> op[s].kind, table |-> op[s].table,
                 where |-> op[s].where, new |-> op[s].new, page |-> op[s].page,
                 pages |-> op[s].pages, rows |-> op[s].rows, names |-> op[s].names]
<1>2. op' = [op EXCEPT ![s] = o]
    <2>1. [op[s] EXCEPT !.at = step] = o
        BY <1>1 DEF IsStatement
    <2> HIDE DEF o
    <2> QED
        BY <2>1
<1>3. IsStatement(o)
    BY <1>1 DEF IsStatement
<1>4. OpsTyped' /\ OnlyMoves(s) /\ op'[s] = o
    <2> HIDE DEF o
    <2> QED
        BY <1>2, <1>3, MoveIsTyped DEF Inv
<1>5. op'[s] # Idle
    BY <1>3, <1>4, StatementsAreNotIdle
<1> QED
    BY <1>4, <1>5

(* GetPage is an Acquire of the page store.                                *)
LEMMA GetPageSteps ==
    ASSUME Inv, NEW s \in Sessions, GetPage(s)
    PROVE  Inv' /\ \E k \in Addresses : Store!Acquire(s, k)
<1>1. op[s] # Idle /\ op[s].at = "get" /\ IsStatement(op[s])
    BY DEF GetPage, At, Inv, OpsTyped
<1>2. op[s].page \in 0..(MaxPages - 1)
    BY <1>1 DEF IsStatement
<1>3. PICK k \in Addresses : k = Key(s)
    BY <1>1, <1>2 DEF Key, Addresses, IsStatement
<1>4. /\ OpsTyped' /\ OnlyMoves(s)
      /\ op'[s] # Idle /\ op'[s].at = "use" /\ op'[s].table = op[s].table
      /\ op'[s].kind = op[s].kind /\ op'[s].page = op[s].page
    BY <1>1, <1>2, AtMoves DEF GetPage, Steps
<1>5. PoolInv' /\ Pinned(k)
    BY <1>3, GetPagePins DEF GetPage, Inv
<1>6. ~Using(s) /\ Using(s)' /\ Key(s)' = k
    BY <1>1, <1>3, <1>4 DEF Using, At, Key
<1> QED
    BY <1>1, <1>4, <1>5, <1>6, TakingSteps

(* NewPage is an Acquire of the page store.                                *)
LEMMA NewPageSteps ==
    ASSUME Inv, NEW s \in Sessions, NewPage(s)
    PROVE  Inv' /\ \E k \in Addresses : Store!Acquire(s, k)
<1>1. op[s] # Idle /\ op[s].at = "new" /\ IsStatement(op[s])
    BY DEF NewPage, At, Inv, OpsTyped
<1> DEFINE t == op[s].table
           page == get_max_page_id(t) + 1
<1>2. t \in Tables
    BY <1>1 DEF IsStatement
<1>3. /\ get_max_page_id(t) \in -1..(MaxPages - 1)
      /\ get_max_page_id(t) >= file_pages[t] - 1
      /\ \A j \in Resident : j[1] = t => j[2] <= get_max_page_id(t)
    BY <1>2, LastPage DEF Inv, PoolInv
<1>4. page \in 0..(MaxPages - 1) /\ page >= file_pages[t]
    BY <1>2, <1>3, BufferAssumption DEF NewPage, Inv, PoolInv, PoolTyped
<1>5. PICK k \in Addresses : k = <<t, page>>
    BY <1>2, <1>4 DEF Addresses
<1>6. k \notin Resident
    BY <1>3, <1>5
<1>7. new_page(k)
    BY <1>5 DEF NewPage
<1>8. PoolInv' /\ Pinned(k)
    BY <1>4, <1>5, <1>6, <1>7, NewPagePins DEF Inv
<1> DEFINE o == [at |-> "put", kind |-> op[s].kind, table |-> op[s].table,
                 where |-> op[s].where, new |-> op[s].new, page |-> k[2],
                 pages |-> op[s].pages, rows |-> op[s].rows, names |-> op[s].names]
<1>9. op' = [op EXCEPT ![s] = o]
    <2> DEFINE o1 == [op[s] EXCEPT !.at = "put"]
               op1 == [op EXCEPT ![s] = o1]
    <2>1. op' = [op1 EXCEPT ![s] = [op1[s] EXCEPT !.page = k[2]]]
        BY <1>5 DEF NewPage
    <2>2. op1[s] = o1
        BY DEF Inv, OpsTyped
    <2>3. o1 = [at |-> "put", kind |-> op[s].kind, table |-> op[s].table,
                where |-> op[s].where, new |-> op[s].new, page |-> op[s].page,
                pages |-> op[s].pages, rows |-> op[s].rows, names |-> op[s].names]
        BY <1>1 DEF IsStatement
    <2> HIDE DEF o1
    <2>4. [o1 EXCEPT !.page = k[2]] = o
        BY <2>3
    <2> HIDE DEF o
    <2>5. op' = [op1 EXCEPT ![s] = o]
        BY <2>1, <2>2, <2>4
    <2> QED
        BY <2>5 DEF Inv, OpsTyped
<1>10. IsStatement(o)
    BY <1>1, <1>4, <1>5 DEF IsStatement, Steps
<1>11. OpsTyped' /\ OnlyMoves(s) /\ op'[s] = o
    <2> HIDE DEF o
    <2> QED
        BY <1>9, <1>10, MoveIsTyped DEF Inv
<1>12. o # Idle
    BY <1>10, StatementsAreNotIdle
<1>13. ~Using(s) /\ Using(s)' /\ Key(s)' = k
    BY <1>1, <1>5, <1>11, <1>12 DEF Using, At, Key
<1> QED
    BY <1>1, <1>8, <1>11, <1>13, TakingSteps

(* ScanPage is a Release of the page store.                                *)
LEMMA ScanPageSteps ==
    ASSUME Inv, NEW s \in Sessions, ScanPage(s)
    PROVE  Inv' /\ Store!Release(s)
<1>1. /\ op[s] # Idle /\ op[s].at = "use" /\ IsStatement(op[s])
      /\ op = [z \in Sessions |-> op[z]]
    BY DEF ScanPage, At, Inv, OpsTyped
<1> DEFINE more == op[s].page + 1 < op[s].pages
           next == IF more THEN op[s].page + 1 ELSE op[s].page
           step == IF more THEN "get" ELSE "done"
<1>2. PICK rows :
        op' = [op EXCEPT ![s].page = next, ![s].at = step, ![s].rows = rows]
    BY DEF ScanPage
<1>3. next \in 0..(MaxPages - 1) /\ step \in {"get", "done"}
    BY <1>1, BufferAssumption DEF IsStatement
<1> HIDE DEF next, step
<1> DEFINE o == [at |-> step, kind |-> op[s].kind, table |-> op[s].table,
                 where |-> op[s].where, new |-> op[s].new, page |-> next,
                 pages |-> op[s].pages, rows |-> rows, names |-> op[s].names]
<1>4. op' = [op EXCEPT ![s] = o]
    <2> DEFINE o1 == [op[s] EXCEPT !.page = next]
               o2 == [o1 EXCEPT !.at = step]
               op1 == [op EXCEPT ![s] = o1]
               op2 == [op1 EXCEPT ![s] = [op1[s] EXCEPT !.at = step]]
    <2>1. op' = [op2 EXCEPT ![s] = [op2[s] EXCEPT !.rows = rows]]
        BY <1>2
    <2>2. op1[s] = o1
        BY <1>1
    <2>3. op2 = [op EXCEPT ![s] = o2]
        <3> HIDE DEF o1
        <3> QED
            BY <1>1, <2>2
    <2>4. o1 = [at |-> op[s].at, kind |-> op[s].kind, table |-> op[s].table,
                where |-> op[s].where, new |-> op[s].new, page |-> next,
                pages |-> op[s].pages, rows |-> op[s].rows, names |-> op[s].names]
        BY <1>1 DEF IsStatement
    <2>5. o2 = [at |-> step, kind |-> op[s].kind, table |-> op[s].table,
                where |-> op[s].where, new |-> op[s].new, page |-> next,
                pages |-> op[s].pages, rows |-> op[s].rows, names |-> op[s].names]
        <3> HIDE DEF o1
        <3> QED
            BY <2>4
    <2> HIDE DEF op2, o2
    <2>6. [o2 EXCEPT !.rows = rows] = o
        BY <2>5
    <2> HIDE DEF o
    <2>7. op2[s] = o2
        BY <1>1, <2>3
    <2>8. op' = [op2 EXCEPT ![s] = o]
        BY <2>1, <2>6, <2>7
    <2> QED
        BY <1>1, <2>3, <2>8
<1>5. IsStatement(o)
    BY <1>1, <1>3 DEF IsStatement, Steps
<1>6. OpsTyped' /\ OnlyMoves(s) /\ op'[s] = o
    <2> HIDE DEF o
    <2> QED
        BY <1>4, <1>5, MoveIsTyped DEF Inv
<1>7. Using(s) /\ ~Using(s)' /\ op'[s].at \notin {"schema", "data"}
    BY <1>1, <1>3, <1>6 DEF Using, At
<1>8. PICK left, mark_dirty :
          /\ mark_dirty \in BOOLEAN
          /\ mark_dirty \/ left = buffer_pool[Key(s)].rows
          /\ unpin_page(Key(s), left, mark_dirty)
    BY DEF ScanPage, Leave
<1> QED
    BY <1>6, <1>7, <1>8, LeavingSteps

(* InsertRow and PutRow are Releases of the page store.                    *)
LEMMA RowSteps ==
    ASSUME Inv, NEW s \in Sessions, InsertRow(s) \/ PutRow(s)
    PROVE  Inv' /\ Store!Release(s)
<1>1. op[s] # Idle /\ op[s].at \in {"use", "put"}
    BY DEF InsertRow, PutRow, At
<1>2. PICK step \in {"done", "new"} : op' = [op EXCEPT ![s].at = step]
    BY DEF InsertRow, PutRow
<1>3. /\ OpsTyped' /\ OnlyMoves(s)
      /\ op'[s] # Idle /\ op'[s].at = step /\ op'[s].table = op[s].table
      /\ op'[s].kind = op[s].kind
    BY <1>1, <1>2, AtMoves DEF Steps
<1>4. Using(s) /\ ~Using(s)'
    BY <1>1, <1>3 DEF Using, At
<1>5. PICK left, mark_dirty :
          /\ mark_dirty \in BOOLEAN
          /\ mark_dirty \/ left = buffer_pool[Key(s)].rows
          /\ unpin_page(Key(s), left, mark_dirty)
    BY DEF InsertRow, PutRow, Leave
<1> QED
    BY <1>3, <1>4, <1>5, LeavingSteps

(* Steps that leave every page as it is.                                   *)
Unseen == Holder' = Holder /\ Contents' = Contents /\ disk' = disk

(* The end of a statement is not seen in the page store.                   *)
LEMMA EndingSteps ==
    ASSUME Inv, NEW s \in Sessions, Return(s) \/ AllPagesPinned(s)
    PROVE  Inv' /\ Unseen
<1>1. op[s] # Idle /\ op[s].at \in {"done", "get", "new"} /\ op' = [op EXCEPT ![s] = Idle]
      /\ UNCHANGED bufferVars
    BY DEF Return, AllPagesPinned, At
<1>2. OpsTyped' /\ OnlyMoves(s) /\ op'[s] = Idle
    BY <1>1, MoveIsTyped DEF Inv
<1>3. ~Using(s) /\ ~Using(s)'
    BY <1>1, <1>2 DEF Using, At
<1>4. ChangesAlone'
    BY <1>1, <1>2, GoingOnIsAlone
<1> QED
    BY <1>1, <1>2, <1>3, <1>4, QuietSteps DEF Unseen

(* Neither are the steps on the list of tables.                            *)
LEMMA CatalogSteps ==
    ASSUME Inv, NEW s \in Sessions,
           RemoveSchema(s) \/ RemoveMeta(s) \/ RenameMeta(s) \/ AddSchema(s)
    PROVE  Inv' /\ Unseen
<1>1. PICK step \in {"data", "rename", "add", "done"} :
          /\ op[s] # Idle /\ op[s].at \in {"schema", "remove", "rename", "add"}
          /\ step = "data" => op[s].at = "schema"
          /\ op' = [op EXCEPT ![s].at = step]
          /\ UNCHANGED bufferVars
    BY DEF RemoveSchema, RemoveMeta, RenameMeta, AddSchema, Proceed, At
<1>2. step = "data" => op[s].kind = "drop"
    BY <1>1 DEF Inv, OpsTyped, IsStatement
<1>3. /\ OpsTyped' /\ OnlyMoves(s)
      /\ op'[s] # Idle /\ op'[s].at = step /\ op'[s].table = op[s].table
      /\ op'[s].kind = op[s].kind
    BY <1>1, <1>2, AtMoves DEF Steps
<1>4. ~Using(s) /\ ~Using(s)'
    BY <1>1, <1>3 DEF Using, At
<1>5. ChangesAlone'
    BY <1>1, <1>3, GoingOnIsAlone
<1> QED
    BY <1>1, <1>3, <1>4, <1>5, QuietSteps DEF Unseen

(* A statement that begins is alone on its table if it changes it, and     *)
(* with readers if it reads.                                               *)
LEMMA BeginningIsAlone ==
    ASSUME Inv, NEW s \in Sessions, OnlyMoves(s), op[s] = Idle, NEW t, op'[s].table = t,
           On(t) = {} \/ (op'[s].kind = "select" /\ ~Writing(t))
    PROVE  ChangesAlone'
<1> SUFFICES ASSUME NEW x \in Active', NEW z \in Active', op'[x].table = op'[z].table,
                    op'[x].kind # "select", x # z
             PROVE  FALSE
    BY DEF ChangesAlone
<1>1. \A y \in Active' \ {s} : y \in Active /\ op'[y] = op[y]
    BY DEF Active, OnlyMoves
<1>2. CASE x = s
    <2>1. z \in On(t)
        BY <1>1, <1>2 DEF On
    <2> QED
        BY <1>2, <2>1
<1>3. CASE z = s
    <2>1. x \in On(t) /\ op[x].kind # "select"
        BY <1>1, <1>3 DEF On
    <2> QED
        BY <2>1 DEF Writing
<1>4. CASE x # s /\ z # s
    BY <1>1, <1>4 DEF Inv, ChangesAlone
<1> QED
    BY <1>2, <1>3, <1>4

(* A statement that begins without touching the pool.                      *)
LEMMA BeginningSteps ==
    ASSUME Inv, NEW s \in Sessions, op[s] = Idle, NEW o, IsStatement(o),
           o.at \notin {"use", "put", "schema", "data"},
           On(o.table) = {} \/ (o.kind = "select" /\ ~Writing(o.table)),
           op' = [op EXCEPT ![s] = o], UNCHANGED bufferVars
    PROVE  Inv' /\ Unseen
<1>1. OpsTyped' /\ OnlyMoves(s) /\ op'[s] = o
    BY MoveIsTyped DEF Inv
<1>2. ~Using(s) /\ ~Using(s)'
    BY <1>1 DEF Using, At
<1>3. ChangesAlone'
    BY <1>1, BeginningIsAlone
<1> QED
    BY <1>1, <1>2, <1>3, QuietSteps DEF Unseen

(* Neither is the begin of a scan.                                         *)
LEMMA ScanSteps ==
    ASSUME Inv, NEW s \in Sessions, NEW t \in Tables, NEW kind \in {"select", "update", "delete"},
           NEW where, NEW new, Scan(s, kind, t, where, new),
           op[s] = Idle, ~Writing(t), On(t) = {} \/ kind = "select"
    PROVE  Inv' /\ Unseen
<1> DEFINE n == get_max_page_id(t)
           step == IF n = -1 THEN "done" ELSE "get"
           o == [at |-> step, kind |-> kind, table |-> t, where |-> where, new |-> new,
                 page |-> 0, pages |-> n + 1, rows |-> <<>>, names |-> {}]
<1>1. n \in -1..(MaxPages - 1)
    BY LastPage DEF Inv, PoolInv
<1>2. op' = [op EXCEPT ![s] = o] /\ UNCHANGED bufferVars
    BY DEF Scan, Started
<1>3. IsStatement(o)
    BY <1>1, BufferAssumption DEF IsStatement, Steps, Kinds
<1> QED
    BY <1>2, <1>3, BeginningSteps

(* Neither is the begin of an INSERT.                                      *)
LEMMA InsertSteps ==
    ASSUME Inv, NEW s \in Sessions, NEW t \in Tables, NEW row, write_block_insert(s, t, row)
    PROVE  Inv' /\ Unseen
<1> DEFINE n == get_max_page_id(t)
           step == IF n = -1 THEN "new" ELSE "get"
           o == [at |-> step, kind |-> "insert", table |-> t, where |-> {}, new |-> row,
                 page |-> n, pages |-> n + 1, rows |-> <<>>, names |-> {}]
<1>1. n \in -1..(MaxPages - 1)
    BY LastPage DEF Inv, PoolInv
<1>2. op' = [op EXCEPT ![s] = o] /\ UNCHANGED bufferVars /\ op[s] = Idle /\ On(t) = {}
    BY DEF write_block_insert, Started, Ready
<1>3. IsStatement(o)
    BY <1>1, BufferAssumption DEF IsStatement, Steps, Kinds
<1> QED
    BY <1>2, <1>3, BeginningSteps

(* Neither is the begin of a CREATE.                                       *)
LEMMA CreateSteps ==
    ASSUME Inv, NEW s \in Sessions, NEW t \in Tables, create_table(s, t)
    PROVE  Inv' /\ Unseen
<1> DEFINE o(step, names) == [at |-> step, kind |-> "create", table |-> t, where |-> {},
                new |-> AnyRow, page |-> 0, pages |-> 0, rows |-> <<>>, names |-> names]
<1>1. PICK step, names : step \in {"remove", "add"} /\ op' = [op EXCEPT ![s] = o(step, names)]
    BY DEF create_table, DDLStarted
<1>2. UNCHANGED bufferVars /\ op[s] = Idle /\ On(t) = {}
    BY DEF create_table
<1>3. IsStatement(o(step, names))
    BY <1>1, BufferAssumption DEF IsStatement, Steps, Kinds
<1> QED
    BY <1>1, <1>2, <1>3, BeginningSteps

(* The begin of a DROP is a Discard of the page store.                     *)
LEMMA DropSteps ==
    ASSUME Inv, NEW s \in Sessions, NEW t \in Tables, drop_table(s, t)
    PROVE  Inv' /\ Store!Discard(t)
<1> DEFINE o(step, names) == [at |-> step, kind |-> "drop", table |-> t, where |-> {},
                new |-> AnyRow, page |-> 0, pages |-> 0, rows |-> <<>>, names |-> names]
<1>1. PICK step, names : step \in {"schema", "done"} /\ op' = [op EXCEPT ![s] = o(step, names)]
    BY DEF drop_table, DDLStarted
<1>2. evict_table_without_flush(t) /\ op[s] = Idle /\ On(t) = {}
    BY DEF drop_table
<1>3. IsStatement(o(step, names))
    BY <1>1, BufferAssumption DEF IsStatement, Steps, Kinds
<1>4. OpsTyped' /\ OnlyMoves(s) /\ op'[s] = o(step, names)
    <2> HIDE DEF o
    <2> QED
        BY <1>1, <1>3, MoveIsTyped DEF Inv
<1>5. ~Using(s) /\ ~Using(s)'
    BY <1>1, <1>2, <1>4 DEF Using, At
<1>6. \A k : Users(k)' = Users(k)
    BY <1>4, <1>5, UsersOfOthers DEF Users
<1>7. ChangesAlone'
    BY <1>2, <1>4, BeginningIsAlone
<1>8. /\ PoolInv' /\ disk' = disk
      /\ \A j \in Addresses :
            /\ View(j)' = IF j[1] = t THEN disk[j] ELSE View(j)
            /\ buffer_pool'[j].pin_count = IF j[1] = t THEN -1 ELSE buffer_pool[j].pin_count
    BY <1>2, EvictTableKeeps DEF Inv, evict_table_without_flush
<1>9. \A z \in Sessions : Using(z) => op[z].table # t
    BY <1>2 DEF On, Using, At, Active
<1>10. PinsExact'
    <2> SUFFICES ASSUME NEW k \in Addresses
                 PROVE  /\ IsFiniteSet(Users(k)')
                        /\ IF k \in Resident' THEN buffer_pool'[k].pin_count = Cardinality(Users(k)')
                           ELSE Users(k)' = {}
        BY DEF PinsExact
    <2>1. CASE k[1] = t
        <3>1. Users(k)' = {} /\ k \notin Resident'
            BY <1>6, <1>8, <1>9, <2>1 DEF Users, Key, Resident
        <3> QED
            BY <3>1, FS_EmptySet
    <2>2. CASE k[1] # t
        BY <1>6, <1>8, <2>2 DEF Inv, PinsExact, Resident
    <2> QED
        BY <2>1, <2>2
<1>11. DropsEmpty'
    <2> SUFFICES ASSUME NEW z \in Active', op'[z].at \in {"schema", "data"}, NEW k \in Resident',
                        k[1] = op'[z].table
                 PROVE  FALSE
        BY DEF DropsEmpty
    <2>1. k \in Resident /\ k[1] # t
        BY <1>8 DEF Resident
    <2>2. z # s
        BY <1>4, <2>1
    <2>3. z \in Active /\ op'[z] = op[z]
        BY <1>4, <2>2 DEF Active, OnlyMoves
    <2> QED
        BY <2>1, <2>3 DEF Inv, DropsEmpty
<1>12. Holder' = Holder
    BY <1>4, <1>5, HolderOfOthers DEF Holder
<1>13. Store!Discard(t)
    <2>1. Store!Addresses = Addresses
        BY DEF Store!Addresses, Addresses
    <2>2. ~Store!Held(t)
        BY <1>9 DEF Store!Held, Store!Free, Key
    <2>3. Contents' = [p \in Addresses |-> IF p[1] = t THEN disk[p] ELSE Contents[p]]
        BY <1>8 DEF Contents
    <2> QED
        BY <1>8, <1>12, <2>1, <2>2, <2>3 DEF Store!Discard, Contents, Holder
<1> QED
    BY <1>4, <1>7, <1>8, <1>10, <1>11, <1>13 DEF Inv

(* The removal of a file is a Delete of the page store.                    *)
LEMMA RemoveDataSteps ==
    ASSUME Inv, NEW s \in Sessions, RemoveData(s)
    PROVE  Inv' /\ \E t \in Tables : Store!Delete(t)
<1>1. /\ op[s] # Idle /\ op[s].at = "data" /\ op[s].kind = "drop"
      /\ op' = [op EXCEPT ![s].at = "remove"]
    BY DEF RemoveData, Proceed, At, Inv, OpsTyped, IsStatement
<1>2. PICK t \in Tables : t = op[s].table
    BY <1>1 DEF Inv, OpsTyped, IsStatement
<1>3. /\ OpsTyped' /\ OnlyMoves(s)
      /\ op'[s] # Idle /\ op'[s].at = "remove" /\ op'[s].table = op[s].table
      /\ op'[s].kind = op[s].kind
    BY <1>1, AtMoves DEF Steps
<1>4. ~Using(s) /\ ~Using(s)'
    BY <1>1, <1>3 DEF Using, At
<1>5. ChangesAlone'
    BY <1>1, <1>3, GoingOnIsAlone
<1>6. RemoveFile(t) /\ \A k \in Resident : k[1] # t
    BY <1>1, <1>2 DEF RemoveData, Inv, DropsEmpty, Active
<1>7. PoolInv' /\ \A j \in Addresses : View(j)' = IF j[1] = t THEN <<>> ELSE View(j)
    BY <1>6, RemoveFileKeeps DEF Inv
<1>8. buffer_pool' = buffer_pool /\ Resident' = Resident
    BY <1>6 DEF RemoveFile, Resident
<1>9. \A k : Users(k)' = Users(k)
    BY <1>3, <1>4, UsersOfOthers DEF Users
<1>10. PinsExact'
    BY <1>8, <1>9 DEF Inv, PinsExact
<1>11. DropsEmpty'
    BY <1>3, <1>8 DEF Inv, DropsEmpty, OnlyMoves, Active
<1>12. Holder' = Holder
    BY <1>3, <1>4, HolderOfOthers DEF Holder
<1>13. Store!Delete(t)
    <2>1. Store!Addresses = Addresses
        BY DEF Store!Addresses, Addresses
    <2>2. ~Store!Held(t)
        <3>1. \A z \in Sessions : Using(z) => op[z].table # t
            BY <1>1, <1>2, <1>4 DEF Inv, ChangesAlone, Active, Using, At
        <3> QED
            BY <3>1 DEF Store!Held, Store!Free, Key
    <2>3. Contents' = [p \in Addresses |-> IF p[1] = t THEN <<>> ELSE Contents[p]]
        BY <1>7 DEF Contents
    <2>4. disk' = [p \in Addresses |-> IF p[1] = t THEN <<>> ELSE disk[p]]
        BY <1>6 DEF RemoveFile
    <2> QED
        BY <1>12, <2>1, <2>2, <2>3, <2>4 DEF Store!Delete, Contents, Holder
<1> QED
    BY <1>3, <1>5, <1>7, <1>10, <1>11, <1>13 DEF Inv

(* A checkpoint is a Sync of the page store.                               *)
LEMMA CheckpointSteps ==
    ASSUME Inv, Checkpoint
    PROVE  Inv' /\ Store!Sync
<1>1. op' = op /\ checkpoint
    BY DEF Checkpoint
<1>2. /\ PoolInv'
      /\ \A j \in Addresses :
            /\ buffer_pool'[j].pin_count = buffer_pool[j].pin_count
            /\ View(j)' = IF j \in Resident THEN View(j) ELSE disk[j]
            /\ Sound(View(j)) => disk'[j] = View(j)
    BY <1>1, CheckpointKeeps DEF Inv
<1>3. (\A k : Users(k)' = Users(k)) /\ Holder' = Holder
    BY <1>1 DEF Users, Holder, Using, At, Key
<1>4. Resident' = Resident
    BY <1>2 DEF Resident
<1>5. OpsTyped' /\ ChangesAlone' /\ DropsEmpty'
    BY <1>1, <1>4 DEF Inv, OpsTyped, ChangesAlone, DropsEmpty, Active
<1>6. PinsExact'
    BY <1>2, <1>3, <1>4 DEF Inv, PinsExact
<1>7. \A j \in Addresses : View(j)' = View(j)
    BY <1>2 DEF View, Resident
<1>8. Store!Sync
    <2>1. Store!Addresses = Addresses
        BY DEF Store!Addresses, Addresses
    <2> QED
        BY <1>2, <1>3, <1>7, <2>1 DEF Store!Sync, Holder
<1> QED
    BY <1>2, <1>5, <1>6, <1>8 DEF Inv

(* A crash is a Crash of the page store.                                   *)
LEMMA CrashSteps ==
    ASSUME Inv, Crash
    PROVE  Inv' /\ Store!Crash
<1>1. op' = [s \in Sessions |-> Idle] /\ LosePool
    BY DEF Crash
<1>2. /\ PoolInv' /\ disk' = disk
      /\ \A j \in Addresses : View(j)' = disk[j] /\ buffer_pool'[j].pin_count = -1
    BY <1>1, LosePoolKeeps DEF Inv, LosePool
<1>3. Active' = {} /\ Resident' = {} /\ (\A s \in Sessions : ~Using(s)')
    BY <1>1, <1>2 DEF Active, Resident, Using, At
<1>4. \A k : Users(k)' = {}
    BY <1>3 DEF Users
<1>5. OpsTyped' /\ ChangesAlone' /\ DropsEmpty'
    BY <1>1, <1>3 DEF OpsTyped, ChangesAlone, DropsEmpty
<1>6. PinsExact'
    BY <1>3, <1>4, FS_EmptySet DEF PinsExact
<1>7. Store!Crash
    <2>1. Holder' = [s \in Sessions |-> <<>>]
        BY <1>3 DEF Holder
    <2>2. Contents' = disk
        BY <1>2 DEF Contents, Inv, PoolInv, PoolTyped
    <2> QED
        BY <1>2, <2>1, <2>2 DEF Store!Crash, Store!Free, Contents, Holder
<1> QED
    BY <1>2, <1>5, <1>6, <1>7 DEF Inv

-----------------------------------------------------------------------------
(* The specification.                                                      *)

(* The initial states have the invariant, and are those of the page store. *)
LEMMA InitEstablishes == Init => Inv /\ Store!Init
<1> SUFFICES ASSUME Init PROVE Inv /\ Store!Init
    OBVIOUS
<1>1. /\ op = [s \in Sessions |-> Idle]
      /\ buffer_pool = [k \in Addresses |-> NotLoaded]
      /\ disk = InitialContents /\ file_pages = [t \in Tables |-> Len(InitialPages[t])]
    BY DEF Init
<1>2. Active = {} /\ Resident = {} /\ \A s \in Sessions : ~Using(s)
    BY <1>1, NotLoadedIsPage DEF Active, Resident, Using, At
<1>3. PoolTyped /\ CleanIsOnDisk
    <2>1. IsPool(buffer_pool)
        BY <1>1, NotLoadedIsPage DEF IsPool
    <2>2. disk = [k \in Addresses |-> disk[k]]
        BY <1>1 DEF InitialContents
    <2>3. file_pages \in [Tables -> 0..MaxPages]
        BY <1>1, StorageAssumption, BufferAssumption
    <2> QED
        BY <1>2, <2>1, <2>2, <2>3 DEF PoolTyped, CleanIsOnDisk
<1>4. FilesEnd
    <2> SUFFICES ASSUME NEW k \in Addresses, k[2] >= file_pages[k[1]] PROVE disk[k] = <<>>
        BY DEF FilesEnd
    <2>1. k[1] \in Tables /\ k[2] \in Nat
        BY DEF Addresses
    <2>2. file_pages[k[1]] = Len(InitialPages[k[1]]) /\ file_pages[k[1]] \in Nat
        BY <1>1, <2>1, StorageAssumption
    <2> QED
        BY <1>1, <2>1, <2>2 DEF InitialContents
<1>5. OpsTyped /\ ChangesAlone /\ DropsEmpty
    BY <1>1, <1>2 DEF OpsTyped, ChangesAlone, DropsEmpty
<1>6. PinsExact
    <2>1. \A k : Users(k) = {}
        BY <1>2 DEF Users
    <2> QED
        BY <1>2, <2>1, FS_EmptySet DEF PinsExact
<1>7. Store!Init
    <2>1. Holder = [s \in Sessions |-> <<>>]
        BY <1>2 DEF Holder
    <2>2. Contents = InitialContents
        BY <1>1, <1>2 DEF Contents, View, Resident, InitialContents
    <2> QED
        BY <1>1, <2>1, <2>2 DEF Store!Init, Store!Free, Contents, Holder
<1> QED
    BY <1>3, <1>4, <1>5, <1>6, <1>7 DEF Inv, PoolInv

(* The steps of a session keep the invariant.                              *)
LEMMA SessionSteps ==
    ASSUME Inv, NEW s \in Sessions, Continue(s) \/ \E t \in Tables : Begin(s, t)
    PROVE  Inv' /\ (Store!Next \/ Unseen)
<1>1. CASE GetPage(s) \/ NewPage(s)
    <2>1. Inv' /\ \E k \in Addresses : Store!Acquire(s, k)
        BY <1>1, GetPageSteps, NewPageSteps
    <2>2. Store!Addresses = Addresses
        BY DEF Store!Addresses, Addresses
    <2> QED
        BY <2>1, <2>2 DEF Store!Next
<1>2. CASE ScanPage(s) \/ InsertRow(s) \/ PutRow(s)
    <2>1. Inv' /\ Store!Release(s)
        BY <1>2, ScanPageSteps, RowSteps
    <2> QED
        BY <2>1 DEF Store!Next
<1>3. CASE Return(s) \/ AllPagesPinned(s)
    BY <1>3, EndingSteps
<1>4. CASE RemoveSchema(s) \/ RemoveMeta(s) \/ RenameMeta(s) \/ AddSchema(s)
    BY <1>4, CatalogSteps
<1>5. CASE RemoveData(s)
    BY <1>5, RemoveDataSteps DEF Store!Next
<1>6. ASSUME NEW t \in Tables, Begin(s, t)
      PROVE  Inv' /\ (Store!Next \/ Unseen)
    <2>1. ASSUME NEW where, full_scan(s, t, where)
          PROVE  Inv' /\ Unseen
        BY <2>1, ScanSteps DEF full_scan, Ready
    <2>2. ASSUME NEW where, delete_block(s, t, where)
          PROVE  Inv' /\ Unseen
        BY <2>2, ScanSteps DEF delete_block, Ready
    <2>3. ASSUME NEW where, NEW new, write_block_update(s, t, where, new)
          PROVE  Inv' /\ Unseen
        BY <2>3, ScanSteps DEF write_block_update, Ready
    <2>4. ASSUME NEW row, write_block_insert(s, t, row)
          PROVE  Inv' /\ Unseen
        BY <2>4, InsertSteps
    <2>5. CASE create_table(s, t)
        BY <2>5, CreateSteps
    <2>6. CASE drop_table(s, t)
        BY <2>6, DropSteps DEF Store!Next
    <2> QED
        BY <1>6, <2>1, <2>2, <2>3, <2>4, <2>5, <2>6 DEF Begin
<1> QED
    BY <1>1, <1>2, <1>3, <1>4, <1>5, <1>6 DEF Continue

(* Every step keeps the invariant, and is one of the page store or a       *)
(* stutter.                                                                *)
LEMMA EveryStep == Inv /\ [Next]_vars => Inv' /\ [Store!Next]_(Store!vars)
<1> SUFFICES ASSUME Inv, [Next]_vars PROVE Inv' /\ [Store!Next]_(Store!vars)
    OBVIOUS
<1>1. Unseen => UNCHANGED Store!vars
    BY DEF Unseen, Store!vars, Contents, Holder
<1>2. CASE \E s \in Sessions : Continue(s) \/ \E t \in Tables : Begin(s, t)
    BY <1>1, <1>2, SessionSteps
<1>3. CASE Checkpoint
    BY <1>3, CheckpointSteps DEF Store!Next
<1>4. CASE Crash
    BY <1>4, CrashSteps DEF Store!Next
<1>5. CASE UNCHANGED vars
    <2>1. op' = op /\ buffer_pool' = buffer_pool /\ disk' = disk /\ file_pages' = file_pages
        BY <1>5 DEF vars, bufferVars
    <2>2. Active' = Active /\ Resident' = Resident
        BY <2>1 DEF Active, Resident
    <2>3. (\A k : Users(k)' = Users(k)) /\ Unseen
        BY <2>1 DEF Users, Using, At, Key, Unseen, Holder, Contents, View
    <2>4. Inv'
        BY <2>1, <2>2, <2>3
           DEF Inv, PoolInv, PoolTyped, CleanIsOnDisk, FilesEnd, OpsTyped, ChangesAlone,
               DropsEmpty, PinsExact
    <2> QED
        BY <1>1, <2>3, <2>4
<1> QED
    BY <1>2, <1>3, <1>4, <1>5 DEF Next

(* Whatever the sessions do, and whenever the process dies, a page in the  *)
(* pool is pinned once by every session that works on it and by nobody     *)
(* else, so that evict_page takes no page from under a pointer.            *)
THEOREM PinsAlwaysAgree == Spec => []PinsAgree
<1>1. Inv => PinsAgree
    BY DEF Inv, PinsExact, PinsAgree
<1> QED
    BY InitEstablishes, EveryStep, <1>1, PTL DEF Spec

(* The buffer manager under the storage engine is a page store: no         *)
(* eviction, flush or reload changes a sound page in the eyes of the       *)
(* sessions, and a checkpoint or an eviction puts its last contents on the *)
(* disk.                                                                   *)
THEOREM PoolIsAPageStore == Spec => ImplementsPageStore
<1>1. Init => Store!Init
    BY InitEstablishes
<1> QED
    BY InitEstablishes, EveryStep, <1>1, PTL DEF Spec, ImplementsPageStore, Store!Spec

(* What Matching and Without do with one more row.                         *)
LEMMA MatchingStep ==
    ASSUME NEW where
    PROVE  /\ \A rows \in Seq(Rows) : Matching(rows, where) \in Seq(Rows)
           /\ Matching(<<>>, where) = <<>>
           /\ \A rows \in Seq(Rows) : \A r \in Rows :
                  Matching(Append(rows, r), where) =
                      Matching(rows, where) \o (IF r \in where THEN <<r>> ELSE <<>>)
<1> DEFINE X == Seq(Rows)
           step == [r \in Rows |-> [kept \in X |-> IF r \in where THEN Append(kept, r) ELSE kept]]
<1>1. Moves(X, Rows, step) /\ <<>> \in X
    <2>1. \A r \in Rows : \A kept \in X : Append(kept, r) \in X
        OBVIOUS
    <2> QED
        BY <2>1 DEF Moves
<1>2. ASSUME NEW rows \in Seq(Rows)
      PROVE  Matching(rows, where) = LeftFold(step, <<>>, rows)
    <2> DEFINE Fits(f) == f = [t \in SUBSET (DOMAIN rows) |->
                    IF t = {} THEN <<>>
                    ELSE IF rows[Max(t)] \in where THEN Append(f[t \ {Max(t)}], rows[Max(t)])
                         ELSE f[t \ {Max(t)}]]
               c == CHOOSE f : Fits(f)
    <2>1. Matching(rows, where) = c[DOMAIN rows]
        BY DEF Matching, FoldLeft, MapThenFoldSet
    <2>2. \E f : Fits(f)
        <3> HIDE DEF step
        <3>1. PICK f : LeftValues(X, Rows, step, <<>>, rows, f)
            BY <1>1, LeftFoldHas
        <3>2. DOMAIN rows = 1..Len(rows)
            OBVIOUS
        <3>3. ASSUME NEW t \in SUBSET (1..Len(rows)), t # {}
              PROVE  f[t] = IF rows[Max(t)] \in where THEN Append(f[t \ {Max(t)}], rows[Max(t)])
                            ELSE f[t \ {Max(t)}]
            <4>1. /\ rows[Max(t)] \in Rows /\ f[t \ {Max(t)}] \in X
                  /\ f[t] = step[rows[Max(t)]][f[t \ {Max(t)}]]
                BY <3>1, <3>3 DEF LeftValues
            <4> HIDE DEF X
            <4> QED
                BY <4>1 DEF step
        <3>4. f \in [SUBSET (1..Len(rows)) -> X] /\ f[{}] = <<>>
            BY <3>1 DEF LeftValues
        <3>5. Fits(f)
            <4> HIDE DEF X
            <4> QED
                BY <3>2, <3>3, <3>4
        <3> QED
            BY <3>5
    <2>3. Fits(c)
        <3> HIDE DEF Fits
        <3> QED
            BY <2>2
    <2>4. c[{}] = <<>>
        BY <2>3
    <2>5. ASSUME NEW n \in 1..Len(rows), c[1..(n - 1)] \in X
          PROVE  c[1..n] = step[rows[n]][c[1..(n - 1)]]
        <3>1. Max(1..n) = n /\ (1..n) \ {n} = 1..(n - 1) /\ 1..n # {}
            BY InitialPart
        <3>2. 1..n \in SUBSET (DOMAIN rows) /\ rows[n] \in Rows
            OBVIOUS
        <3>3. c[1..n] = IF rows[n] \in where THEN Append(c[1..(n - 1)], rows[n])
                        ELSE c[1..(n - 1)]
            <4> HIDE DEF c
            <4> QED
                BY <2>3, <3>1, <3>2
        <3> HIDE DEF X
        <3> QED
            BY <2>5, <3>2, <3>3
    <2> HIDE DEF c, step, X
    <2>6. c[DOMAIN rows] = LeftFold(step, <<>>, rows)
        BY <1>1, <2>4, <2>5, LeftFoldFrom
    <2> QED
        BY <2>1, <2>6
<1>3. ASSUME NEW rows \in Seq(Rows), NEW r \in Rows
      PROVE  /\ Matching(rows, where) \in X /\ Matching(<<>>, where) = <<>>
             /\ Matching(Append(rows, r), where) =
                    Matching(rows, where) \o (IF r \in where THEN <<r>> ELSE <<>>)
    <2>1. Append(rows, r) \in Seq(Rows) /\ <<>> \in Seq(Rows)
        OBVIOUS
    <2>2. /\ Matching(rows, where) = LeftFold(step, <<>>, rows)
          /\ Matching(<<>>, where) = LeftFold(step, <<>>, <<>>)
          /\ Matching(Append(rows, r), where) = LeftFold(step, <<>>, Append(rows, r))
        BY <1>2, <2>1
    <2>3. /\ LeftFold(step, <<>>, rows) \in X
          /\ LeftFold(step, <<>>, <<>>) = <<>>
          /\ LeftFold(step, <<>>, Append(rows, r)) = step[r][LeftFold(step, <<>>, rows)]
        <3> HIDE DEF step, X
        <3> QED
            BY <1>1, LeftFoldLaws
    <2> DEFINE kept == LeftFold(step, <<>>, rows)
    <2>4. step[r][kept] = IF r \in where THEN Append(kept, r) ELSE kept
        <3> HIDE DEF kept
        <3> QED
            BY <2>3 DEF kept
    <2>5. kept \in Seq(Rows)
        BY <2>3
    <2> HIDE DEF kept
    <2>6. Append(kept, r) = kept \o <<r>> /\ kept = kept \o <<>>
        BY <2>5
    <2> HIDE DEF step
    <2> QED
        BY <2>2, <2>3, <2>4, <2>6 DEF kept
<1>4. AnyRow \in Rows /\ <<>> \in Seq(Rows)
    BY StorageAssumption DEF AnyRow
<1>5. \A rows \in Seq(Rows) : Matching(rows, where) \in Seq(Rows)
    BY <1>3, <1>4
<1>6. Matching(<<>>, where) = <<>>
    BY <1>3, <1>4
<1> HIDE DEF step
<1> QED
    BY <1>3, <1>5, <1>6

(* Choosing, removing and replacing rows go through concatenation.         *)
LEMMA MatchingDistributes ==
    ASSUME NEW where
    PROVE  Distributes(Rows, [rows \in Seq(Rows) |-> Matching(rows, where)])
<1> DEFINE h == [rows \in Seq(Rows) |-> Matching(rows, where)]
           g == [r \in Rows |-> IF r \in where THEN <<r>> ELSE <<>>]
<1>1. <<>> \in Seq(Rows) /\ \A r \in Rows : <<r>> \in Seq(Rows)
    OBVIOUS
<1>2. h \in [Seq(Rows) -> Seq(Rows)] /\ h[<<>>] = <<>> /\ g \in [Rows -> Seq(Rows)]
    BY <1>1, MatchingStep
<1>3. ASSUME NEW s \in Seq(Rows), NEW r \in Rows PROVE h[Append(s, r)] = h[s] \o g[r]
    <2>1. Append(s, r) \in Seq(Rows)
        OBVIOUS
    <2>2. Matching(Append(s, r), where) =
              Matching(s, where) \o (IF r \in where THEN <<r>> ELSE <<>>)
        BY MatchingStep
    <2> QED
        BY <2>1, <2>2
<1> HIDE DEF h, g
<1>4. Distributes(Rows, h)
    BY <1>2, <1>3, DistributesWhen
<1> QED
    BY <1>4 DEF h

Replacing(r, where, new) == IF r \in where THEN new ELSE r

(* Replaced maps sequences of rows to sequences of rows, the empty one to  *)
(* itself.                                                                 *)
LEMMA ReplacedStep ==
    ASSUME NEW where, NEW new \in Rows
    PROVE  /\ \A rows \in Seq(Rows) : Replaced(rows, where, new) \in Seq(Rows)
           /\ Replaced(<<>>, where, new) = <<>>
           /\ \A rows \in Seq(Rows) : \A r \in Rows :
                  Replaced(Append(rows, r), where, new) =
                      Replaced(rows, where, new) \o <<Replacing(r, where, new)>>
<1>1. \A rows \in Seq(Rows) : Replaced(rows, where, new) \in Seq(Rows)
    BY DEF Replaced
<1>2. Replaced(<<>>, where, new) = <<>>
    BY DEF Replaced
<1>3. ASSUME NEW rows \in Seq(Rows), NEW r \in Rows
      PROVE  Replaced(Append(rows, r), where, new) =
                 Replaced(rows, where, new) \o <<Replacing(r, where, new)>>
    <2> DEFINE x == Replacing(r, where, new)
               a == Replaced(rows, where, new)
               N == Len(rows)
               lhs == Replaced(Append(rows, r), where, new)
    <2>1. x \in Rows /\ N \in Nat
        BY DEF Replacing
    <2>2. a \in Seq(Rows) /\ Len(a) = N /\ \A i \in 1..N :
              a[i] = IF rows[i] \in where THEN new ELSE rows[i]
        BY <1>1 DEF Replaced
    <2>3. lhs \in Seq(Rows) /\ Len(lhs) = N + 1 /\ lhs[N + 1] = x /\ \A i \in 1..N :
              lhs[i] = IF rows[i] \in where THEN new ELSE rows[i]
        BY <1>1 DEF Replaced, Replacing
    <2> HIDE DEF x, a, N, lhs
    <2>4. a \o <<x>> \in Seq(Rows) /\ Len(a \o <<x>>) = N + 1 /\ (a \o <<x>>)[N + 1] = x
          /\ \A i \in 1..N : (a \o <<x>>)[i] = a[i]
        BY <2>1, <2>2
    <2>5. \A i \in 1..(N + 1) : i \in 1..N \/ i = N + 1
        BY <2>1
    <2>6. \A i \in 1..(N + 1) : lhs[i] = (a \o <<x>>)[i]
        BY <2>2, <2>3, <2>4, <2>5
    <2>7. lhs = [i \in 1..(N + 1) |-> lhs[i]] /\ a \o <<x>> = [i \in 1..(N + 1) |-> (a \o <<x>>)[i]]
        BY <2>1, <2>3, <2>4
    <2>8. lhs = a \o <<x>>
        BY <2>6, <2>7
    <2> QED
        BY <2>8 DEF lhs, a, x
<1> QED
    BY <1>1, <1>2, <1>3

(* Replaced goes through concatenation.                                    *)
LEMMA ReplacedDistributes ==
    ASSUME NEW where, NEW new \in Rows
    PROVE  Distributes(Rows, [rows \in Seq(Rows) |-> Replaced(rows, where, new)])
<1> DEFINE h == [rows \in Seq(Rows) |-> Replaced(rows, where, new)]
           g == [r \in Rows |-> <<Replacing(r, where, new)>>]
<1>1. <<>> \in Seq(Rows) /\ \A r \in Rows : <<r>> \in Seq(Rows)
    OBVIOUS
<1>2. h \in [Seq(Rows) -> Seq(Rows)] /\ h[<<>>] = <<>> /\ g \in [Rows -> Seq(Rows)]
    <2>1. \A r \in Rows : Replacing(r, where, new) \in Rows
        BY DEF Replacing
    <2>2. g \in [Rows -> Seq(Rows)]
        BY <1>1, <2>1
    <2>3. h \in [Seq(Rows) -> Seq(Rows)] /\ h[<<>>] = <<>>
        BY <1>1, ReplacedStep
    <2> QED
        BY <2>2, <2>3
<1>3. ASSUME NEW s \in Seq(Rows), NEW r \in Rows PROVE h[Append(s, r)] = h[s] \o g[r]
    <2>1. Append(s, r) \in Seq(Rows)
        OBVIOUS
    <2>2. Replaced(Append(s, r), where, new) =
              Replaced(s, where, new) \o <<Replacing(r, where, new)>>
        BY ReplacedStep
    <2> QED
        BY <2>1, <2>2
<1> HIDE DEF h, g
<1>4. Distributes(Rows, h)
    BY <1>2, <1>3, DistributesWhen
<1> QED
    BY <1>4 DEF h

(* A page without a row that matches stays as it is.                       *)
LEMMA NoMatchNoChange ==
    ASSUME NEW where, NEW new \in Rows
    PROVE  \A rows \in Seq(Rows) : Matching(rows, where) = <<>> =>
               Without(rows, where) = rows /\ Replaced(rows, where, new) = rows
<1> DEFINE S == {rows \in Seq(Rows) : Matching(rows, where) = <<>> =>
                    Without(rows, where) = rows /\ Replaced(rows, where, new) = rows}
<1>1. <<>> \in S
    BY MatchingStep, ReplacedStep DEF Without
<1>2. ASSUME NEW rows \in S, NEW r \in Rows PROVE Append(rows, r) \in S
    <2>1. rows \in Seq(Rows)
        OBVIOUS
    <2>2. Append(rows, r) \in Seq(Rows) /\ Append(rows, r) = rows \o <<r>>
        BY <2>1
    <2>3. SUFFICES ASSUME Matching(Append(rows, r), where) = <<>>
                   PROVE  /\ Without(Append(rows, r), where) = Append(rows, r)
                          /\ Replaced(Append(rows, r), where, new) = Append(rows, r)
        BY <2>2
    <2> DEFINE m == Matching(rows, where)
    <2>4. m \in Seq(Rows) /\ m \o (IF r \in where THEN <<r>> ELSE <<>>) = <<>>
        BY <2>1, <2>3, MatchingStep
    <2> HIDE DEF m
    <2>5. r \notin where
        BY <2>4
    <2>6. m = <<>>
        BY <2>4, <2>5
    <2>7. Without(rows, where) = rows /\ Replaced(rows, where, new) = rows
        BY <2>6 DEF m
    <2>8. Without(Append(rows, r), where) = Without(rows, where) \o <<r>>
        <3> DEFINE w == Rows \ where
        <3>1. r \in w /\ Without(Append(rows, r), where) = Matching(Append(rows, r), w)
              /\ Without(rows, where) = Matching(rows, w)
            BY <2>5 DEF Without
        <3> HIDE DEF w
        <3>2. Matching(Append(rows, r), w) =
                  Matching(rows, w) \o (IF r \in w THEN <<r>> ELSE <<>>)
            BY <2>1, MatchingStep
        <3> QED
            BY <3>1, <3>2
    <2>9. Replaced(Append(rows, r), where, new) = Replaced(rows, where, new) \o <<r>>
        <3>1. Replaced(Append(rows, r), where, new) =
                  Replaced(rows, where, new) \o <<Replacing(r, where, new)>>
            BY <2>1, ReplacedStep
        <3>2. Replacing(r, where, new) = r
            BY <2>5 DEF Replacing
        <3> QED
            BY <3>1, <3>2
    <2> QED
        BY <2>2, <2>7, <2>8, <2>9
<1>3. S \in SUBSET Seq(Rows)
    OBVIOUS
<1> HIDE DEF S
<1>4. \A rows \in Seq(Rows) : rows \in S
    BY <1>1, <1>2, <1>3, SequenceInduct
<1> QED
    BY <1>4 DEF S

(* An empty page comes back from the disk.                                 *)
LEMMA EmptyIsSound == Sound(<<>>)
<1>1. Writable(<<>>)
    BY DEF Writable
<1>2. Bytes(<<>>) = 0
    <2> DEFINE Fits(f) == f = [t \in SUBSET (DOMAIN <<>>) |->
                    IF t = {} THEN 0 ELSE f[t \ {Max(t)}] + RowSize[<<>>[Max(t)]]]
               c == CHOOSE f : Fits(f)
    <2>1. Bytes(<<>>) = c[DOMAIN <<>>]
        BY DEF Bytes, FoldLeft, MapThenFoldSet
    <2>2. DOMAIN <<>> = {}
        OBVIOUS
    <2>3. Fits([t \in SUBSET {} |-> 0])
        BY <2>2
    <2>4. Fits(c)
        <3> HIDE DEF Fits
        <3> QED
            BY <2>3
    <2>5. c[{}] = 0
        <3> HIDE DEF c
        <3> QED
            BY <2>2, <2>4
    <2> QED
        BY <2>1, <2>2, <2>5
<1>3. SubSeq(<<>>, 1, 0) = <<>> /\ Len(<<>>) = 0
    OBVIOUS
<1>4. ReadBack(<<>>, 0)
    <2>1. Bytes(SubSeq(<<>>, 1, 0)) = 0
        BY <1>2, <1>3
    <2>2. 0 <= PageSize /\ 1..0 = {}
        BY BufferAssumption
    <2> QED
        BY <2>1, <2>2 DEF ReadBack
<1> QED
    BY <1>1, <1>3, <1>4 DEF Sound

(* What comes back from the disk is a sequence of rows.                    *)
LEMMA ReloadedIsSequence ==
    ASSUME NEW rows \in Seq(Rows)
    PROVE  Reloaded(rows) \in Seq(Rows)
<1> DEFINE good == {i \in DOMAIN rows : ReadBack(rows, i)}
           n == Cardinality(good)
<1>1. DOMAIN rows = 1..Len(rows) /\ Len(rows) \in Nat
    OBVIOUS
<1>2. IsFiniteSet(1..Len(rows)) /\ Cardinality(1..Len(rows)) = Len(rows)
    BY <1>1, FS_Interval
<1>3. good \subseteq 1..Len(rows)
    BY <1>1
<1> HIDE DEF good
<1>4. n \in Nat /\ n <= Len(rows)
    BY <1>2, <1>3, FS_Subset, FS_CardinalityType
<1> HIDE DEF n
<1>5. SubSeq(rows, 1, n) \in Seq(Rows)
    BY <1>1, <1>4
<1>6. Reloaded(rows) = IF Sound(rows) THEN rows ELSE SubSeq(rows, 1, n)
    BY DEF Reloaded, n, good
<1> QED
    BY <1>5, <1>6

(* The pages of a table, in their order.                                   *)
Pages(t) == [i \in 1..MaxPages |-> View(<<t, i - 1>>)]

(* What a table holds is its pages, one after the other.                   *)
LEMMA PagesOfTable ==
    ASSUME NEW t \in Tables
    PROVE  /\ Actual(t) = FlattenSeq(Pages(t))
           /\ \A i \in 1..MaxPages : <<t, i - 1>> \in Addresses /\ Pages(t)[i] = View(<<t, i - 1>>)
<1>1. MaxPages \in Nat
    BY BufferAssumption
<1>2. \A i \in 1..MaxPages : i - 1 \in 0..(MaxPages - 1)
    BY <1>1
<1> QED
    BY <1>2 DEF Pages, Actual, Addresses

(* No rows are behind the last page of a table.                            *)
LEMMA NothingBehind ==
    ASSUME PoolInv, NEW t \in Tables, NEW k \in Addresses, k[1] = t, k[2] > get_max_page_id(t)
    PROVE  View(k) = <<>>
<1>1. /\ get_max_page_id(t) \in -1..(MaxPages - 1)
      /\ get_max_page_id(t) >= file_pages[t] - 1
      /\ \A j \in Resident : j[1] = t => j[2] <= get_max_page_id(t)
    BY LastPage DEF PoolInv
<1>2. k[2] \in 0..(MaxPages - 1) /\ file_pages[t] \in Int
    BY DEF Addresses, PoolInv, PoolTyped
<1>3. k \notin Resident
    BY <1>1, <1>2, BufferAssumption
<1>4. k[2] >= file_pages[t]
    BY <1>1, <1>2, BufferAssumption
<1> QED
    BY <1>3, <1>4 DEF View, Resident, PoolInv, FilesEnd

-----------------------------------------------------------------------------
(* The types of the pool.                                                  *)

Pools == [Addresses -> BufferPage \cup {NotLoaded}]

(* No page is older than N.                                                *)
Aged(pool, N) == \A k \in Addresses : pool[k].last_access_time \in 0..N

BufferTyped == BufferTypeOK /\ \E N \in Nat : Aged(buffer_pool, N)

(* The fields of a page.                                                   *)
LEMMA PagesAreTyped ==
    ASSUME BufferTypeOK, NEW k \in Addresses
    PROVE  /\ buffer_pool[k] \in BufferPage \cup {NotLoaded}
           /\ buffer_pool[k].rows \in Seq(Rows) /\ buffer_pool[k].is_dirty \in BOOLEAN
           /\ disk[k] \in Seq(Rows) /\ View(k) \in Seq(Rows)
<1>1. <<>> \in Seq(Rows)
    OBVIOUS
<1>2. buffer_pool[k] \in BufferPage \cup {NotLoaded} /\ disk[k] \in Seq(Rows)
    BY DEF BufferTypeOK
<1>3. CASE buffer_pool[k] \in BufferPage
    BY <1>2, <1>3 DEF BufferPage, View
<1>4. CASE buffer_pool[k] = NotLoaded
    BY <1>1, <1>2, <1>4 DEF NotLoaded, View
<1> QED
    BY <1>2, <1>3, <1>4

(* Ranking the ages keeps the type of a pool, and bounds the ages.         *)
LEMMA RankedIsPool ==
    ASSUME NEW pool \in Pools, NEW N \in Nat, Aged(pool, N)
    PROVE  Ranked(pool) \in Pools /\ Aged(Ranked(pool), N)
<1> DEFINE times == {pool[k].last_access_time : k \in Addresses} \ {0}
           rank(k) == Cardinality({x \in times : x <= pool[k].last_access_time})
<1>1. times \subseteq 1..N
    BY DEF Aged
<1>2. IsFiniteSet(1..N) /\ Cardinality(1..N) = N
    BY FS_Interval
<1>3. ASSUME NEW k \in Addresses PROVE rank(k) \in 0..N
    <2> DEFINE older == {x \in times : x <= pool[k].last_access_time}
    <2>1. older \subseteq 1..N
        BY <1>1
    <2> HIDE DEF older, times
    <2>2. Cardinality(older) \in Nat /\ Cardinality(older) <= N
        BY <1>2, <2>1, FS_Subset, FS_CardinalityType
    <2> QED
        BY <2>2 DEF older
<1>4. ASSUME NEW k \in Addresses, pool[k] = NotLoaded PROVE rank(k) = 0
    <2>1. pool[k].last_access_time = 0
        BY <1>4 DEF NotLoaded
    <2>2. {x \in times : x <= pool[k].last_access_time} = {}
        <3> HIDE DEF times
        <3>1. ASSUME NEW x \in times, x <= pool[k].last_access_time PROVE FALSE
            <4>1. x \in 1..N /\ x <= 0
                BY <1>1, <2>1, <3>1
            <4> QED
                BY <4>1
        <3> QED
            BY <3>1
    <2> QED
        BY <2>2, FS_EmptySet
<1>5. Ranked(pool) = [k \in Addresses |-> [pool[k] EXCEPT !.last_access_time = rank(k)]]
    BY DEF Ranked
<1> HIDE DEF rank
<1>6. ASSUME NEW k \in Addresses
      PROVE  /\ Ranked(pool)[k] \in BufferPage \cup {NotLoaded}
             /\ Ranked(pool)[k].last_access_time \in 0..N
    <2>1. Ranked(pool)[k] = [pool[k] EXCEPT !.last_access_time = rank(k)]
        BY <1>5
    <2>2. CASE pool[k] \in BufferPage
        BY <1>3, <2>1, <2>2 DEF BufferPage
    <2>3. CASE pool[k] = NotLoaded
        BY <1>4, <2>1, <2>3 DEF NotLoaded
    <2> QED
        BY <2>2, <2>3 DEF Pools
<1>7. Ranked(pool) \in Pools
    BY <1>5, <1>6 DEF Pools
<1> QED
    BY <1>6, <1>7 DEF Aged

(* The time of an access comes at most one after the latest.               *)
LEMMA NowIsNext ==
    ASSUME NEW N \in Nat, Aged(buffer_pool, N), NEW k \in Addresses, NEW now \in Now
    PROVE  now \in 0..(N + 1)
<1> DEFINE S == {buffer_pool[j].last_access_time : j \in Addresses}
           last == Max(S)
<1>1. S \in SUBSET (-1..N) /\ S # {} /\ \A x \in S : x >= 0
    BY DEF Aged
<1> HIDE DEF S
<1>2. last \in S
    BY <1>1, MaxIsGreatest
<1>3. last \in 0..N
    <2> HIDE DEF last
    <2>1. last \in -1..N /\ last >= 0
        BY <1>1, <1>2
    <2> QED
        BY <2>1
<1>4. now \in {last + 1} \cup ({last} \ {0})
    BY DEF Now, S
<1> HIDE DEF last
<1> QED
    BY <1>3, <1>4

(* Flush keeps the type of the disk.                                       *)
LEMMA FlushIsTyped ==
    ASSUME PoolInv, BufferTypeOK, NEW pages \in SUBSET Addresses, Flush(pages)
    PROVE  disk' \in [Addresses -> Seq(Rows)] /\ file_pages' \in [Tables -> 0..MaxPages]
<1>1. file_pages' \in [Tables -> 0..MaxPages]
    BY FlushGrowsFiles
<1>2. ASSUME NEW k \in Addresses
      PROVE  (IF k \in Flushed(pages) THEN Reloaded(buffer_pool[k].rows) ELSE disk[k]) \in Seq(Rows)
    <2>1. disk[k] \in Seq(Rows) /\ buffer_pool[k].rows \in Seq(Rows)
        BY PagesAreTyped
    <2>2. Reloaded(buffer_pool[k].rows) \in Seq(Rows)
        BY <2>1, ReloadedIsSequence
    <2> QED
        BY <2>1, <2>2
<1>3. disk' = [k \in Addresses |->
                  IF k \in Flushed(pages) THEN Reloaded(buffer_pool[k].rows) ELSE disk[k]]
    BY DEF Flush
<1> QED
    BY <1>1, <1>2, <1>3

(* A page that enters keeps the type of the pool.                          *)
LEMMA AdmitIsTyped ==
    ASSUME PoolInv, BufferTypeOK, NEW N \in Nat, Aged(buffer_pool, N), NEW k \in Addresses,
           NEW page \in BufferPage, page.last_access_time \in 0..(N + 1), Admit(k, page)
    PROVE  BufferTyped'
<1> DEFINE Next1(pool) == pool \in Pools /\ Aged(pool, N + 1)
<1>1. Next1(buffer_pool)
    BY DEF BufferTypeOK, Pools, Aged
<1>2. ASSUME NEW pool, Next1(pool), NEW j \in Addresses,
             NEW p \in BufferPage \cup {NotLoaded}, p.last_access_time \in 0..(N + 1)
      PROVE  Next1([pool EXCEPT ![j] = p])
    BY <1>2 DEF Pools, Aged
<1>3. NotLoaded.last_access_time \in 0..(N + 1) /\ N + 1 \in Nat
    BY DEF NotLoaded
<1> HIDE DEF Next1
<1>4. CASE /\ buffer_pool' = Ranked([buffer_pool EXCEPT ![k] = page])
           /\ UNCHANGED <<disk, file_pages>>
    <2> DEFINE pool == [buffer_pool EXCEPT ![k] = page]
    <2>1. Next1(pool)
        BY <1>1, <1>2
    <2> HIDE DEF pool
    <2>2. Ranked(pool) \in Pools /\ Aged(Ranked(pool), N + 1)
        BY <1>3, <2>1, RankedIsPool DEF Next1
    <2>3. buffer_pool' = Ranked(pool)
        BY <1>4 DEF pool
    <2> QED
        BY <1>3, <1>4, <2>2, <2>3 DEF BufferTyped, BufferTypeOK, Pools
<1>5. ASSUME NEW v \in Victims, Flush({v}),
             buffer_pool' = Ranked([buffer_pool EXCEPT ![v] = NotLoaded, ![k] = page])
      PROVE  BufferTyped'
    <2> DEFINE first == [buffer_pool EXCEPT ![v] = NotLoaded]
               pool == [first EXCEPT ![k] = page]
    <2>1. v \in Addresses
        BY DEF Victims, Resident
    <2>2. Next1(first)
        BY <1>1, <1>2, <1>3, <2>1
    <2> HIDE DEF first
    <2>3. Next1(pool)
        BY <1>2, <2>2
    <2>4. buffer_pool' = Ranked(pool)
        BY <1>5 DEF first
    <2> HIDE DEF pool
    <2>5. Ranked(pool) \in Pools /\ Aged(Ranked(pool), N + 1)
        BY <1>3, <2>3, RankedIsPool DEF Next1
    <2>6. disk' \in [Addresses -> Seq(Rows)] /\ file_pages' \in [Tables -> 0..MaxPages]
        BY <1>5, <2>1, FlushIsTyped
    <2> QED
        BY <1>3, <2>4, <2>5, <2>6 DEF BufferTyped, BufferTypeOK, Pools
<1> QED
    BY <1>4, <1>5 DEF Admit

(* get_page keeps the types.                                               *)
LEMMA GetPageIsTyped ==
    ASSUME PoolInv, BufferTyped, NEW k \in Addresses, get_page(k)
    PROVE  BufferTyped'
<1>1. PICK N \in Nat : Aged(buffer_pool, N)
    BY DEF BufferTyped
<1>2. BufferTypeOK
    BY DEF BufferTyped
<1>3. PICK now \in Now : IF k \in Resident
        THEN /\ buffer_pool' = Ranked([buffer_pool EXCEPT
                                   ![k].pin_count = @ + 1, ![k].last_access_time = now])
             /\ UNCHANGED <<disk, file_pages>>
        ELSE Admit(k, [rows |-> disk[k], is_dirty |-> FALSE, pin_count |-> 1,
                       last_access_time |-> now])
    BY DEF get_page
<1>4. now \in 0..(N + 1) /\ N + 1 \in Nat
    BY <1>1, NowIsNext
<1>5. CASE k \in Resident
    <2> DEFINE pool == [buffer_pool EXCEPT ![k].pin_count = @ + 1, ![k].last_access_time = now]
    <2>1. buffer_pool[k] \in BufferPage
        BY <1>2, <1>5 DEF BufferTypeOK, Resident, NotLoaded
    <2>2. pool[k] = [rows |-> buffer_pool[k].rows, is_dirty |-> buffer_pool[k].is_dirty,
                     pin_count |-> buffer_pool[k].pin_count + 1, last_access_time |-> now]
        BY <1>2, <2>1 DEF BufferPage, BufferTypeOK
    <2>3. pool[k] \in BufferPage /\ pool[k].last_access_time \in 0..(N + 1)
        BY <1>4, <2>1, <2>2 DEF BufferPage
    <2>4. pool = [j \in Addresses |-> pool[j]]
          /\ \A j \in Addresses \ {k} : pool[j] = buffer_pool[j]
        BY <1>2 DEF BufferTypeOK
    <2> HIDE DEF pool
    <2>5. pool \in Pools /\ Aged(pool, N + 1)
        <3>1. ASSUME NEW j \in Addresses
              PROVE  pool[j] \in BufferPage \cup {NotLoaded} /\ pool[j].last_access_time \in 0..(N + 1)
            <4>1. CASE j = k
                BY <2>3, <4>1
            <4>2. CASE j # k
                <5>1. pool[j] = buffer_pool[j] /\ buffer_pool[j].last_access_time \in 0..N
                    BY <1>1, <2>4, <4>2 DEF Aged
                <5> QED
                    BY <1>2, <5>1 DEF BufferTypeOK
            <4> QED
                BY <4>1, <4>2
        <3> QED
            BY <2>4, <3>1 DEF Pools, Aged
    <2>6. Ranked(pool) \in Pools /\ Aged(Ranked(pool), N + 1)
        BY <1>4, <2>5, RankedIsPool
    <2>7. buffer_pool' = Ranked(pool) /\ UNCHANGED <<disk, file_pages>>
        BY <1>3, <1>5 DEF pool
    <2> QED
        BY <1>2, <1>4, <2>6, <2>7 DEF BufferTyped, BufferTypeOK, Pools
<1>6. CASE k \notin Resident
    <2> DEFINE page == [rows |-> disk[k], is_dirty |-> FALSE, pin_count |-> 1,
                        last_access_time |-> now]
    <2>1. page \in BufferPage /\ page.last_access_time \in 0..(N + 1)
        BY <1>2, <1>4 DEF BufferTypeOK, BufferPage
    <2>2. Admit(k, page)
        BY <1>3, <1>6
    <2> HIDE DEF page
    <2> QED
        BY <1>1, <1>2, <2>1, <2>2, AdmitIsTyped
<1> QED
    BY <1>5, <1>6

(* new_page keeps the types.                                               *)
LEMMA NewPageIsTyped ==
    ASSUME PoolInv, BufferTyped, NEW k \in Addresses, new_page(k)
    PROVE  BufferTyped'
<1>1. PICK N \in Nat : Aged(buffer_pool, N)
    BY DEF BufferTyped
<1>2. BufferTypeOK
    BY DEF BufferTyped
<1>3. PICK now \in Now : Admit(k, [rows |-> <<>>, is_dirty |-> TRUE, pin_count |-> 1,
                                   last_access_time |-> now])
    BY DEF new_page
<1>4. now \in 0..(N + 1) /\ <<>> \in Seq(Rows)
    BY <1>1, NowIsNext
<1> DEFINE page == [rows |-> <<>>, is_dirty |-> TRUE, pin_count |-> 1, last_access_time |-> now]
<1>5. page \in BufferPage /\ page.last_access_time \in 0..(N + 1)
    BY <1>4 DEF BufferPage
<1>6. Admit(k, page)
    BY <1>3
<1> HIDE DEF page
<1> QED
    BY <1>1, <1>2, <1>5, <1>6, AdmitIsTyped

(* unpin_page keeps the types.                                             *)
LEMMA UnpinPageIsTyped ==
    ASSUME BufferTyped, NEW k \in Resident, NEW rows \in Seq(Rows), NEW mark_dirty \in BOOLEAN,
           unpin_page(k, rows, mark_dirty)
    PROVE  BufferTyped'
<1>1. PICK N \in Nat : Aged(buffer_pool, N)
    BY DEF BufferTyped
<1>2. BufferTypeOK
    BY DEF BufferTyped
<1>3. k \in Addresses /\ buffer_pool[k] \in BufferPage
    BY <1>2 DEF BufferTypeOK, Resident, NotLoaded
<1>4. buffer_pool'[k] =
        [rows |-> rows, is_dirty |-> buffer_pool[k].is_dirty \/ mark_dirty,
         pin_count |-> IF buffer_pool[k].pin_count > 0 THEN buffer_pool[k].pin_count - 1
                       ELSE buffer_pool[k].pin_count,
         last_access_time |-> buffer_pool[k].last_access_time]
    BY <1>2, <1>3 DEF unpin_page, BufferPage, BufferTypeOK
<1>5. buffer_pool' = [j \in Addresses |-> buffer_pool'[j]]
      /\ \A j \in Addresses \ {k} : buffer_pool'[j] = buffer_pool[j]
    BY <1>2 DEF unpin_page, BufferTypeOK
<1>6. (buffer_pool[k].is_dirty \/ mark_dirty) \in BOOLEAN
    BY <1>3 DEF BufferPage
<1>7. buffer_pool'[k] \in BufferPage /\ buffer_pool'[k].last_access_time \in 0..N
    BY <1>1, <1>3, <1>4, <1>6 DEF BufferPage, Aged
<1>8. ASSUME NEW j \in Addresses
      PROVE  buffer_pool'[j] \in BufferPage \cup {NotLoaded}
             /\ buffer_pool'[j].last_access_time \in 0..N
    BY <1>1, <1>2, <1>5, <1>7 DEF Aged, BufferTypeOK
<1>9. UNCHANGED <<disk, file_pages>>
    BY DEF unpin_page
<1>10. BufferTypeOK'
    BY <1>2, <1>5, <1>8, <1>9 DEF BufferTypeOK
<1> QED
    BY <1>8, <1>10 DEF BufferTyped, Aged

(* checkpoint keeps the types.                                             *)
LEMMA CheckpointIsTyped ==
    ASSUME PoolInv, BufferTyped, checkpoint
    PROVE  BufferTyped'
<1>1. PICK N \in Nat : Aged(buffer_pool, N)
    BY DEF BufferTyped
<1>2. BufferTypeOK /\ Dirty \subseteq Addresses /\ Flush(Dirty)
    BY DEF BufferTyped, Dirty, Resident, checkpoint
<1>3. disk' \in [Addresses -> Seq(Rows)] /\ file_pages' \in [Tables -> 0..MaxPages]
    BY <1>2, FlushIsTyped
<1>4. ASSUME NEW j \in Addresses
      PROVE  buffer_pool'[j] \in BufferPage \cup {NotLoaded}
             /\ buffer_pool'[j].last_access_time \in 0..N
    <2> DEFINE dirty == buffer_pool[j].is_dirty /\ j \notin Flushed(Dirty)
    <2>1. buffer_pool[j] \in BufferPage \cup {NotLoaded} /\ buffer_pool[j].is_dirty \in BOOLEAN
          /\ buffer_pool[j].last_access_time \in 0..N
        BY <1>1, <1>2, PagesAreTyped DEF Aged
    <2>2. dirty \in BOOLEAN /\ (~buffer_pool[j].is_dirty => dirty = FALSE)
        BY <2>1
    <2>3. buffer_pool'[j] = [buffer_pool[j] EXCEPT !.is_dirty = dirty]
        BY <2>1 DEF checkpoint
    <2> HIDE DEF dirty
    <2>4. CASE buffer_pool[j] \in BufferPage
        BY <2>1, <2>2, <2>3, <2>4 DEF BufferPage
    <2>5. CASE buffer_pool[j] = NotLoaded
        <3>1. dirty = FALSE
            BY <2>2, <2>5 DEF NotLoaded
        <3>2. IsPage(buffer_pool[j])
            BY DEF PoolInv, PoolTyped, IsPool
        <3>3. buffer_pool'[j] =
                [rows |-> buffer_pool[j].rows, is_dirty |-> dirty,
                 pin_count |-> buffer_pool[j].pin_count,
                 last_access_time |-> buffer_pool[j].last_access_time]
            BY <2>3, <3>2 DEF IsPage
        <3>4. buffer_pool[j].rows = <<>> /\ buffer_pool[j].pin_count = -1
              /\ buffer_pool[j].last_access_time = 0
            BY <2>5 DEF NotLoaded
        <3>5. buffer_pool'[j] = NotLoaded
            BY <3>1, <3>3, <3>4 DEF NotLoaded
        <3> QED
            BY <2>1, <2>5, <3>5
    <2> QED
        BY <2>1, <2>4, <2>5
<1>5. buffer_pool' = [j \in Addresses |-> buffer_pool'[j]]
    BY DEF checkpoint
<1>6. BufferTypeOK'
    BY <1>3, <1>4, <1>5 DEF BufferTypeOK
<1> QED
    BY <1>4, <1>6 DEF BufferTyped, Aged

(* evict_table_without_flush keeps the types.                              *)
LEMMA EvictTableIsTyped ==
    ASSUME BufferTyped, NEW t \in Tables, evict_table_without_flush(t)
    PROVE  BufferTyped'
<1>1. PICK N \in Nat : Aged(buffer_pool, N)
    BY DEF BufferTyped
<1>2. BufferTypeOK
    BY DEF BufferTyped
<1> DEFINE pool == [k \in Addresses |-> IF k[1] = t THEN NotLoaded ELSE buffer_pool[k]]
<1>3. pool \in Pools /\ Aged(pool, N)
    BY <1>1, <1>2 DEF Pools, Aged, BufferTypeOK, NotLoaded
<1>4. buffer_pool' = Ranked(pool) /\ UNCHANGED <<disk, file_pages>>
    BY DEF evict_table_without_flush
<1> HIDE DEF pool
<1>5. Ranked(pool) \in Pools /\ Aged(Ranked(pool), N)
    BY <1>3, RankedIsPool
<1> QED
    BY <1>2, <1>4, <1>5 DEF BufferTyped, BufferTypeOK, Pools

(* A crash keeps the types of the pool.                                    *)
LEMMA LosePoolIsTyped ==
    ASSUME BufferTyped, LosePool
    PROVE  BufferTyped'
<1>1. buffer_pool' \in Pools /\ Aged(buffer_pool, 0)'
    BY DEF LosePool, Pools, Aged, NotLoaded
<1> QED
    BY <1>1 DEF BufferTyped, BufferTypeOK, Pools, LosePool

(* The removal of a file keeps the types.                                  *)
LEMMA RemoveFileIsTyped ==
    ASSUME BufferTyped, NEW t \in Tables, RemoveFile(t)
    PROVE  BufferTyped'
<1>1. <<>> \in Seq(Rows) /\ 0 \in 0..MaxPages
    BY BufferAssumption
<1>2. disk' \in [Addresses -> Seq(Rows)] /\ file_pages' \in [Tables -> 0..MaxPages]
    BY <1>1 DEF RemoveFile, BufferTyped, BufferTypeOK
<1> QED
    BY <1>2 DEF RemoveFile, BufferTyped, BufferTypeOK, Aged

-----------------------------------------------------------------------------
(* What a statement turns into.                                            *)

(* Its fields, with another step, page and rows.                           *)
Moved(o, step, page, rows) ==
    [at |-> step, kind |-> o.kind, table |-> o.table, where |-> o.where, new |-> o.new,
     page |-> page, pages |-> o.pages, rows |-> rows, names |-> o.names]

(* A statement goes to another step.                                       *)
LEMMA AtChanges ==
    ASSUME OpsTyped, NEW s \in Sessions, op[s] # Idle, NEW step,
           op' = [op EXCEPT ![s].at = step]
    PROVE  OnlyMoves(s) /\ op'[s] = Moved(op[s], step, op[s].page, op[s].rows)
<1>1. IsStatement(op[s]) /\ op = [z \in Sessions |-> op[z]]
    BY DEF OpsTyped
<1>2. [op[s] EXCEPT !.at = step] = Moved(op[s], step, op[s].page, op[s].rows)
    BY <1>1 DEF IsStatement, Moved
<1>3. op'[s] = [op[s] EXCEPT !.at = step]
    BY <1>1
<1>4. OnlyMoves(s)
    BY <1>1 DEF OnlyMoves
<1> QED
    BY <1>2, <1>3, <1>4

(* What NewPage does to its statement.                                     *)
LEMMA NewPageChanges ==
    ASSUME OpsTyped, NEW s \in Sessions, NewPage(s)
    PROVE  /\ OnlyMoves(s)
           /\ op'[s] = Moved(op[s], "put", get_max_page_id(op[s].table) + 1, op[s].rows)
<1>1. op[s] # Idle /\ op[s].at = "new" /\ IsStatement(op[s]) /\ op = [z \in Sessions |-> op[z]]
    BY DEF NewPage, At, OpsTyped
<1> DEFINE n == get_max_page_id(op[s].table) + 1
           o1 == [op[s] EXCEPT !.at = "put"]
           op1 == [op EXCEPT ![s] = o1]
<1>2. op' = [op1 EXCEPT ![s] = [op1[s] EXCEPT !.page = n]]
    BY DEF NewPage
<1>3. op1[s] = o1 /\ op1 = [z \in Sessions |-> op1[z]] /\ \A z \in Sessions \ {s} : op1[z] = op[z]
    BY <1>1
<1>4. o1 = Moved(op[s], "put", op[s].page, op[s].rows)
    BY <1>1 DEF IsStatement, Moved
<1> HIDE DEF o1, op1, n
<1>5. [o1 EXCEPT !.page = n] = Moved(op[s], "put", n, op[s].rows)
    BY <1>4 DEF Moved
<1>6. op'[s] = [o1 EXCEPT !.page = n] /\ \A z \in Sessions \ {s} : op'[z] = op1[z]
    BY <1>2, <1>3
<1> QED
    BY <1>3, <1>5, <1>6 DEF OnlyMoves, n

(* A scan has come to its next page, or to the end.                        *)
LEMMA ScanPageChanges ==
    ASSUME OpsTyped, NEW s \in Sessions, ScanPage(s)
    PROVE  LET o == op[s]
               more == o.page + 1 < o.pages
               hit == Matching(buffer_pool[Key(s)].rows, o.where)
           IN  /\ OnlyMoves(s)
               /\ op'[s] = Moved(o, IF more THEN "get" ELSE "done",
                                 IF more THEN o.page + 1 ELSE o.page,
                                 IF o.kind = "select" THEN o.rows \o hit ELSE o.rows)
<1>1. op[s] # Idle /\ IsStatement(op[s]) /\ op = [z \in Sessions |-> op[z]]
    BY DEF ScanPage, At, OpsTyped
<1> DEFINE more == op[s].page + 1 < op[s].pages
           hit == Matching(buffer_pool[Key(s)].rows, op[s].where)
           next == IF more THEN op[s].page + 1 ELSE op[s].page
           step == IF more THEN "get" ELSE "done"
           rows == IF op[s].kind = "select" THEN op[s].rows \o hit ELSE op[s].rows
           o1 == [op[s] EXCEPT !.page = next]
           op1 == [op EXCEPT ![s] = o1]
           o2 == [o1 EXCEPT !.at = step]
           op2 == [op1 EXCEPT ![s] = [op1[s] EXCEPT !.at = step]]
<1>2. op' = [op2 EXCEPT ![s] = [op2[s] EXCEPT !.rows =
                IF op[s].kind = "select" THEN op2[s].rows \o hit ELSE op2[s].rows]]
    BY DEF ScanPage
<1> HIDE DEF next, step, hit, more
<1>3. op1[s] = o1 /\ op1 = [z \in Sessions |-> op1[z]] /\ \A z \in Sessions \ {s} : op1[z] = op[z]
    BY <1>1
<1>4. o1 = Moved(op[s], op[s].at, next, op[s].rows)
    BY <1>1 DEF IsStatement, Moved
<1> HIDE DEF o1, op1
<1>5. op2[s] = o2 /\ op2 = [z \in Sessions |-> op2[z]] /\ \A z \in Sessions \ {s} : op2[z] = op1[z]
    BY <1>3
<1>6. o2 = Moved(op[s], step, next, op[s].rows)
    BY <1>4 DEF Moved
<1> HIDE DEF o2, op2
<1>7. op'[s] = [o2 EXCEPT !.rows = IF op[s].kind = "select" THEN o2.rows \o hit ELSE o2.rows]
      /\ \A z \in Sessions \ {s} : op'[z] = op2[z]
    BY <1>2, <1>5
<1>8. o2.rows = op[s].rows
    BY <1>6 DEF Moved
<1>9. op'[s] = [o2 EXCEPT !.rows = rows]
    BY <1>7, <1>8
<1> HIDE DEF rows
<1>10. [o2 EXCEPT !.rows = rows] = Moved(op[s], step, next, rows)
    BY <1>6 DEF Moved
<1>11. OnlyMoves(s)
    BY <1>3, <1>5, <1>7 DEF OnlyMoves
<1> QED
    BY <1>9, <1>10, <1>11 DEF rows, step, next, hit, more

(* A page in use is in the pool.                                           *)
LEMMA PageInUse ==
    ASSUME Inv, NEW s \in Sessions, Using(s)
    PROVE  /\ Key(s) \in Resident /\ Key(s) \in Addresses
           /\ Key(s)[1] = op[s].table /\ Key(s)[2] = op[s].page
           /\ buffer_pool[Key(s)].pin_count > 0 /\ View(Key(s)) = buffer_pool[Key(s)].rows
<1>1. op[s] # Idle /\ IsStatement(op[s]) /\ op[s].at \in {"use", "put"}
    BY DEF Using, At, Inv, OpsTyped
<1>2. PICK k \in Addresses : k = Key(s)
    BY <1>1 DEF Key, Addresses, IsStatement
<1>3. s \in Users(k)
    BY <1>2 DEF Users
<1>4. IsFiniteSet(Users(k)) /\ k \in Resident /\ buffer_pool[k].pin_count = Cardinality(Users(k))
    BY <1>3 DEF Inv, PinsExact
<1>5. Cardinality(Users(k)) \in Nat /\ Cardinality(Users(k) \ {s}) \in Nat
      /\ Cardinality(Users(k) \ {s}) = Cardinality(Users(k)) - 1
    BY <1>3, <1>4, FS_RemoveElement, FS_CardinalityType
<1>6. Key(s)[1] = op[s].table /\ Key(s)[2] = op[s].page
    BY DEF Key
<1> QED
    BY <1>2, <1>4, <1>5, <1>6 DEF Resident, View

(* A session leaves its page with these rows.                              *)
Left(k, rows) ==
    /\ k \in Resident /\ View(k)' = rows
    /\ \A j \in Addresses \ {k} : View(j)' = View(j)
    /\ disk' = disk /\ file_pages' = file_pages /\ Resident' = Resident
    /\ spoiled' = IF Sound(rows) THEN spoiled ELSE spoiled \cup {k[1]}

(* Leave changes the rows of one page and those of no other.               *)
LEMMA LeaveKeeps ==
    ASSUME Inv, NEW s \in Sessions, Using(s), NEW rows, NEW mark_dirty \in BOOLEAN,
           mark_dirty \/ rows = buffer_pool[Key(s)].rows, Leave(s, rows, mark_dirty)
    PROVE  \E k \in Addresses : k = Key(s) /\ Left(k, rows)
<1>1. PICK k \in Addresses : k = Key(s)
    BY PageInUse
<1>2. /\ k \in Resident /\ k[1] = op[s].table /\ k[2] = op[s].page
      /\ buffer_pool[k].pin_count > 0 /\ View(k) = buffer_pool[k].rows
    BY <1>1, PageInUse
<1>3. unpin_page(k, rows, mark_dirty)
    BY <1>1 DEF Leave
<1>4. /\ PoolInv' /\ disk' = disk
      /\ buffer_pool'[k].pin_count = buffer_pool[k].pin_count - 1
      /\ \A j \in Addresses \ {k} : buffer_pool'[j] = buffer_pool[j]
    BY <1>1, <1>2, <1>3, UnpinPageKeeps DEF Inv
<1>5. IsPage(buffer_pool[k]) /\ buffer_pool = [j \in Addresses |-> buffer_pool[j]]
    BY DEF Inv, PoolInv, PoolTyped, IsPool
<1>6. buffer_pool'[k].rows = rows /\ file_pages' = file_pages
    BY <1>3, <1>5 DEF unpin_page, IsPage
<1>7. buffer_pool'[k].pin_count >= 0
    BY <1>2, <1>4, <1>5 DEF IsPage
<1>8. View(k)' = rows /\ \A j \in Addresses \ {k} : View(j)' = View(j)
    BY <1>4, <1>6, <1>7 DEF View
<1>9. Resident' = Resident
    BY <1>2, <1>4, <1>7 DEF Resident
<1>10. spoiled' = IF Sound(rows) THEN spoiled ELSE spoiled \cup {k[1]}
    BY <1>2 DEF Leave
<1>11. Left(k, rows)
    BY <1>2, <1>4, <1>6, <1>8, <1>9, <1>10 DEF Left
<1> QED
    BY <1>1, <1>11

(* What a statement does to the rows of a page, and what it picks.         *)
Change(o) ==
    [rows \in Seq(Rows) |-> IF o.kind = "update" THEN Replaced(rows, o.where, o.new)
                            ELSE Without(rows, o.where)]
Choice(o) == [rows \in Seq(Rows) |-> Matching(rows, o.where)]

(* The effect of a statement on a table is its effect on each page.        *)
LEMMA ChangeDistributes ==
    ASSUME NEW o, o.new \in Rows
    PROVE  Distributes(Rows, Change(o))
<1>1. CASE o.kind = "update"
    <2>1. Change(o) = [rows \in Seq(Rows) |-> Replaced(rows, o.where, o.new)]
        BY <1>1 DEF Change
    <2> QED
        BY <2>1, ReplacedDistributes
<1>2. CASE o.kind # "update"
    <2>1. Change(o) = [rows \in Seq(Rows) |-> Matching(rows, Rows \ o.where)]
        BY <1>2 DEF Change, Without
    <2> QED
        BY <2>1, MatchingDistributes
<1> QED
    BY <1>1, <1>2

(* What a clause picks of a table is what it picks of each page.           *)
LEMMA ChoiceDistributes ==
    ASSUME NEW o
    PROVE  Distributes(Rows, Choice(o))
BY MatchingDistributes DEF Choice

(* What a scan leaves in a page.                                           *)
LEMMA ScanPageLeaves ==
    ASSUME Inv, BufferTyped, NEW s \in Sessions, ScanPage(s), op[s].new \in Rows
    PROVE  \E k \in Addresses : k = Key(s) /\
               Left(k, IF op[s].kind = "select" THEN View(k) ELSE Change(op[s])[View(k)])
<1>1. Using(s)
    BY DEF ScanPage, Using
<1>2. View(Key(s)) = buffer_pool[Key(s)].rows /\ View(Key(s)) \in Seq(Rows)
    BY <1>1, PageInUse, PagesAreTyped DEF BufferTyped
<1> DEFINE old == View(Key(s))
           hit == Matching(old, op[s].where)
           changed == IF op[s].kind = "update" THEN Replaced(old, op[s].where, op[s].new)
                      ELSE Without(old, op[s].where)
<1>3. Change(op[s])[old] = changed
    BY <1>2 DEF Change
<1>4. IF op[s].kind = "select" \/ hit = <<>> THEN Leave(s, old, FALSE)
      ELSE Leave(s, changed, TRUE)
    BY <1>2 DEF ScanPage
<1>5. hit = <<>> => changed = old
    BY <1>2, NoMatchNoChange
<1> HIDE DEF old, hit, changed
<1>6. CASE op[s].kind = "select" \/ hit = <<>>
    <2>1. PICK k \in Addresses : k = Key(s) /\ Left(k, old)
        BY <1>1, <1>2, <1>4, <1>6, LeaveKeeps DEF old
    <2>2. old = IF op[s].kind = "select" THEN View(k) ELSE Change(op[s])[View(k)]
        BY <1>3, <1>5, <1>6, <2>1 DEF old
    <2> QED
        BY <2>1, <2>2
<1>7. CASE ~(op[s].kind = "select" \/ hit = <<>>)
    <2>1. PICK k \in Addresses : k = Key(s) /\ Left(k, changed)
        BY <1>1, <1>4, <1>7, LeaveKeeps
    <2>2. changed = IF op[s].kind = "select" THEN View(k) ELSE Change(op[s])[View(k)]
        BY <1>3, <1>7, <2>1 DEF old
    <2> QED
        BY <2>1, <2>2
<1> QED
    BY <1>6, <1>7

-----------------------------------------------------------------------------
(* The types of the rest.                                                  *)

Scans == {"select", "update", "delete"}

(* What else is true of a statement: each kind has its own steps.          *)
Fits(o) ==
    /\ o.where \in SUBSET Rows /\ o.new \in Rows /\ o.page \in -1..(MaxPages - 1)
    /\ o.rows \in Seq(Rows) /\ o.names \in SUBSET Tables
    /\ o.kind \in Scans => o.at \in {"get", "use", "done"} /\ (o.at # "done" => o.page < o.pages)
    /\ o.kind = "insert" => o.at \in {"get", "use", "new", "put", "done"}
    /\ o.kind = "create" => o.at \in {"remove", "rename", "add", "done"}
    /\ o.kind = "drop" => o.at \in {"schema", "data", "remove", "rename", "done"}

OpsFit == \A s \in Sessions : op[s] = Idle \/ Fits(op[s])

RestTyped ==
    /\ tables_meta \in [exists : BOOLEAN, names : SUBSET Tables]
    /\ schemas \in SUBSET Tables
    /\ expected \in [Tables -> Seq(Rows)]
    /\ spoiled \in SUBSET Tables
    /\ cut \in BOOLEAN
    /\ statements \in 0..MaxStatements /\ crashes \in 0..MaxCrashes

Typed == BufferTyped /\ OpsFit /\ RestTyped

(* A session moves to a statement whose step is one of its kind.           *)
LEMMA FitsMoves ==
    ASSUME OpsFit, NEW s \in Sessions, OnlyMoves(s), op'[s] = Idle \/ Fits(op'[s])
    PROVE  OpsFit'
<1>1. ASSUME NEW z \in Sessions PROVE op'[z] = Idle \/ Fits(op'[z])
    BY DEF OpsFit, OnlyMoves
<1> QED
    BY <1>1 DEF OpsFit, Fits, Scans

(* The rows of a table, as sessions see them and on the disk.              *)
LEMMA RowsAreTyped ==
    ASSUME BufferTypeOK, NEW t \in Tables
    PROVE  /\ Pages(t) \in [1..MaxPages -> Seq(Rows)] /\ Actual(t) \in Seq(Rows)
           /\ FlattenSeq([i \in 1..MaxPages |-> disk[<<t, i - 1>>]]) \in Seq(Rows)
<1> DEFINE f == [i \in 1..MaxPages |-> disk[<<t, i - 1>>]]
<1>1. MaxPages \in Nat \ {0}
    BY BufferAssumption
<1>2. \A i \in 1..MaxPages : <<t, i - 1>> \in Addresses /\ Pages(t)[i] = View(<<t, i - 1>>)
    BY PagesOfTable
<1>3. \A i \in 1..MaxPages : View(<<t, i - 1>>) \in Seq(Rows) /\ disk[<<t, i - 1>>] \in Seq(Rows)
    BY <1>2, PagesAreTyped
<1>4. f \in [1..MaxPages -> Seq(Rows)] /\ Pages(t) \in [1..MaxPages -> Seq(Rows)]
    BY <1>3 DEF Pages
<1> HIDE DEF f
<1>5. FlattenSeq(f) \in Seq(Rows) /\ FlattenSeq(Pages(t)) \in Seq(Rows)
    BY <1>1, <1>4, FlattenIsSequence
<1>6. Actual(t) = FlattenSeq(Pages(t))
    BY PagesOfTable
<1> QED
    BY <1>4, <1>5, <1>6 DEF f

(* There is a row.                                                         *)
LEMMA AnyRowIsRow == AnyRow \in Rows
BY StorageAssumption DEF AnyRow

(* The parts of the types make up TypeOK.                                  *)
LEMMA AllAreTyped ==
    ASSUME Inv, Typed
    PROVE  TypeOK
<1>1. ASSUME NEW s \in Sessions PROVE op[s] \in Statement \cup {Idle}
    <2>1. CASE op[s] # Idle
        <3>1. IsStatement(op[s]) /\ Fits(op[s])
            BY <2>1 DEF Inv, OpsTyped, Typed, OpsFit
        <3> QED
            BY <3>1 DEF IsStatement, Fits, Statement
    <2> QED
        BY <2>1
<1>2. op \in [Sessions -> Statement \cup {Idle}]
    BY <1>1 DEF Inv, OpsTyped
<1> QED
    BY <1>2 DEF TypeOK, Typed, RestTyped, BufferTyped

(* The steps on rows that keep what is expected.                           *)
LEMMA TakingIsTyped ==
    ASSUME Inv, Typed, NEW s \in Sessions, GetPage(s) \/ NewPage(s)
    PROVE  Typed'
<1>1. op[s] # Idle /\ IsStatement(op[s]) /\ Fits(op[s]) /\ op[s].table \in Tables
    BY DEF GetPage, NewPage, At, Inv, OpsTyped, Typed, OpsFit, IsStatement
<1>2. CASE GetPage(s)
    <2>1. op[s].at = "get" /\ op' = [op EXCEPT ![s].at = "use"]
        BY <1>2 DEF GetPage, At
    <2>2. OnlyMoves(s) /\ op'[s] = Moved(op[s], "use", op[s].page, op[s].rows)
        BY <1>1, <2>1, AtChanges DEF Inv
    <2>3. Fits(op'[s])
        BY <1>1, <2>1, <2>2 DEF Fits, Moved, Scans, IsStatement
    <2>4. PICK k \in Addresses : k = Key(s)
        BY <1>1, <2>1 DEF Key, Addresses, IsStatement
    <2>5. BufferTyped'
        BY <1>2, <2>4, GetPageIsTyped DEF GetPage, Inv, Typed
    <2> QED
        BY <1>2, <2>2, <2>3, <2>5, FitsMoves
        DEF Typed, RestTyped, GetPage, catalogVars, historyVars, boundVars
<1>3. CASE NewPage(s)
    <2> DEFINE n == get_max_page_id(op[s].table) + 1
    <2>1. op[s].at = "new" /\ OnlyMoves(s) /\ op'[s] = Moved(op[s], "put", n, op[s].rows)
        BY <1>3, NewPageChanges DEF Inv, NewPage, At
    <2>2. n \in 0..(MaxPages - 1)
        <3>1. get_max_page_id(op[s].table) \in -1..(MaxPages - 1)
            BY <1>1, LastPage DEF Inv, PoolInv
        <3> QED
            BY <1>3, <3>1, BufferAssumption DEF NewPage
    <2>3. PICK k \in Addresses : k = <<op[s].table, n>>
        BY <1>1, <2>2 DEF Addresses
    <2> HIDE DEF n
    <2>4. Fits(op'[s])
        BY <1>1, <2>1, <2>2 DEF Fits, Moved, Scans, IsStatement, Kinds
    <2>5. BufferTyped'
        BY <1>3, <2>3, NewPageIsTyped DEF NewPage, Inv, Typed, n
    <2> QED
        BY <1>3, <2>1, <2>4, <2>5, FitsMoves
        DEF Typed, RestTyped, NewPage, catalogVars, historyVars, boundVars
<1> QED
    BY <1>2, <1>3

(* A page that is left has rows.                                           *)
LEMMA LeaveIsTyped ==
    ASSUME Inv, Typed, NEW s \in Sessions, Using(s), NEW rows \in Seq(Rows),
           NEW mark_dirty \in BOOLEAN, Leave(s, rows, mark_dirty)
    PROVE  BufferTyped' /\ RestTyped'
<1>1. PICK k \in Resident : k = Key(s)
    BY PageInUse
<1>2. unpin_page(k, rows, mark_dirty)
    BY <1>1 DEF Leave
<1>3. BufferTyped'
    BY <1>2, UnpinPageIsTyped DEF Typed
<1>4. op[s].table \in Tables
    BY DEF Using, At, Inv, OpsTyped, IsStatement
<1> QED
    BY <1>3, <1>4 DEF Leave, Typed, RestTyped, catalogVars, boundVars

(* The steps that leave a page keep the types.                             *)
LEMMA LeavingIsTyped ==
    ASSUME Inv, Typed, NEW s \in Sessions, ScanPage(s) \/ InsertRow(s) \/ PutRow(s)
    PROVE  Typed'
<1>1. op[s] # Idle /\ IsStatement(op[s]) /\ Fits(op[s]) /\ Using(s) /\ op[s].at \in {"use", "put"}
    BY DEF ScanPage, InsertRow, PutRow, At, Inv, OpsTyped, Typed, OpsFit, IsStatement, Using
<1>2. PICK old \in Seq(Rows) : old = buffer_pool[Key(s)].rows
    BY <1>1, PageInUse, PagesAreTyped DEF Typed, BufferTyped
<1>3. op[s].new \in Rows /\ op[s].where \in SUBSET Rows /\ op[s].rows \in Seq(Rows)
    BY <1>1 DEF Fits
<1>4. Append(old, op[s].new) \in Seq(Rows)
    BY <1>2, <1>3
<1>5. CASE ScanPage(s)
    <2> DEFINE more == op[s].page + 1 < op[s].pages
               hit == Matching(old, op[s].where)
               next == IF more THEN op[s].page + 1 ELSE op[s].page
               step == IF more THEN "get" ELSE "done"
               rows == IF op[s].kind = "select" THEN op[s].rows \o hit ELSE op[s].rows
    <2>1. op[s].at = "use" /\ op[s].kind # "insert"
        BY <1>5 DEF ScanPage, At
    <2>2. OnlyMoves(s) /\ op'[s] = Moved(op[s], step, next, rows)
        BY <1>2, <1>5, ScanPageChanges DEF Inv
    <2>3. hit \in Seq(Rows)
        BY MatchingStep
    <2>4. rows \in Seq(Rows)
        <3> HIDE DEF hit
        <3> QED
            BY <1>3, <2>3
    <2>5. next \in -1..(MaxPages - 1) /\ step \in {"get", "done"}
          /\ (step # "done" => next < op[s].pages)
        BY <1>1, <2>1, BufferAssumption DEF IsStatement, Fits
    <2> HIDE DEF next, step, rows, hit, more
    <2>6. Fits(op'[s])
        BY <1>1, <2>1, <2>2, <2>4, <2>5 DEF Fits, Moved, Scans
    <2>7. Without(old, op[s].where) \in Seq(Rows)
        <3> DEFINE w == Rows \ op[s].where
        <3>1. Without(old, op[s].where) = Matching(old, w)
            BY DEF Without
        <3> HIDE DEF w
        <3> QED
            BY <3>1, MatchingStep
    <2>8. Replaced(old, op[s].where, op[s].new) \in Seq(Rows)
        BY <1>3, ReplacedStep
    <2>9. PICK left \in Seq(Rows) : \E mark_dirty \in BOOLEAN : Leave(s, left, mark_dirty)
        <3> DEFINE w == Without(old, op[s].where)
                   r == Replaced(old, op[s].where, op[s].new)
        <3>1. Leave(s, old, FALSE) \/ Leave(s, r, TRUE) \/ Leave(s, w, TRUE)
            BY <1>2, <1>5 DEF ScanPage
        <3> HIDE DEF w, r
        <3> QED
            BY <2>7, <2>8, <3>1 DEF w, r
    <2>10. BufferTyped' /\ RestTyped'
        BY <1>1, <2>9, LeaveIsTyped
    <2> QED
        BY <2>2, <2>6, <2>10, FitsMoves DEF Typed
<1>6. CASE InsertRow(s) \/ PutRow(s)
    <2>1. PICK step \in {"done", "new"} :
              op' = [op EXCEPT ![s].at = step] /\ (step = "new" => op[s].kind = "insert")
        BY <1>6 DEF InsertRow, PutRow
    <2>2. OnlyMoves(s) /\ op'[s] = Moved(op[s], step, op[s].page, op[s].rows)
        BY <1>1, <2>1, AtChanges DEF Inv
    <2>3. Fits(op'[s])
        BY <1>1, <2>1, <2>2 DEF Fits, Moved, Scans, IsStatement, Kinds
    <2>4. PICK left \in Seq(Rows) : \E mark_dirty \in BOOLEAN : Leave(s, left, mark_dirty)
        <3> DEFINE a == Append(old, op[s].new)
        <3>1. Leave(s, old, FALSE) \/ Leave(s, a, TRUE)
            BY <1>2, <1>6 DEF InsertRow, PutRow
        <3> HIDE DEF a
        <3> QED
            BY <1>4, <3>1 DEF a
    <2>5. BufferTyped' /\ RestTyped'
        BY <1>1, <2>4, LeaveIsTyped
    <2> QED
        BY <2>2, <2>3, <2>5, FitsMoves DEF Typed
<1> QED
    BY <1>5, <1>6

(* The end of a statement keeps the types.                                 *)
LEMMA EndingIsTyped ==
    ASSUME Inv, Typed, NEW s \in Sessions, Return(s) \/ AllPagesPinned(s)
    PROVE  Typed'
<1>1. /\ op[s] # Idle /\ op[s].table \in Tables
      /\ op' = [op EXCEPT ![s] = Idle] /\ UNCHANGED <<buffer_pool, disk, file_pages>>
    BY DEF Return, AllPagesPinned, At, bufferVars, Inv, OpsTyped, IsStatement
<1>2. OnlyMoves(s) /\ op'[s] = Idle
    BY <1>1 DEF OnlyMoves, Inv, OpsTyped
<1>3. Actual(op[s].table) \in Seq(Rows)
    BY <1>1, RowsAreTyped DEF Typed, BufferTyped
<1>4. expected' \in [Tables -> Seq(Rows)]
    BY <1>1, <1>3 DEF Return, AllPagesPinned, historyVars, Typed, RestTyped
<1>5. BufferTyped'
    BY <1>1 DEF Typed, BufferTyped, BufferTypeOK, Aged
<1> QED
    BY <1>2, <1>4, <1>5, FitsMoves
    DEF Typed, RestTyped, Return, AllPagesPinned, catalogVars, historyVars, boundVars

(* Statements begin.                                                       *)
LEMMA BeginningFits ==
    ASSUME Inv, Typed, NEW s \in Sessions, NEW o, Fits(o), op' = [op EXCEPT ![s] = o]
    PROVE  OpsFit'
<1>1. OnlyMoves(s) /\ op'[s] = o
    BY DEF Inv, OpsTyped, OnlyMoves
<1> QED
    BY <1>1, FitsMoves DEF Typed

(* The count of statements stays within its bound.                         *)
LEMMA CountsUp ==
    ASSUME RestTyped, statements < MaxStatements, statements' = statements + 1
    PROVE  statements' \in 0..MaxStatements
BY StorageAssumption DEF RestTyped

(* An untouched pool keeps its type.                                       *)
LEMMA StillTyped ==
    ASSUME BufferTyped, UNCHANGED bufferVars
    PROVE  BufferTyped'
BY DEF BufferTyped, BufferTypeOK, Aged, bufferVars

(* The next sequence of rows after a statement.                            *)
LEMMA EffectsAreTyped ==
    ASSUME NEW rows \in Seq(Rows), NEW where, NEW new \in Rows
    PROVE  /\ Replaced(rows, where, new) \in Seq(Rows)
           /\ Without(rows, where) \in Seq(Rows)
           /\ Append(rows, new) \in Seq(Rows)
<1> DEFINE w == Rows \ where
<1>1. Without(rows, where) = Matching(rows, w)
    BY DEF Without
<1> HIDE DEF w
<1>2. Without(rows, where) \in Seq(Rows)
    BY <1>1, MatchingStep
<1>3. Append(rows, new) \in Seq(Rows)
    OBVIOUS
<1> QED
    BY <1>2, <1>3, ReplacedStep

(* The begin of a scan keeps the types.                                    *)
LEMMA ScanIsTyped ==
    ASSUME Inv, Typed, NEW s \in Sessions, NEW t \in Tables, NEW where \in Clauses,
           full_scan(s, t, where) \/ delete_block(s, t, where)
               \/ \E new \in Rows : write_block_update(s, t, where, new)
    PROVE  Typed'
<1>1. PICK kind \in Scans, new \in Rows : Scan(s, kind, t, where, new)
    BY AnyRowIsRow DEF full_scan, delete_block, write_block_update, Scans
<1> DEFINE n == get_max_page_id(t)
           step == IF n = -1 THEN "done" ELSE "get"
           o == [at |-> step, kind |-> kind, table |-> t, where |-> where, new |-> new,
                 page |-> 0, pages |-> n + 1, rows |-> <<>>, names |-> {}]
<1>2. n \in -1..(MaxPages - 1)
    BY LastPage DEF Inv, PoolInv
<1>3. op' = [op EXCEPT ![s] = o] /\ statements' = statements + 1
    BY <1>1 DEF Scan, Started
<1>4. statements < MaxStatements
    BY DEF full_scan, delete_block, write_block_update, Ready
<1>5. <<>> \in Seq(Rows) /\ where \in SUBSET Rows
    BY StorageAssumption
<1>6. 0 \in -1..(MaxPages - 1) /\ (step # "done" => 0 < n + 1) /\ step \in {"get", "done"}
    BY <1>2, BufferAssumption
<1> HIDE DEF n, step
<1>7. Fits(o)
    BY <1>5, <1>6 DEF Fits, Scans
<1> HIDE DEF o
<1>8. OpsFit'
    BY <1>3, <1>7, BeginningFits
<1>9. expected' \in [Tables -> Seq(Rows)]
    <2>1. expected \in [Tables -> Seq(Rows)] /\ expected[t] \in Seq(Rows)
        BY DEF Typed, RestTyped
    <2>2. PICK rows \in Seq(Rows) : expected' = expected \/ expected' = [expected EXCEPT ![t] = rows]
        <3>1. CASE full_scan(s, t, where)
            BY <2>1, <3>1 DEF full_scan
        <3>2. CASE delete_block(s, t, where)
            <4>1. expected' = [expected EXCEPT ![t] = Without(expected[t], where)]
                BY <3>2 DEF delete_block
            <4> QED
                BY <2>1, <4>1, EffectsAreTyped, AnyRowIsRow
        <3>3. CASE \E c \in Rows : write_block_update(s, t, where, c)
            <4>1. PICK c \in Rows : write_block_update(s, t, where, c)
                BY <3>3
            <4>2. expected' = [expected EXCEPT ![t] = Replaced(expected[t], where, c)]
                BY <4>1 DEF write_block_update
            <4> QED
                BY <2>1, <4>2, EffectsAreTyped
        <3> QED
            BY <3>1, <3>2, <3>3
    <2> QED
        BY <2>1, <2>2
<1>10. UNCHANGED <<bufferVars, catalogVars, spoiled, cut, crashes>>
    BY <1>1 DEF Scan
<1>11. statements' \in 0..MaxStatements
    BY <1>3, <1>4, CountsUp DEF Typed
<1>12. BufferTyped'
    BY <1>10, StillTyped DEF Typed
<1> QED
    BY <1>8, <1>9, <1>10, <1>11, <1>12 DEF Typed, RestTyped, catalogVars

(* The begin of an INSERT keeps the types.                                 *)
LEMMA InsertIsTyped ==
    ASSUME Inv, Typed, NEW s \in Sessions, NEW t \in Tables, NEW row \in Rows,
           write_block_insert(s, t, row)
    PROVE  Typed'
<1> DEFINE n == get_max_page_id(t)
           step == IF n = -1 THEN "new" ELSE "get"
           o == [at |-> step, kind |-> "insert", table |-> t, where |-> {}, new |-> row,
                 page |-> n, pages |-> n + 1, rows |-> <<>>, names |-> {}]
<1>1. n \in -1..(MaxPages - 1)
    BY LastPage DEF Inv, PoolInv
<1>2. /\ op' = [op EXCEPT ![s] = o] /\ statements' = statements + 1
      /\ statements < MaxStatements
      /\ expected' = [expected EXCEPT ![t] = Append(expected[t], row)]
      /\ UNCHANGED <<bufferVars, catalogVars, spoiled, cut, crashes>>
    BY DEF write_block_insert, Started, Ready
<1>3. <<>> \in Seq(Rows)
    OBVIOUS
<1>4. step \in {"new", "get"}
    OBVIOUS
<1> HIDE DEF n, step
<1>5. Fits(o)
    BY <1>1, <1>3, <1>4 DEF Fits, Scans
<1> HIDE DEF o
<1>6. OpsFit'
    BY <1>2, <1>5, BeginningFits
<1>7. expected' \in [Tables -> Seq(Rows)]
    <2>1. expected \in [Tables -> Seq(Rows)] /\ expected[t] \in Seq(Rows)
        BY DEF Typed, RestTyped
    <2>2. Append(expected[t], row) \in Seq(Rows)
        BY <2>1
    <2> QED
        BY <1>2, <2>1, <2>2
<1>8. statements' \in 0..MaxStatements
    BY <1>2, CountsUp DEF Typed
<1>9. BufferTyped'
    BY <1>2, StillTyped DEF Typed
<1> QED
    BY <1>2, <1>6, <1>7, <1>8, <1>9 DEF Typed, RestTyped, catalogVars

(* The begin of a CREATE or a DROP keeps the types.                        *)
LEMMA DDLIsTyped ==
    ASSUME Inv, Typed, NEW s \in Sessions, NEW t \in Tables,
           create_table(s, t) \/ drop_table(s, t)
    PROVE  Typed'
<1> DEFINE o(kind, step, names) ==
        [at |-> step, kind |-> kind, table |-> t, where |-> {}, new |-> AnyRow,
         page |-> 0, pages |-> 0, rows |-> <<>>, names |-> names]
<1>1. tables_meta.names \in SUBSET Tables
    BY DEF Typed, RestTyped
<1> DEFINE Starts(kind, step, names) ==
        /\ names \in SUBSET Tables
        /\ <<kind, step>> \in {<<"create", "remove">>, <<"create", "add">>,
                               <<"drop", "schema">>, <<"drop", "done">>}
        /\ op' = [op EXCEPT ![s] = o(kind, step, names)] /\ statements' = statements + 1
<1>2. \E kind, step, names : Starts(kind, step, names)
    <2>1. CASE create_table(s, t)
        <3>1. Starts("create", "remove", tables_meta.names \cup {t}) \/ Starts("create", "add", {})
            BY <1>1, <2>1 DEF create_table, DDLStarted
        <3> HIDE DEF Starts
        <3> QED
            BY <3>1
    <2>2. CASE drop_table(s, t)
        <3>1. Starts("drop", "schema", tables_meta.names \ {t}) \/ Starts("drop", "done", {})
            BY <1>1, <2>2 DEF drop_table, DDLStarted
        <3> HIDE DEF Starts
        <3> QED
            BY <3>1
    <2> QED
        BY <2>1, <2>2
<1>3. PICK kind, step, names : Starts(kind, step, names)
    BY <1>2
<1>4. <<>> \in Seq(Rows) /\ 0 \in -1..(MaxPages - 1)
    BY BufferAssumption
<1>5. Fits(o(kind, step, names))
    BY <1>3, <1>4, AnyRowIsRow DEF Fits, Scans
<1> HIDE DEF o
<1>6. OpsFit'
    BY <1>3, <1>5, BeginningFits
<1>7. statements < MaxStatements
    BY DEF create_table, drop_table
<1>8. statements' \in 0..MaxStatements
    BY <1>3, <1>7, CountsUp DEF Typed
<1>9. CASE create_table(s, t)
    <2>1. BufferTyped'
        BY <1>9, StillTyped DEF create_table, Typed
    <2>2. tables_meta' \in [exists : BOOLEAN, names : SUBSET Tables]
        <3>1. tables_meta' = tables_meta \/ tables_meta' = [exists |-> TRUE, names |-> {t}]
            BY <1>9 DEF create_table
        <3>2. [exists |-> TRUE, names |-> {t}] \in [exists : BOOLEAN, names : SUBSET Tables]
            OBVIOUS
        <3>3. tables_meta \in [exists : BOOLEAN, names : SUBSET Tables]
            BY DEF Typed, RestTyped
        <3> QED
            BY <3>1, <3>2, <3>3
    <2> QED
        BY <1>6, <1>8, <1>9, <2>1, <2>2 DEF create_table, Typed, RestTyped, historyVars
<1>10. CASE drop_table(s, t)
    <2>1. BufferTyped'
        BY <1>10, EvictTableIsTyped DEF drop_table, Typed
    <2>2. expected' \in [Tables -> Seq(Rows)]
        <3> DEFINE rows == FlattenSeq([i \in 1..MaxPages |-> disk[<<t, i - 1>>]])
        <3>1. rows \in Seq(Rows)
            BY RowsAreTyped DEF Typed, BufferTyped
        <3>2. expected' = [expected EXCEPT ![t] = rows]
            BY <1>10 DEF drop_table
        <3> HIDE DEF rows
        <3> QED
            BY <3>1, <3>2 DEF Typed, RestTyped
    <2> QED
        BY <1>6, <1>8, <1>10, <2>1, <2>2 DEF drop_table, Typed, RestTyped, catalogVars
<1> QED
    BY <1>9, <1>10

(* The steps of a statement on tables.                                     *)
LEMMA CatalogIsTyped ==
    ASSUME Inv, Typed, NEW s \in Sessions,
           RemoveSchema(s) \/ RemoveData(s) \/ RemoveMeta(s) \/ RenameMeta(s) \/ AddSchema(s)
    PROVE  Typed'
<1>1. op[s] # Idle /\ IsStatement(op[s]) /\ Fits(op[s]) /\ op[s].table \in Tables
    BY DEF RemoveSchema, RemoveData, RemoveMeta, RenameMeta, AddSchema, At,
        Inv, OpsTyped, Typed, OpsFit, IsStatement
<1>2. PICK step \in {"data", "remove", "rename", "add", "done"} :
          /\ op' = [op EXCEPT ![s].at = step]
          /\ step = "data" => op[s].at = "schema" 
          /\ step = "remove" => op[s].at = "data"
          /\ step = "rename" => op[s].at = "remove"
          /\ step = "add" => op[s].kind = "create"
          /\ op[s].at \in {"schema", "data", "remove", "rename", "add"}
    BY DEF RemoveSchema, RemoveData, RemoveMeta, RenameMeta, AddSchema, At, Proceed
<1>3. OnlyMoves(s) /\ op'[s] = Moved(op[s], step, op[s].page, op[s].rows)
    BY <1>1, <1>2, AtChanges DEF Inv
<1>4. Fits(op'[s])
    BY <1>1, <1>2, <1>3 DEF Fits, Moved, Scans, IsStatement, Kinds
<1>5. OpsFit'
    BY <1>3, <1>4, FitsMoves DEF Typed
<1>6. BufferTyped'
    BY <1>1, StillTyped, RemoveFileIsTyped
    DEF RemoveSchema, RemoveData, RemoveMeta, RenameMeta, AddSchema, Typed
<1>7. RestTyped'
    <2>1. CASE RemoveSchema(s)
        BY <2>1, <1>1 DEF RemoveSchema, Typed, RestTyped, historyVars, boundVars
    <2>2. CASE RemoveData(s)
        <3>1. <<>> \in Seq(Rows)
            OBVIOUS
        <3> QED
            BY <1>1, <2>2, <3>1 DEF RemoveData, Typed, RestTyped, catalogVars, boundVars
    <2>3. CASE RemoveMeta(s)
        BY <2>3 DEF RemoveMeta, Typed, RestTyped, historyVars, boundVars
    <2>4. CASE RenameMeta(s)
        BY <1>1, <2>4 DEF RenameMeta, Typed, RestTyped, historyVars, boundVars, Fits
    <2>5. CASE AddSchema(s)
        BY <1>1, <2>5 DEF AddSchema, Typed, RestTyped, historyVars, boundVars
    <2> QED
        BY <2>1, <2>2, <2>3, <2>4, <2>5
<1> QED
    BY <1>5, <1>6, <1>7 DEF Typed

(* A checkpoint keeps the types.                                           *)
LEMMA CheckpointTyped ==
    ASSUME Inv, Typed, Checkpoint
    PROVE  Typed'
<1>1. BufferTyped'
    BY CheckpointIsTyped DEF Checkpoint, Inv, Typed
<1> QED
    BY <1>1
    DEF Checkpoint, Typed, OpsFit, RestTyped, catalogVars, historyVars, boundVars

(* A crash keeps the types.                                                *)
LEMMA CrashIsTyped ==
    ASSUME Inv, Typed, Crash
    PROVE  Typed'
<1>1. BufferTyped'
    BY LosePoolIsTyped DEF Crash, Typed
<1>2. OpsFit'
    BY DEF Crash, OpsFit
<1>3. expected' \in [Tables -> Seq(Rows)]
    <2> DEFINE rows(t) == FlattenSeq([i \in 1..MaxPages |-> disk[<<t, i - 1>>]])
    <2>1. \A t \in Tables : rows(t) \in Seq(Rows)
        BY RowsAreTyped DEF Typed, BufferTyped
    <2>2. expected' = [t \in Tables |-> rows(t)]
        BY DEF Crash
    <2> HIDE DEF rows
    <2> QED
        BY <2>1, <2>2
<1>4. crashes' \in 0..MaxCrashes /\ cut' \in BOOLEAN
    BY StorageAssumption DEF Crash, Typed, RestTyped
<1> QED
    BY <1>1, <1>2, <1>3, <1>4 DEF Crash, Typed, RestTyped, catalogVars

(* The initial states have their types.                                    *)
LEMMA InitIsTyped == Init => Typed
<1> SUFFICES ASSUME Init PROVE Typed
    OBVIOUS
<1>1. BufferTyped
    <2>1. Aged(buffer_pool, 0)
        BY DEF Init, Aged, NotLoaded
    <2>2. buffer_pool \in [Addresses -> BufferPage \cup {NotLoaded}]
        BY DEF Init
    <2>3. InitialContents \in [Addresses -> Seq(Rows)]
        <3>1. \A k \in Addresses : InitialPages[k[1]] \in Seq(Seq(Rows)) /\ k[2] \in Nat
            BY StorageAssumption, BufferAssumption DEF Addresses
        <3>2. <<>> \in Seq(Rows)
            OBVIOUS
        <3>3. ASSUME NEW k \in Addresses, k[2] < Len(InitialPages[k[1]])
              PROVE  InitialPages[k[1]][k[2] + 1] \in Seq(Rows)
            BY <3>1, <3>3
        <3> QED
            BY <3>2, <3>3 DEF InitialContents
    <2>4. \A t \in Tables : Len(InitialPages[t]) \in 0..MaxPages
        <3> SUFFICES ASSUME NEW t \in Tables PROVE Len(InitialPages[t]) \in 0..MaxPages
            OBVIOUS
        <3>1. InitialPages[t] \in Seq(Seq(Rows)) /\ Len(InitialPages[t]) <= MaxPages
            BY StorageAssumption
        <3> QED
            BY <3>1, BufferAssumption
    <2>5. file_pages \in [Tables -> 0..MaxPages] /\ disk = InitialContents
        BY <2>4 DEF Init
    <2> QED
        BY <2>1, <2>2, <2>3, <2>5 DEF BufferTyped, BufferTypeOK
<1>2. OpsFit
    BY DEF Init, OpsFit
<1>3. expected \in [Tables -> Seq(Rows)]
    <2>1. ASSUME NEW t \in Tables PROVE FlattenSeq(InitialPages[t]) \in Seq(Rows)
        <3>1. PICK f \in Seq(Seq(Rows)) : f = InitialPages[t]
            BY StorageAssumption
        <3>2. CASE Len(f) = 0
            <4>1. f = <<>> /\ <<>> \in Seq(Rows)
                BY <3>2
            <4>2. FlattenSeq(<<>>) = <<>>
                BY DEF FlattenSeq
            <4> QED
                BY <3>1, <4>1, <4>2
        <3>3. CASE Len(f) # 0
            <4>1. Len(f) \in Nat \ {0} /\ f \in [1..Len(f) -> Seq(Rows)]
                BY <3>3
            <4> QED
                BY <3>1, <4>1, FlattenIsSequence
        <3> QED
            BY <3>2, <3>3
    <2> QED
        BY <2>1 DEF Init
<1>4. tables_meta \in [exists : BOOLEAN, names : SUBSET Tables] /\ schemas \in SUBSET Tables
    BY DEF Init
<1>5. 0 \in 0..MaxStatements /\ 0 \in 0..MaxCrashes
    BY StorageAssumption
<1> QED
    BY <1>1, <1>2, <1>3, <1>4, <1>5 DEF Typed, RestTyped, Init

(* Every step keeps the types.                                             *)
LEMMA EveryStepIsTyped == Inv /\ Typed /\ [Next]_vars => Typed'
<1> SUFFICES ASSUME Inv, Typed, [Next]_vars PROVE Typed'
    OBVIOUS
<1>1. ASSUME NEW s \in Sessions, Continue(s) PROVE Typed'
    BY <1>1, TakingIsTyped, LeavingIsTyped, EndingIsTyped, CatalogIsTyped DEF Continue
<1>2. ASSUME NEW s \in Sessions, NEW t \in Tables, Begin(s, t) PROVE Typed'
    <2>1. CASE \E where \in Clauses : full_scan(s, t, where) \/ delete_block(s, t, where)
                   \/ \E new \in Rows : write_block_update(s, t, where, new)
        BY <2>1, ScanIsTyped
    <2>2. CASE \E row \in Rows : write_block_insert(s, t, row)
        BY <2>2, InsertIsTyped
    <2>3. CASE create_table(s, t) \/ drop_table(s, t)
        BY <2>3, DDLIsTyped
    <2> QED
        BY <1>2, <2>1, <2>2, <2>3 DEF Begin
<1>3. CASE UNCHANGED vars
    BY <1>3 DEF vars, Typed, BufferTyped, BufferTypeOK, Aged, OpsFit, RestTyped,
        bufferVars, catalogVars, historyVars, boundVars
<1> QED
    BY <1>1, <1>2, <1>3, CheckpointTyped, CrashIsTyped DEF Next

(* Every variable of the pool, the disk, the statements and the catalogue  *)
(* keeps its type: a statement takes the steps of its kind and no page     *)
(* number leaves its table.                                                *)
THEOREM TypesHold == Spec => []TypeOK
<1>1. Inv /\ Typed => TypeOK
    BY AllAreTyped
<1> QED
    BY InitEstablishes, InitIsTyped, EveryStep, EveryStepIsTyped, <1>1, PTL DEF Spec

-----------------------------------------------------------------------------
(* What the pages of a table have to do with the rows it ought to have     *)
(* while a statement is at it: o is the statement, f the pages, e the rows *)
(* expected.                                                               *)

EmptyFrom(f, n) == \A i \in 1..MaxPages : i > n => f[i] = <<>>

(* A row to insert is still missing, and belongs behind the others.        *)
Inserts(o, f, e) ==
    /\ e = IF o.at = "done" THEN FlattenSeq(f) ELSE Append(FlattenSeq(f), o.new)
    /\ o.at \in {"get", "use", "put"} => EmptyFrom(f, o.page + 1)

(* The pages before o.page have been changed.                              *)
Changed(o, f) == [i \in 1..MaxPages |-> IF i - 1 < o.page THEN f[i] ELSE Change(o)[f[i]]]
Changes(o, f, e) ==
    IF o.at = "done" THEN e = FlattenSeq(f)
    ELSE e = FlattenSeq(Changed(o, f)) /\ EmptyFrom(f, o.pages)

(* The rows of the pages before o.page have been collected.                *)
Seen(o, f) == [i \in 1..MaxPages |-> IF i - 1 < o.page THEN Choice(o)[f[i]] ELSE <<>>]
Picked(o, f) == [i \in 1..MaxPages |-> Choice(o)[f[i]]]
Collects(o, f) ==
    IF o.at = "done" THEN o.rows = FlattenSeq(Picked(o, f))
    ELSE o.rows = FlattenSeq(Seen(o, f)) /\ EmptyFrom(f, o.pages)

Progress(o, f, e) ==
    /\ o.kind = "insert" => Inserts(o, f, e)
    /\ o.kind \in {"update", "delete"} => Changes(o, f, e)
    /\ o.kind = "select" => Collects(o, f)
    /\ o.kind \in {"create", "drop"} => e = FlattenSeq(f)

(* A statement's effect does not depend on how far it is.                  *)
LEMMA ChangeStays ==
    ASSUME NEW o, NEW step, NEW page, NEW rows
    PROVE  /\ Change(Moved(o, step, page, rows)) = Change(o)
           /\ Choice(Moved(o, step, page, rows)) = Choice(o)
BY DEF Change, Choice, Moved

(* A page without rows has none afterwards.                                *)
LEMMA EffectOfEmpty ==
    ASSUME NEW o, o.new \in Rows
    PROVE  /\ Change(o) \in [Seq(Rows) -> Seq(Rows)] /\ Choice(o) \in [Seq(Rows) -> Seq(Rows)]
           /\ Change(o)[<<>>] = <<>> /\ Choice(o)[<<>>] = <<>>
<1>1. <<>> \in Seq(Rows)
    OBVIOUS
<1>2. Distributes(Rows, Change(o)) /\ Distributes(Rows, Choice(o))
    BY ChangeDistributes, ChoiceDistributes
<1>3. Change(o) \in [Seq(Rows) -> Seq(Rows)] /\ Choice(o) \in [Seq(Rows) -> Seq(Rows)]
    BY <1>2 DEF Distributes
<1>4. Replaced(<<>>, o.where, o.new) = <<>>
    BY ReplacedStep
<1>5. Without(<<>>, o.where) = <<>> /\ Matching(<<>>, o.where) = <<>>
    <2>1. \A w : Matching(<<>>, w) = <<>>
        BY MatchingStep
    <2> QED
        BY <2>1 DEF Without
<1>6. Change(o)[<<>>] = <<>>
    BY <1>1, <1>4, <1>5 DEF Change
<1>7. Choice(o)[<<>>] = <<>>
    BY <1>1, <1>5 DEF Choice
<1> QED
    BY <1>3, <1>6, <1>7

(* A SELECT has read one page more.                                        *)
LEMMA CollectsPage ==
    ASSUME NEW o, o.kind = "select", o.at # "done", o.new \in Rows, o.rows \in Seq(Rows),
           o.page \in 0..(MaxPages - 1), o.pages \in 0..MaxPages, o.page < o.pages,
           NEW f \in [1..MaxPages -> Seq(Rows)], Collects(o, f),
           NEW n, n = Moved(o, IF o.page + 1 < o.pages THEN "get" ELSE "done",
                            IF o.page + 1 < o.pages THEN o.page + 1 ELSE o.page,
                            o.rows \o Choice(o)[f[o.page + 1]])
    PROVE  Collects(n, f)
<1> DEFINE p == o.page + 1
           q == Choice(o)[f[p]]
           seen == Seen(o, f)
           next == [i \in 1..MaxPages |-> IF i - 1 < p THEN Choice(o)[f[i]] ELSE <<>>]
<1>1. MaxPages \in Nat \ {0} /\ p \in 1..MaxPages /\ p <= o.pages
    BY BufferAssumption
<1>2. /\ Choice(o) \in [Seq(Rows) -> Seq(Rows)] /\ Choice(o)[<<>>] = <<>> /\ <<>> \in Seq(Rows)
      /\ Choice(n) = Choice(o)
    BY EffectOfEmpty, ChangeStays
<1>3. q \in Seq(Rows) /\ seen \in [1..MaxPages -> Seq(Rows)] /\ next \in [1..MaxPages -> Seq(Rows)]
    BY <1>1, <1>2 DEF Seen
<1>4. \A i \in 1..MaxPages : i > p => seen[i] = <<>>
    BY <1>1 DEF Seen
<1>5. seen[p] = <<>> /\ next[p] = q
    BY <1>1 DEF Seen
<1>6. next[p] = seen[p] \o q
    <2> HIDE DEF seen, next, q, p
    <2>1. <<>> \o q = q
        BY <1>3
    <2> QED
        BY <1>5, <2>1
<1>7. \A i \in 1..MaxPages \ {p} : next[i] = seen[i]
    <2> SUFFICES ASSUME NEW i \in 1..MaxPages, i # p PROVE next[i] = seen[i]
        OBVIOUS
    <2>1. (i - 1 < p) <=> (i - 1 < o.page)
        BY <1>1
    <2> QED
        BY <2>1 DEF Seen
<1>8. Longer(Rows, MaxPages, seen, p, q, next)
    <2> HIDE DEF seen, next, q, p
    <2> QED
        BY <1>1, <1>3, <1>4, <1>6, <1>7 DEF Longer
<1>9. o.rows = FlattenSeq(seen) /\ EmptyFrom(f, o.pages)
    BY DEF Collects
<1>10. CASE o.page + 1 < o.pages
    <2>1. /\ n.at = "get" /\ n.page = p /\ n.pages = o.pages /\ n.rows = o.rows \o q
        BY <1>10 DEF Moved
    <2>2. Seen(n, f) = next
        BY <1>2, <2>1 DEF Seen
    <2> HIDE DEF seen, next, q, p
    <2>3. FlattenSeq(next) = FlattenSeq(seen) \o q
        BY <1>8, FlattenLonger
    <2> QED
        BY <1>9, <2>1, <2>2, <2>3 DEF Collects
<1>11. CASE ~(o.page + 1 < o.pages)
    <2>1. n.at = "done" /\ n.rows = o.rows \o q
        BY <1>11 DEF Moved
    <2>2. \A i \in 1..MaxPages : i - 1 < p \/ f[i] = <<>>
        BY <1>1, <1>9, <1>11 DEF EmptyFrom
    <2>3. Picked(n, f) = next
        BY <1>2, <2>2 DEF Picked
    <2> HIDE DEF seen, next, q, p
    <2>4. FlattenSeq(next) = FlattenSeq(seen) \o q
        BY <1>8, FlattenLonger
    <2> QED
        BY <1>9, <2>1, <2>3, <2>4 DEF Collects
<1> QED
    BY <1>10, <1>11

(* An UPDATE or a DELETE has changed one page more.                        *)
LEMMA ChangesPage ==
    ASSUME NEW o, o.at # "done", o.new \in Rows,
           o.page \in 0..(MaxPages - 1), o.pages \in 0..MaxPages, o.page < o.pages,
           NEW f \in [1..MaxPages -> Seq(Rows)], NEW e, Changes(o, f, e),
           NEW g \in [1..MaxPages -> Seq(Rows)], g[o.page + 1] = Change(o)[f[o.page + 1]],
           \A i \in 1..MaxPages \ {o.page + 1} : g[i] = f[i],
           NEW n, NEW rows, n = Moved(o, IF o.page + 1 < o.pages THEN "get" ELSE "done",
                            IF o.page + 1 < o.pages THEN o.page + 1 ELSE o.page, rows)
    PROVE  Changes(n, g, e)
<1> DEFINE p == o.page + 1
<1>1. MaxPages \in Nat \ {0} /\ p \in 1..MaxPages /\ p <= o.pages
    <2>1. MaxPages \in Nat \ {0}
        BY BufferAssumption
    <2> QED
        BY ONLY <2>1, o.page \in 0..(MaxPages - 1), o.pages \in 0..MaxPages, o.page < o.pages
<1>2. Change(o)[<<>>] = <<>> /\ Change(n) = Change(o)
    BY EffectOfEmpty, ChangeStays
<1>3. e = FlattenSeq(Changed(o, f)) /\ EmptyFrom(f, o.pages)
    BY DEF Changes
<1>4. CASE o.page + 1 < o.pages
    <2>1. n.at = "get" /\ n.page = p /\ n.pages = o.pages
        BY <1>4 DEF Moved
    <2>2. ASSUME NEW i \in 1..MaxPages
          PROVE  (IF i - 1 < p THEN g[i] ELSE Change(o)[g[i]]) =
                 (IF i - 1 < o.page THEN f[i] ELSE Change(o)[f[i]])
        <3>1. i - 1 < o.page \/ i = p \/ i > p
            BY <1>1
        <3> QED
            BY <1>1, <3>1
    <2>3. Changed(n, g) = Changed(o, f)
        BY <1>2, <2>1, <2>2 DEF Changed
    <2>4. EmptyFrom(g, o.pages)
        BY <1>1, <1>3 DEF EmptyFrom
    <2> QED
        BY <1>3, <2>1, <2>3, <2>4 DEF Changes
<1>5. CASE ~(o.page + 1 < o.pages)
    <2>1. n.at = "done"
        BY <1>5 DEF Moved
    <2>2. ASSUME NEW i \in 1..MaxPages
          PROVE  g[i] = IF i - 1 < o.page THEN f[i] ELSE Change(o)[f[i]]
        <3>1. CASE i - 1 < o.page
            BY <1>1, <3>1
        <3>2. CASE i = p
            BY <1>1, <3>2
        <3>3. CASE i > p
            <4>1. f[i] = <<>> /\ g[i] = f[i]
                BY <1>1, <1>3, <1>5, <3>3 DEF EmptyFrom
            <4> QED
                BY <1>1, <1>2, <3>3, <4>1
        <3>4. i - 1 < o.page \/ i = p \/ i > p
            BY <1>1
        <3> QED
            BY <3>1, <3>2, <3>3, <3>4
    <2>3. g = Changed(o, f)
        BY <2>2 DEF Changed
    <2> QED
        BY <1>3, <2>1, <2>3 DEF Changes
<1> QED
    BY <1>4, <1>5

(* A row has been put behind the others.                                   *)
LEMMA InsertsRow ==
    ASSUME NEW o, o.at # "done", o.new \in Rows, o.page \in 0..(MaxPages - 1),
           NEW f \in [1..MaxPages -> Seq(Rows)], NEW e, Inserts(o, f, e),
           o.at \in {"use", "put"},
           NEW g \in [1..MaxPages -> Seq(Rows)], g[o.page + 1] = Append(f[o.page + 1], o.new),
           \A i \in 1..MaxPages \ {o.page + 1} : g[i] = f[i]
    PROVE  e = FlattenSeq(g)
<1> DEFINE p == o.page + 1
           q == <<o.new>>
<1>1. MaxPages \in Nat \ {0} /\ p \in 1..MaxPages /\ q \in Seq(Rows)
    BY BufferAssumption
<1>2. e = Append(FlattenSeq(f), o.new) /\ EmptyFrom(f, p)
    BY DEF Inserts
<1>3. FlattenSeq(f) \in Seq(Rows)
    BY <1>1, FlattenIsSequence
<1>4. \A s \in Seq(Rows) : Append(s, o.new) = s \o q
    OBVIOUS
<1>5. g[p] = f[p] \o q
    BY <1>1, <1>4
<1>6. \A i \in 1..MaxPages : i > p => f[i] = <<>>
    BY <1>2 DEF EmptyFrom
<1>7. \A i \in 1..MaxPages \ {p} : g[i] = f[i]
    OBVIOUS
<1> HIDE DEF p, q
<1>8. Longer(Rows, MaxPages, f, p, q, g)
    BY <1>1, <1>5, <1>6, <1>7 DEF Longer, p
<1>9. FlattenSeq(g) = FlattenSeq(f) \o q
    BY <1>8, FlattenLonger
<1> QED
    BY <1>2, <1>3, <1>4, <1>9

(* A statement that ends has left the table as it should.                  *)
LEMMA DoneIsRight ==
    ASSUME NEW o, o.kind \in Kinds \ {"select"}, o.at = "done", NEW f, NEW e, Progress(o, f, e)
    PROVE  e = FlattenSeq(f)
BY DEF Progress, Inserts, Changes, Kinds

(* Pages without rows.                                                     *)
LEMMA NoRows ==
    ASSUME NEW f \in [1..MaxPages -> Seq(Rows)], EmptyFrom(f, 0)
    PROVE  FlattenSeq(f) = <<>>
<1>1. \A i \in 1..MaxPages : f[i] = <<>>
    BY DEF EmptyFrom
<1> QED
    BY <1>1, BufferAssumption, FlattenIsSequence

(* Statements that begin with n pages.                                     *)
LEMMA SelectBegins ==
    ASSUME NEW o, o.kind = "select", o.new \in Rows, o.page = 0, o.rows = <<>>,
           o.pages \in 0..MaxPages,
           o.at = (IF o.pages = 0 THEN "done" ELSE "get"),
           NEW f \in [1..MaxPages -> Seq(Rows)], EmptyFrom(f, o.pages)
    PROVE  Collects(o, f)
<1>1. /\ Choice(o) \in [Seq(Rows) -> Seq(Rows)] /\ Choice(o)[<<>>] = <<>> /\ <<>> \in Seq(Rows)
    BY EffectOfEmpty
<1>2. Seen(o, f) \in [1..MaxPages -> Seq(Rows)] /\ EmptyFrom(Seen(o, f), 0)
    BY <1>1, BufferAssumption DEF Seen, EmptyFrom
<1>3. FlattenSeq(Seen(o, f)) = <<>>
    BY <1>2, NoRows
<1>4. CASE o.pages = 0
    <2>1. Picked(o, f) \in [1..MaxPages -> Seq(Rows)] /\ EmptyFrom(Picked(o, f), 0)
        BY <1>1, <1>4 DEF Picked, EmptyFrom
    <2> QED
        BY <1>4, <2>1, NoRows DEF Collects
<1> QED
    BY <1>3, <1>4 DEF Collects

(* An UPDATE or a DELETE has everything before it when it begins.          *)
LEMMA ChangeBegins ==
    ASSUME NEW o, o.new \in Rows, o.page = 0, o.pages \in 0..MaxPages,
           o.at = (IF o.pages = 0 THEN "done" ELSE "get"),
           NEW f \in [1..MaxPages -> Seq(Rows)], EmptyFrom(f, o.pages)
    PROVE  Changes(o, f, Change(o)[FlattenSeq(f)])
<1> DEFINE c == [i \in 1..MaxPages |-> Change(o)[f[i]]]
<1>1. /\ Change(o) \in [Seq(Rows) -> Seq(Rows)] /\ Change(o)[<<>>] = <<>>
      /\ Distributes(Rows, Change(o)) /\ MaxPages \in Nat \ {0}
    BY EffectOfEmpty, ChangeDistributes, BufferAssumption
<1>2. FlattenSeq(c) = Change(o)[FlattenSeq(f)]
    <2>1. Through(MaxPages, f, Change(o), c)
        BY DEF Through
    <2> HIDE DEF c
    <2> QED
        BY <1>1, <2>1, FlattenThrough
<1>3. CASE o.pages = 0
    <2>1. FlattenSeq(f) = <<>>
        BY <1>3, NoRows
    <2> QED
        BY <1>1, <1>3, <2>1 DEF Changes
<1>4. CASE o.pages # 0
    <2>1. \A i \in 1..MaxPages : ~(i - 1 < o.page)
        BY <1>1
    <2>2. Changed(o, f) = c
        BY <2>1 DEF Changed
    <2> QED
        BY <1>2, <1>4, <2>2 DEF Changes
<1> QED
    BY <1>3, <1>4

-----------------------------------------------------------------------------
(* The tables and what is expected of them.                                *)

SoundTables == \A k \in Addresses : k[1] \notin spoiled => Sound(View(k)) /\ Sound(disk[k])

TableRight(t) ==
    /\ Writing(t) \/ expected[t] = FlattenSeq(Pages(t))
    /\ \A z \in On(t) : Progress(op[z], Pages(t), expected[t])

TablesRight == \A t \in Tables \ spoiled : TableRight(t)

Right == SoundTables /\ TablesRight

(* Sound pages are kept: the tables are the same.                          *)
LEMMA QuietPages ==
    ASSUME SoundTables, spoiled' = spoiled,
           \A k \in Addresses : Sound(View(k)) => View(k)' = View(k) /\ disk'[k] \in {disk[k], View(k)}
    PROVE  SoundTables' /\ \A t \in Tables \ spoiled : Pages(t)' = Pages(t)
<1>1. ASSUME NEW k \in Addresses, k[1] \notin spoiled
      PROVE  View(k)' = View(k) /\ Sound(View(k)) /\ Sound(disk'[k])
    BY <1>1 DEF SoundTables
<1>2. ASSUME NEW t \in Tables \ spoiled PROVE Pages(t)' = Pages(t)
    <2>1. ASSUME NEW i \in 1..MaxPages PROVE View(<<t, i - 1>>)' = View(<<t, i - 1>>)
        <3>1. PICK k \in Addresses : k = <<t, i - 1>>
            BY PagesOfTable
        <3> QED
            BY <1>1, <3>1
    <2> QED
        BY <2>1 DEF Pages
<1>3. SoundTables'
    BY <1>1 DEF SoundTables
<1> QED
    BY <1>2, <1>3

(* A session moves while the rows of table t stay.                         *)
LEMMA SamePages ==
    ASSUME NEW s \in Sessions, OnlyMoves(s), NEW t \in Tables, TableRight(t),
           Pages(t)' = Pages(t), expected'[t] = expected[t],
           Writing(t)' \/ expected[t] = FlattenSeq(Pages(t)),
           op'[s] # Idle /\ op'[s].table = t => Progress(op'[s], Pages(t), expected[t])
    PROVE  TableRight(t)'
<1>1. ASSUME NEW z \in On(t)' PROVE Progress(op'[z], Pages(t), expected[t])
    <2>1. z \in Sessions /\ op'[z] # Idle /\ op'[z].table = t
        BY DEF On, Active
    <2>2. CASE z = s
        BY <2>1, <2>2
    <2>3. CASE z # s
        <3>1. op'[z] = op[z]
            BY <2>1, <2>3 DEF OnlyMoves
        <3>2. z \in On(t)
            BY <2>1, <3>1 DEF On, Active
        <3> QED
            BY <3>1, <3>2 DEF TableRight
    <2> QED
        BY <2>2, <2>3
<1> QED
    BY <1>1 DEF TableRight

(* A session moves elsewhere.                                              *)
LEMMA ElsewhereRight ==
    ASSUME NEW s \in Sessions, OnlyMoves(s), NEW t \in Tables, TableRight(t),
           Pages(t)' = Pages(t), expected'[t] = expected[t],
           op[s] = Idle \/ op[s].table # t, op'[s] = Idle \/ op'[s].table # t
    PROVE  TableRight(t)'
<1>1. ASSUME Writing(t) PROVE Writing(t)'
    <2>1. PICK z \in On(t) : op[z].kind # "select"
        BY <1>1 DEF Writing
    <2>2. z # s /\ z \in Sessions /\ op[z] # Idle /\ op[z].table = t
        BY DEF On, Active
    <2>3. op'[z] = op[z]
        BY <2>2 DEF OnlyMoves
    <2>4. z \in On(t)'
        BY <2>2, <2>3 DEF On, Active
    <2> QED
        BY <2>1, <2>3, <2>4 DEF Writing
<1> QED
    BY <1>1, SamePages DEF TableRight

(* The only session at table t moves.                                      *)
LEMMA WriterRight ==
    ASSUME NEW s \in Sessions, OnlyMoves(s), NEW t \in Tables, On(t) \subseteq {s},
           Writing(t)' \/ expected'[t] = FlattenSeq(Pages(t)'),
           op'[s] # Idle /\ op'[s].table = t => Progress(op'[s], Pages(t)', expected'[t])
    PROVE  TableRight(t)'
<1>1. ASSUME NEW z \in On(t)' PROVE Progress(op'[z], Pages(t)', expected'[t])
    <2>1. z \in Sessions /\ op'[z] # Idle /\ op'[z].table = t
        BY DEF On, Active
    <2>2. CASE z = s
        BY <2>1, <2>2
    <2>3. CASE z # s
        <3>1. op'[z] = op[z]
            BY <2>1, <2>3 DEF OnlyMoves
        <3>2. z \in On(t)
            BY <2>1, <3>1 DEF On, Active
        <3> QED
            BY <2>3, <3>2
    <2> QED
        BY <2>2, <2>3
<1> QED
    BY <1>1 DEF TableRight

(* A statement that goes on is still at its table.                         *)
LEMMA MovedIsActive ==
    ASSUME NEW s \in Sessions, OnlyMoves(s), op[s] # Idle, NEW step \in Steps, NEW page, NEW rows,
           op'[s] = Moved(op[s], step, page, rows), NEW t
    PROVE  /\ op'[s] # Idle /\ op'[s].table = op[s].table /\ op'[s].kind = op[s].kind
           /\ Writing(t) => Writing(t)'
<1>1. op'[s] # Idle /\ op'[s].table = op[s].table /\ op'[s].kind = op[s].kind
    BY DEF Moved, Idle, Steps
<1>2. ASSUME Writing(t) PROVE Writing(t)'
    <2>1. PICK z \in On(t) : op[z].kind # "select"
        BY <1>2 DEF Writing
    <2>2. z \in Sessions /\ op[z] # Idle /\ op[z].table = t
        BY DEF On, Active
    <2>3. op'[z] # Idle /\ op'[z].table = t /\ op'[z].kind = op[z].kind
        BY <1>1, <2>2 DEF OnlyMoves
    <2>4. z \in On(t)'
        BY <2>2, <2>3 DEF On, Active
    <2> QED
        BY <2>1, <2>3, <2>4 DEF Writing
<1> QED
    BY <1>1, <1>2

(* A statement goes on, the rows of all tables stay.                       *)
LEMMA QuietStep ==
    ASSUME NEW s \in Sessions, OnlyMoves(s), op[s] # Idle, NEW step \in Steps, NEW page, NEW rows,
           op'[s] = Moved(op[s], step, page, rows), TablesRight, spoiled' = spoiled,
           expected' = expected, \A t \in Tables \ spoiled : Pages(t)' = Pages(t),
           NEW t0, t0 = op[s].table,
           t0 \notin spoiled /\ Progress(op[s], Pages(t0), expected[t0]) =>
               Progress(op'[s], Pages(t0), expected[t0])
    PROVE  TablesRight'
<1> SUFFICES ASSUME NEW t \in Tables \ spoiled PROVE TableRight(t)'
    BY DEF TablesRight
<1>1. TableRight(t) /\ Pages(t)' = Pages(t) /\ expected'[t] = expected[t]
    BY DEF TablesRight
<1>2. /\ op'[s] # Idle /\ op'[s].table = t0
      /\ Writing(t) => Writing(t)'
    BY MovedIsActive
<1>3. Writing(t)' \/ expected[t] = FlattenSeq(Pages(t))
    BY <1>1, <1>2 DEF TableRight
<1>4. op'[s].table = t => Progress(op'[s], Pages(t), expected[t])
    <2> SUFFICES ASSUME t = t0 PROVE Progress(op'[s], Pages(t), expected[t])
        BY <1>2
    <2>1. s \in On(t)
        BY DEF On, Active
    <2> QED
        BY <1>1, <2>1 DEF TableRight
<1> QED
    BY <1>1, <1>3, <1>4, SamePages

(* A statement that changes its table is alone on it.                      *)
LEMMA AloneOn ==
    ASSUME Inv, NEW s \in Sessions, op[s] # Idle, op[s].kind # "select"
    PROVE  On(op[s].table) \subseteq {s}
<1> SUFFICES ASSUME NEW z \in On(op[s].table) PROVE z = s
    OBVIOUS
<1>1. z \in Active /\ op[z].table = op[s].table /\ s \in Active
    BY DEF On, Active
<1> QED
    BY <1>1 DEF Inv, ChangesAlone

(* A statement that changes rows leaves its page.                          *)
LEMMA LeavesRight ==
    ASSUME Inv, Right, NEW s \in Sessions, OnlyMoves(s), op[s] # Idle, op[s].kind # "select",
           NEW step \in Steps, NEW page, NEW rows,
           op'[s] = Moved(op[s], step, page, rows), expected' = expected,
           NEW k \in Addresses, k = Key(s), NEW left, Left(k, left),
           NEW t0, t0 = op[s].table, NEW p \in 1..MaxPages, p - 1 = op[s].page, NEW f, f = Pages(t0),
           t0 \notin spoiled /\ Progress(op[s], f, expected[t0]) =>
               Progress(op'[s], [f EXCEPT ![p] = left], expected[t0])
    PROVE  Right'
<1>1. k[1] = t0 /\ k[2] = p - 1 /\ t0 \in Tables
    BY DEF Key, Addresses
<1>2. spoiled \subseteq spoiled' /\ (t0 \notin spoiled' => Sound(left))
    BY <1>1 DEF Left
<1>3. SoundTables'
    <2> SUFFICES ASSUME NEW j \in Addresses, j[1] \notin spoiled'
                 PROVE  Sound(View(j)') /\ Sound(disk'[j])
        BY DEF SoundTables
    <2>1. Sound(View(j)) /\ Sound(disk[j]) /\ disk' = disk
        BY <1>2 DEF Right, SoundTables, Left
    <2>2. CASE j = k
        BY <1>1, <1>2, <2>1, <2>2 DEF Left
    <2>3. CASE j # k
        BY <2>1, <2>3 DEF Left
    <2> QED
        BY <2>2, <2>3
<1>4. ASSUME NEW t \in Tables \ spoiled' PROVE TableRight(t)'
    <2>1. TableRight(t)
        BY <1>2 DEF Right, TablesRight
    <2>2. \A i \in 1..MaxPages : <<t, i - 1>> \in Addresses
        BY PagesOfTable
    <2>3. op'[s] # Idle /\ op'[s].table = t0 /\ op'[s].kind = op[s].kind
        BY MovedIsActive
    <2>4. CASE t # t0
        <3>1. ASSUME NEW i \in 1..MaxPages PROVE View(<<t, i - 1>>)' = View(<<t, i - 1>>)
            <4>1. PICK j \in Addresses : j = <<t, i - 1>>
                BY <2>2
            <4>2. j # k
                BY <1>1, <2>4, <4>1
            <4> QED
                BY <4>1, <4>2 DEF Left
        <3>2. Pages(t)' = Pages(t)
            BY <3>1 DEF Pages
        <3> QED
            BY <2>1, <2>3, <2>4, <3>2, ElsewhereRight
    <2>5. CASE t = t0
        <3>1. ASSUME NEW i \in 1..MaxPages
              PROVE  View(<<t, i - 1>>)' = IF i = p THEN left ELSE View(<<t, i - 1>>)
            <4>1. PICK j \in Addresses : j = <<t, i - 1>>
                BY <2>2
            <4>2. CASE i = p
                <5>1. j = k
                    BY <1>1, <2>5, <4>1, <4>2 DEF Key
                <5> QED
                    BY <4>1, <4>2, <5>1 DEF Left
            <4>3. CASE i # p
                <5>1. j[2] = i - 1 /\ i - 1 # p - 1
                    BY <4>1, <4>3
                <5>2. j # k
                    BY <1>1, <5>1
                <5> QED
                    BY <4>1, <4>3, <5>2 DEF Left
            <4> QED
                BY <4>2, <4>3
        <3>2. f = [i \in 1..MaxPages |-> View(<<t, i - 1>>)]
            BY <2>5 DEF Pages
        <3>3. Pages(t)' = [f EXCEPT ![p] = left]
            <4>1. Pages(t)' = [i \in 1..MaxPages |-> IF i = p THEN left ELSE View(<<t, i - 1>>)]
                BY <3>1 DEF Pages
            <4> QED
                BY <3>2, <4>1
        <3>4. s \in On(t)
            BY <2>5 DEF On, Active
        <3>5. Progress(op[s], f, expected[t0])
            BY <2>1, <2>5, <3>4 DEF TableRight
        <3>6. Progress(op'[s], Pages(t)', expected'[t])
            BY <1>2, <2>5, <3>3, <3>5
        <3>7. Writing(t)'
            BY <2>3, <2>5 DEF Writing, On, Active
        <3>8. On(t) \subseteq {s}
            BY <2>5, AloneOn
        <3> QED
            BY <3>6, <3>7, <3>8, WriterRight
    <2> QED
        BY <2>4, <2>5
<1> QED
    BY <1>3, <1>4 DEF Right, TablesRight

(* A statement begins and leaves the pool alone.                           *)
LEMMA BeginsRight ==
    ASSUME Inv, Right, NEW s \in Sessions, op[s] = Idle, UNCHANGED bufferVars, spoiled' = spoiled,
           NEW o, o # Idle, op' = [op EXCEPT ![s] = o], NEW t \in Tables, t = o.table,
           ~Writing(t), On(t) = {} \/ o.kind = "select",
           o.kind = "select" => expected'[t] = expected[t],
           \A z \in Tables \ {t} : expected'[z] = expected[z],
           t \notin spoiled /\ expected[t] = FlattenSeq(Pages(t)) => Progress(o, Pages(t), expected'[t])
    PROVE  Right'
<1>1. OnlyMoves(s) /\ op'[s] = o
    BY DEF Inv, OpsTyped, OnlyMoves
<1>2. (\A k : View(k)' = View(k)) /\ disk' = disk
    BY DEF View, bufferVars
<1>3. SoundTables'
    BY <1>2 DEF Right, SoundTables
<1>4. ASSUME NEW z \in Tables \ spoiled PROVE TableRight(z)'
    <2>1. TableRight(z) /\ Pages(z)' = Pages(z)
        BY <1>2 DEF Right, TablesRight, Pages
    <2>2. CASE z # t
        BY <1>1, <2>1, <2>2, ElsewhereRight
    <2>3. CASE z = t
        <3>1. expected[t] = FlattenSeq(Pages(t))
            BY <2>1, <2>3 DEF TableRight
        <3>2. Progress(o, Pages(t), expected'[t])
            BY <2>3, <3>1
        <3>3. CASE o.kind = "select"
            BY <1>1, <2>1, <2>3, <3>1, <3>2, <3>3, SamePages
        <3>4. CASE o.kind # "select"
            <4>1. Writing(t)'
                BY <1>1, <3>4 DEF Writing, On, Active
            <4>2. On(t) \subseteq {s}
                BY <3>4
            <4> QED
                BY <1>1, <2>1, <2>3, <3>2, <4>1, <4>2, WriterRight
        <3> QED
            BY <3>3, <3>4
    <2> QED
        BY <2>2, <2>3
<1> QED
    BY <1>3, <1>4 DEF Right, TablesRight

(* What a session does with a page before it changes it is not seen.       *)
LEMMA PinnedIsQuiet ==
    ASSUME NEW k \in Addresses, Pinned(k)
    PROVE  \A j \in Addresses : Sound(View(j)) =>
               View(j)' = View(j) /\ disk'[j] \in {disk[j], View(j)}
BY DEF Pinned, OthersKept

(* A statement before and after it takes a page.                           *)
LEMMA TakingGoesOn ==
    ASSUME NEW o, NEW page, NEW f, NEW e, Progress(o, f, e), o.kind \in Kinds,
           NEW n, \/ o.at = "get" /\ o.kind \notin {"create", "drop"}
                     /\ n = Moved(o, "use", o.page, o.rows)
                  \/ o.at = "new" /\ o.kind = "insert" /\ n = Moved(o, "put", page, o.rows)
                     /\ EmptyFrom(f, page + 1)
    PROVE  Progress(n, f, e)
<1>1. Change(n) = Change(o) /\ Choice(n) = Choice(o)
    BY ChangeStays
<1>2. CASE o.at = "get"
    <2>1. /\ n.at = "use" /\ n.kind = o.kind /\ n.page = o.page /\ n.pages = o.pages
          /\ n.rows = o.rows /\ n.new = o.new /\ o.kind \notin {"create", "drop"}
        BY <1>2 DEF Moved
    <2>2. Changed(n, f) = Changed(o, f) /\ Seen(n, f) = Seen(o, f)
        BY <1>1, <2>1 DEF Changed, Seen
    <2> QED
        BY <1>2, <2>1, <2>2 DEF Progress, Inserts, Changes, Collects
<1>3. CASE o.at = "new"
    <2>1. /\ n.at = "put" /\ n.kind = "insert" /\ n.page = page /\ n.new = o.new
          /\ o.kind = "insert" /\ EmptyFrom(f, page + 1)
        BY <1>3 DEF Moved
    <2> QED
        BY <1>3, <2>1 DEF Progress, Inserts
<1> QED
    BY <1>2, <1>3

(* GetPage changes no rows.                                                *)
LEMMA GetPageIsRight ==
    ASSUME Inv, Typed, Right, NEW s \in Sessions, GetPage(s)
    PROVE  Right'
<1>1. op[s] # Idle /\ op[s].at = "get" /\ IsStatement(op[s]) /\ Fits(op[s])
    BY DEF GetPage, At, Inv, OpsTyped, Typed, OpsFit
<1>2. PICK k \in Addresses : k = Key(s)
    BY <1>1 DEF Key, Addresses, IsStatement
<1>3. Pinned(k)
    BY <1>2, GetPagePins DEF GetPage, Inv
<1>4. spoiled' = spoiled /\ expected' = expected /\ op' = [op EXCEPT ![s].at = "use"]
    BY DEF GetPage, historyVars
<1>5. SoundTables' /\ \A t \in Tables \ spoiled : Pages(t)' = Pages(t)
    BY <1>3, <1>4, PinnedIsQuiet, QuietPages DEF Right
<1>6. OnlyMoves(s) /\ op'[s] = Moved(op[s], "use", op[s].page, op[s].rows)
    BY <1>1, <1>4, AtChanges DEF Inv
<1>7. op[s].kind \in Kinds \ {"create", "drop"}
    BY <1>1 DEF IsStatement, Fits, Kinds
<1> DEFINE t0 == op[s].table
<1>8. Progress(op[s], Pages(t0), expected[t0]) => Progress(op'[s], Pages(t0), expected[t0])
    BY <1>1, <1>6, <1>7, TakingGoesOn
<1>9. "use" \in Steps
    BY DEF Steps
<1> HIDE DEF t0
<1>10. TablesRight'
    BY <1>1, <1>4, <1>5, <1>6, <1>8, <1>9, QuietStep DEF Right, t0
<1> QED
    BY <1>5, <1>10 DEF Right

(* NewPage changes no rows: the page behind the last one has none.         *)
LEMMA NewPageIsRight ==
    ASSUME Inv, Typed, Right, NEW s \in Sessions, NewPage(s)
    PROVE  Right'
<1>1. op[s] # Idle /\ op[s].at = "new" /\ IsStatement(op[s]) /\ Fits(op[s])
    BY DEF NewPage, At, Inv, OpsTyped, Typed, OpsFit
<1>2. op[s].table \in Tables
    BY <1>1 DEF IsStatement
<1> DEFINE t0 == op[s].table
           n == get_max_page_id(t0) + 1
<1>3. /\ n \in 0..(MaxPages - 1) /\ n - 1 >= file_pages[t0] - 1
      /\ \A j \in Resident : j[1] = t0 => j[2] <= n - 1
    <2>1. /\ get_max_page_id(t0) \in -1..(MaxPages - 1)
          /\ get_max_page_id(t0) >= file_pages[t0] - 1
          /\ \A j \in Resident : j[1] = t0 => j[2] <= get_max_page_id(t0)
        BY <1>2, LastPage DEF Inv, PoolInv
    <2>2. n < MaxPages
        BY DEF NewPage
    <2> QED
        BY <2>1, <2>2, BufferAssumption
<1>4. file_pages[t0] \in 0..MaxPages
    BY <1>2 DEF Inv, PoolInv, PoolTyped
<1>5. PICK k \in Addresses : k = <<t0, n>>
    BY <1>2, <1>3 DEF Addresses
<1>6. new_page(k)
    BY <1>5 DEF NewPage
<1>7. EmptyFrom(Pages(t0), n + 1)
    <2> SUFFICES ASSUME NEW i \in 1..MaxPages, i > n + 1 PROVE Pages(t0)[i] = <<>>
        BY DEF EmptyFrom
    <2>1. PICK j \in Addresses : j = <<t0, i - 1>> /\ Pages(t0)[i] = View(j)
        BY <1>2, PagesOfTable
    <2>2. get_max_page_id(t0) \in Int
        BY <1>2, LastPage DEF Inv, PoolInv
    <2>3. j[1] = t0 /\ j[2] > get_max_page_id(t0)
        BY <2>1, <2>2
    <2> QED
        BY <1>2, <2>1, <2>3, NothingBehind DEF Inv
<1> HIDE DEF n
<1>8. k \notin Resident /\ k[2] >= file_pages[k[1]]
    BY <1>3, <1>4, <1>5
<1>9. Pinned(k)
    BY <1>6, <1>8, NewPagePins DEF Inv
<1>10. spoiled' = spoiled /\ expected' = expected
    BY DEF NewPage, historyVars
<1>11. SoundTables' /\ \A t \in Tables \ spoiled : Pages(t)' = Pages(t)
    BY <1>9, <1>10, PinnedIsQuiet, QuietPages DEF Right
<1>12. OnlyMoves(s) /\ op'[s] = Moved(op[s], "put", n, op[s].rows)
    BY NewPageChanges DEF Inv, n
<1>13. op[s].kind = "insert" /\ op[s].kind \in Kinds
    BY <1>1 DEF IsStatement, Fits, Kinds, Scans
<1>14. Progress(op[s], Pages(t0), expected[t0]) => Progress(op'[s], Pages(t0), expected[t0])
    BY <1>1, <1>7, <1>12, <1>13, TakingGoesOn
<1>15. "put" \in Steps
    BY DEF Steps
<1> HIDE DEF t0
<1>16. TablesRight'
    BY <1>1, <1>10, <1>11, <1>12, <1>14, <1>15, QuietStep DEF Right, t0
<1> QED
    BY <1>11, <1>16 DEF Right

(* A page that is left as it was.                                          *)
LEMMA LeftAsItWas ==
    ASSUME Right, NEW k \in Addresses, k[1] \in Tables, Left(k, View(k))
    PROVE  SoundTables' /\ spoiled' = spoiled /\ \A t \in Tables \ spoiled : Pages(t)' = Pages(t)
<1>1. \A j \in Addresses : View(j)' = View(j) /\ disk'[j] = disk[j]
    BY DEF Left
<1>2. spoiled' = spoiled
    BY DEF Left, Right, SoundTables
<1> QED
    BY <1>1, <1>2, QuietPages DEF Right

(* ScanPage does to one page what the statement has to do to all.          *)
LEMMA ScanPageIsRight ==
    ASSUME Inv, Typed, Right, NEW s \in Sessions, ScanPage(s)
    PROVE  Right'
<1>1. /\ op[s] # Idle /\ op[s].at = "use" /\ IsStatement(op[s]) /\ Fits(op[s]) /\ Using(s)
      /\ op[s].kind # "insert" /\ expected' = expected
    BY DEF ScanPage, At, Inv, OpsTyped, Typed, OpsFit, Using, Leave
<1>2. op[s].new \in Rows /\ op[s].rows \in Seq(Rows) /\ op[s].table \in Tables
    BY <1>1 DEF Fits, IsStatement
<1>3. op[s].kind \in Scans /\ op[s].page \in 0..(MaxPages - 1) /\ op[s].pages \in 0..MaxPages
      /\ op[s].page < op[s].pages
    BY <1>1 DEF Fits, IsStatement, Kinds, Scans
<1>4. PICK k \in Addresses :
          k = Key(s) /\ Left(k, IF op[s].kind = "select" THEN View(k) ELSE Change(op[s])[View(k)])
    BY <1>2, ScanPageLeaves DEF Typed
<1> DEFINE t0 == op[s].table
           p == op[s].page + 1
           f == Pages(t0)
           e == expected[t0]
           more == op[s].page + 1 < op[s].pages
           hit == Matching(buffer_pool[Key(s)].rows, op[s].where)
           step == IF more THEN "get" ELSE "done"
           page == IF more THEN op[s].page + 1 ELSE op[s].page
           rows == IF op[s].kind = "select" THEN op[s].rows \o hit ELSE op[s].rows
<1>5. OnlyMoves(s) /\ op'[s] = Moved(op[s], step, page, rows)
    BY ScanPageChanges DEF Inv
<1>6. step \in Steps
    BY DEF Steps
<1>7. f \in [1..MaxPages -> Seq(Rows)]
    BY <1>2, RowsAreTyped DEF Typed, BufferTyped
<1>8. p \in 1..MaxPages /\ p - 1 = op[s].page
    BY <1>3, BufferAssumption
<1>9. k = <<t0, p - 1>> /\ f[p] = View(k)
    BY <1>2, <1>4, <1>8, PagesOfTable DEF Key
<1>10. CASE op[s].kind = "select"
    <2>1. k[1] \in Tables /\ Left(k, View(k))
        BY <1>2, <1>4, <1>9, <1>10
    <2>2. SoundTables' /\ spoiled' = spoiled /\ \A t \in Tables \ spoiled : Pages(t)' = Pages(t)
        BY <2>1, LeftAsItWas
    <2>3. hit = Choice(op[s])[f[p]]
        <3>1. View(k) = buffer_pool[Key(s)].rows
            BY <1>1, <1>4, PageInUse
        <3>2. f[p] \in Seq(Rows)
            BY <1>7, <1>8
        <3> QED
            BY <1>9, <3>1, <3>2 DEF Choice
    <2>4. op'[s] = Moved(op[s], step, page, op[s].rows \o Choice(op[s])[f[op[s].page + 1]])
        BY <1>5, <1>10, <2>3
    <2>5. Collects(op[s], f) => Collects(op'[s], f)
        <3> HIDE DEF f
        <3> QED
            BY <1>1, <1>2, <1>3, <1>7, <1>10, <2>4, CollectsPage
    <2>6. op'[s].kind = "select"
        BY <1>5, <1>10 DEF Moved
    <2>7. Progress(op[s], f, e) => Progress(op'[s], f, e)
        BY <1>10, <2>5, <2>6 DEF Progress
    <2> HIDE DEF t0, rows, page, step
    <2>8. TablesRight'
        BY <1>1, <1>5, <1>6, <2>2, <2>7, QuietStep DEF Right, t0
    <2> QED
        BY <2>2, <2>8 DEF Right
<1>11. CASE op[s].kind # "select"
    <2> DEFINE left == Change(op[s])[View(k)]
               g == [f EXCEPT ![p] = left]
    <2>1. Left(k, left)
        BY <1>4, <1>11
    <2>2. left \in Seq(Rows)
        <3>1. f[p] \in Seq(Rows) /\ Change(op[s]) \in [Seq(Rows) -> Seq(Rows)]
            BY <1>2, <1>7, <1>8, EffectOfEmpty
        <3> QED
            BY <1>9, <3>1
    <2>3. g \in [1..MaxPages -> Seq(Rows)] /\ g[op[s].page + 1] = Change(op[s])[f[op[s].page + 1]]
          /\ \A i \in 1..MaxPages \ {op[s].page + 1} : g[i] = f[i]
        <3> HIDE DEF left, f
        <3>1. left = Change(op[s])[f[p]]
            BY <1>9 DEF left
        <3> QED
            BY <1>7, <1>8, <2>2, <3>1
    <2>4. Changes(op[s], f, e) => Changes(op'[s], g, e)
        <3>1. op'[s] = Moved(op[s], IF op[s].page + 1 < op[s].pages THEN "get" ELSE "done",
                            IF op[s].page + 1 < op[s].pages THEN op[s].page + 1 ELSE op[s].page, rows)
            BY <1>5
        <3> HIDE DEF f, g, e, rows
        <3> QED
            BY <1>1, <1>2, <1>3, <1>7, <2>3, <3>1, ChangesPage
    <2>5. op'[s].kind = op[s].kind /\ op[s].kind \in {"update", "delete"}
        BY <1>3, <1>5, <1>11 DEF Moved, Scans
    <2>6. Progress(op[s], f, e) => Progress(op'[s], g, e)
        <3> HIDE DEF f, g, e
        <3> QED
            BY <2>4, <2>5 DEF Progress
    <2>7. \E u :
            u = f /\ (Progress(op[s], u, expected[t0])
                        => Progress(op'[s], [u EXCEPT ![p] = left], expected[t0]))
        BY <2>6
    <2>8. PICK u :
            u = Pages(t0) /\ (Progress(op[s], u, expected[t0])
                        => Progress(op'[s], [u EXCEPT ![p] = left], expected[t0]))
        BY <2>7
    <2> HIDE DEF t0, rows, page, step, left, f, g, p
    <2> QED
        BY <1>1, <1>4, <1>5, <1>6, <1>8, <1>11, <2>1, <2>8, LeavesRight DEF t0
<1> QED
    BY <1>10, <1>11

(* A row goes into the page, or does not fit.                              *)
LEMMA RowIsRight ==
    ASSUME Inv, Typed, Right, NEW s \in Sessions, InsertRow(s) \/ PutRow(s)
    PROVE  Right'
<1>1. /\ op[s] # Idle /\ op[s].at \in {"use", "put"} /\ IsStatement(op[s]) /\ Fits(op[s]) /\ Using(s)
      /\ expected' = expected
    BY DEF InsertRow, PutRow, At, Inv, OpsTyped, Typed, OpsFit, Using, Leave
<1>2. op[s].kind = "insert"
    BY <1>1 DEF InsertRow, PutRow, At, Fits, IsStatement, Kinds, Scans
<1>3. op[s].new \in Rows /\ op[s].table \in Tables /\ op[s].page \in 0..(MaxPages - 1)
    BY <1>1 DEF Fits, IsStatement
<1> DEFINE t0 == op[s].table
           p == op[s].page + 1
           f == Pages(t0)
           e == expected[t0]
<1>4. f \in [1..MaxPages -> Seq(Rows)]
    BY <1>3, RowsAreTyped DEF Typed, BufferTyped
<1>5. p \in 1..MaxPages /\ p - 1 = op[s].page
    BY <1>3, BufferAssumption
<1>6. PICK k \in Addresses : k = Key(s)
    BY <1>1, PageInUse
<1>7. k = <<t0, p - 1>> /\ f[p] = View(k) /\ View(k) = buffer_pool[Key(s)].rows
    BY <1>1, <1>3, <1>5, <1>6, PagesOfTable, PageInUse DEF Key
<1> DEFINE old == View(k)
           new == Append(old, op[s].new)
<1>8. \/ Leave(s, new, TRUE) /\ op' = [op EXCEPT ![s].at = "done"]
      \/ Leave(s, old, FALSE) /\ op' = [op EXCEPT ![s].at = "new"]
    BY <1>7 DEF InsertRow, PutRow
<1>9. "done" \in Steps /\ "new" \in Steps
    BY DEF Steps
<1>10. CASE Leave(s, new, TRUE) /\ op' = [op EXCEPT ![s].at = "done"]
    <2> DEFINE g == [f EXCEPT ![p] = new]
    <2>1. OnlyMoves(s) /\ op'[s] = Moved(op[s], "done", op[s].page, op[s].rows)
        BY <1>1, <1>10, AtChanges DEF Inv
    <2>2. Left(k, new)
        <3> HIDE DEF new
        <3>1. \E j \in Addresses : j = Key(s) /\ Left(j, new)
            BY <1>1, <1>10, LeaveKeeps
        <3> QED
            BY <1>6, <3>1
    <2>3. g \in [1..MaxPages -> Seq(Rows)] /\ g[op[s].page + 1] = Append(f[op[s].page + 1], op[s].new)
          /\ \A i \in 1..MaxPages \ {op[s].page + 1} : g[i] = f[i]
        <3>1. new = Append(f[p], op[s].new)
            BY <1>7
        <3>2. f[p] \in Seq(Rows)
            BY <1>4, <1>5
        <3> HIDE DEF new, f
        <3>3. new \in Seq(Rows)
            BY <1>3, <3>1, <3>2
        <3> QED
            BY <1>4, <1>5, <3>1, <3>3
    <2>4. Inserts(op[s], f, e) => e = FlattenSeq(g)
        <3> HIDE DEF f, g, e
        <3>1. op[s].at # "done"
            BY <1>1
        <3> QED
            BY <1>1, <1>3, <1>4, <2>3, <3>1, InsertsRow
    <2>5. op'[s].kind = "insert" /\ op'[s].at = "done"
        BY <1>2, <2>1 DEF Moved
    <2>6. Progress(op[s], f, e) => Progress(op'[s], g, e)
        <3> HIDE DEF f, g, e
        <3> QED
            BY <1>2, <2>4, <2>5 DEF Progress, Inserts
    <2>7. \E u :
            u = f /\ (Progress(op[s], u, expected[t0])
                        => Progress(op'[s], [u EXCEPT ![p] = new], expected[t0]))
        BY <2>6
    <2>8. PICK u :
            u = Pages(t0) /\ (Progress(op[s], u, expected[t0])
                        => Progress(op'[s], [u EXCEPT ![p] = new], expected[t0]))
        BY <2>7
    <2> HIDE DEF t0, new, f, g, p
    <2> QED
        BY <1>1, <1>2, <1>5, <1>6, <1>9, <2>1, <2>2, <2>8, LeavesRight DEF t0
<1>11. CASE Leave(s, old, FALSE) /\ op' = [op EXCEPT ![s].at = "new"]
    <2>1. OnlyMoves(s) /\ op'[s] = Moved(op[s], "new", op[s].page, op[s].rows)
        BY <1>1, <1>11, AtChanges DEF Inv
    <2>2. Left(k, View(k))
        <3>1. \E j \in Addresses : j = Key(s) /\ Left(j, old)
            BY <1>1, <1>7, <1>11, LeaveKeeps
        <3> QED
            BY <1>6, <3>1
    <2>3. SoundTables' /\ spoiled' = spoiled /\ \A t \in Tables \ spoiled : Pages(t)' = Pages(t)
        BY <1>3, <1>7, <2>2, LeftAsItWas
    <2>4. op'[s].kind = "insert" /\ op'[s].at = "new" /\ op'[s].new = op[s].new
        BY <1>2, <2>1 DEF Moved
    <2>5. Progress(op[s], f, e) => Progress(op'[s], f, e)
        <3> HIDE DEF f, e
        <3> QED
            BY <1>1, <1>2, <2>4 DEF Progress, Inserts
    <2> HIDE DEF t0
    <2>6. TablesRight'
        BY <1>1, <1>9, <2>1, <2>3, <2>5, QuietStep DEF Right, t0
    <2> QED
        BY <2>3, <2>6 DEF Right
<1> QED
    BY <1>8, <1>10, <1>11

(* A statement that returns has done what it had to, and one that throws   *)
(* leaves what is there.                                                   *)
LEMMA EndingIsRight ==
    ASSUME Inv, Typed, Right, NEW s \in Sessions, Return(s) \/ AllPagesPinned(s)
    PROVE  Right'
<1>1. /\ op[s] # Idle /\ IsStatement(op[s]) /\ op' = [op EXCEPT ![s] = Idle]
      /\ UNCHANGED <<buffer_pool, disk, file_pages, spoiled>>
    BY DEF Return, AllPagesPinned, At, bufferVars, historyVars, Inv, OpsTyped
<1>2. OnlyMoves(s) /\ op'[s] = Idle
    BY <1>1 DEF Inv, OpsTyped, OnlyMoves
<1>3. (\A k : View(k)' = View(k)) /\ disk' = disk
    BY <1>1 DEF View
<1>4. SoundTables'
    BY <1>1, <1>3 DEF Right, SoundTables
<1> DEFINE t0 == op[s].table
<1>5. expected' = expected \/ expected' = [expected EXCEPT ![t0] = Actual(t0)]
    BY DEF Return, AllPagesPinned, historyVars
<1>6. ASSUME NEW t \in Tables \ spoiled PROVE TableRight(t)'
    <2>1. TableRight(t) /\ Pages(t)' = Pages(t)
        BY <1>3 DEF Right, TablesRight, Pages
    <2>2. expected \in [Tables -> Seq(Rows)]
        BY DEF Typed, RestTyped
    <2>3. CASE t # t0
        <3>1. expected'[t] = expected[t]
            BY <1>5, <2>2, <2>3
        <3> QED
            BY <1>2, <2>1, <2>3, <3>1, ElsewhereRight
    <2>4. CASE t = t0 /\ op[s].kind = "select"
        <3>1. expected' = expected
            BY <2>4 DEF Return, AllPagesPinned, historyVars
        <3>2. ~Writing(t)
            <4> SUFFICES ASSUME NEW z \in On(t), op[z].kind # "select" PROVE FALSE
                BY DEF Writing
            <4>1. z \in Active /\ s \in Active /\ op[z].table = t /\ op[s].table = t
                BY <1>1, <2>4 DEF On, Active
            <4>2. z = s
                BY <4>1 DEF Inv, ChangesAlone
            <4> QED
                BY <2>4, <4>2
        <3>3. expected[t] = FlattenSeq(Pages(t))
            BY <2>1, <3>2 DEF TableRight
        <3> QED
            BY <1>2, <2>1, <3>1, <3>3, SamePages
    <2>5. CASE t = t0 /\ op[s].kind # "select"
        <3>1. expected'[t] = FlattenSeq(Pages(t))
            <4>1. CASE Return(s)
                <5>1. op[s].at = "done" /\ expected' = expected /\ s \in On(t)
                    BY <1>1, <2>5, <4>1 DEF Return, At, historyVars, On, Active
                <5>2. Progress(op[s], Pages(t), expected[t])
                    BY <2>1, <5>1 DEF TableRight
                <5>3. op[s].kind \in Kinds \ {"select"}
                    BY <1>1, <2>5 DEF IsStatement
                <5> QED
                    BY <5>1, <5>2, <5>3, DoneIsRight
            <4>2. CASE AllPagesPinned(s)
                <5>1. expected' = [expected EXCEPT ![t] = Actual(t)]
                    BY <2>5, <4>2 DEF AllPagesPinned
                <5>2. Actual(t) = FlattenSeq(Pages(t))
                    BY PagesOfTable
                <5> QED
                    BY <2>2, <5>1, <5>2
            <4> QED
                BY <4>1, <4>2
        <3>2. On(t) \subseteq {s}
            BY <1>1, <2>5, AloneOn
        <3> QED
            BY <1>2, <2>1, <3>1, <3>2, WriterRight
    <2> QED
        BY <2>3, <2>4, <2>5
<1> QED
    BY <1>1, <1>4, <1>6 DEF Right, TablesRight

(* The steps on the list of tables change no rows.                         *)
LEMMA CatalogIsRight ==
    ASSUME Inv, Typed, Right, NEW s \in Sessions,
           RemoveSchema(s) \/ RemoveMeta(s) \/ RenameMeta(s) \/ AddSchema(s)
    PROVE  Right'
<1>1. PICK step \in {"data", "rename", "add", "done"} : op' = [op EXCEPT ![s].at = step]
    BY DEF RemoveSchema, RemoveMeta, RenameMeta, AddSchema, Proceed
<1>2. /\ op[s] # Idle /\ IsStatement(op[s]) /\ Fits(op[s])
      /\ op[s].at \in {"schema", "remove", "rename", "add"}
    BY DEF RemoveSchema, RemoveMeta, RenameMeta, AddSchema, At, Inv, OpsTyped, Typed, OpsFit
<1>3. op[s].kind \in {"create", "drop"}
    BY <1>2 DEF IsStatement, Fits, Kinds, Scans
<1>4. UNCHANGED <<buffer_pool, disk, expected, spoiled>>
    BY DEF RemoveSchema, RemoveMeta, RenameMeta, AddSchema, bufferVars, historyVars
<1>5. OnlyMoves(s) /\ op'[s] = Moved(op[s], step, op[s].page, op[s].rows)
    BY <1>1, <1>2, AtChanges DEF Inv
<1>6. SoundTables' /\ \A t \in Tables \ spoiled : Pages(t)' = Pages(t)
    <2>1. \A k \in Addresses : View(k)' = View(k) /\ disk'[k] = disk[k]
        BY <1>4 DEF View
    <2> QED
        BY <1>4, <2>1, QuietPages DEF Right
<1> DEFINE t0 == op[s].table
           f == Pages(t0)
           e == expected[t0]
<1>7. op'[s].kind = op[s].kind
    BY <1>5 DEF Moved
<1>8. Progress(op[s], f, e) => Progress(op'[s], f, e)
    <2> HIDE DEF f, e
    <2> QED
        BY <1>3, <1>7 DEF Progress
<1>9. step \in Steps
    BY DEF Steps
<1> HIDE DEF t0
<1>10. TablesRight'
    BY <1>2, <1>4, <1>5, <1>6, <1>8, <1>9, QuietStep DEF Right, t0
<1> QED
    BY <1>6, <1>10 DEF Right

(* The file goes, and the rows with it.                                    *)
LEMMA RemoveDataIsRight ==
    ASSUME Inv, Typed, Right, NEW s \in Sessions, RemoveData(s)
    PROVE  Right'
<1>1. op[s] # Idle /\ op[s].at = "data" /\ IsStatement(op[s]) /\ op[s].kind = "drop"
    BY DEF RemoveData, At, Inv, OpsTyped, IsStatement
<1>2. PICK t0 \in Tables : t0 = op[s].table
    BY <1>1 DEF IsStatement
<1>3. RemoveFile(t0) /\ \A k \in Resident : k[1] # t0
    BY <1>1, <1>2 DEF RemoveData, Inv, DropsEmpty, Active
<1>4. \A j \in Addresses : View(j)' = IF j[1] = t0 THEN <<>> ELSE View(j)
    BY <1>3, RemoveFileKeeps DEF Inv
<1>5. \A j \in Addresses : disk'[j] = IF j[1] = t0 THEN <<>> ELSE disk[j]
    BY <1>3 DEF RemoveFile
<1>6. OnlyMoves(s) /\ op'[s] = Moved(op[s], "remove", op[s].page, op[s].rows)
    BY <1>1, AtChanges DEF RemoveData, Proceed, Inv
<1>7. spoiled' = spoiled \ {t0} /\ expected' = [expected EXCEPT ![t0] = <<>>]
    BY <1>2 DEF RemoveData
<1>8. SoundTables'
    <2> SUFFICES ASSUME NEW j \in Addresses, j[1] \notin spoiled'
                 PROVE  Sound(View(j)') /\ Sound(disk'[j])
        BY DEF SoundTables
    <2>1. CASE j[1] = t0
        BY <1>4, <1>5, <2>1, EmptyIsSound
    <2>2. CASE j[1] # t0
        BY <1>4, <1>5, <1>7, <2>2 DEF Right, SoundTables
    <2> QED
        BY <2>1, <2>2
<1>9. op'[s] # Idle /\ op'[s].table = t0 /\ op'[s].kind = "drop"
    BY <1>1, <1>2, <1>6 DEF Moved, Idle
<1>10. expected \in [Tables -> Seq(Rows)]
    BY DEF Typed, RestTyped
<1>11. ASSUME NEW t \in Tables \ spoiled' PROVE TableRight(t)'
    <2>1. \A i \in 1..MaxPages : <<t, i - 1>> \in Addresses
        BY PagesOfTable
    <2>2. \A i \in 1..MaxPages : View(<<t, i - 1>>)' = IF t = t0 THEN <<>> ELSE View(<<t, i - 1>>)
        <3> SUFFICES ASSUME NEW i \in 1..MaxPages
                     PROVE  View(<<t, i - 1>>)' = IF t = t0 THEN <<>> ELSE View(<<t, i - 1>>)
            OBVIOUS
        <3>1. PICK j \in Addresses : j = <<t, i - 1>>
            BY <2>1
        <3>2. j[1] = t
            BY <3>1
        <3> QED
            BY <1>4, <3>1, <3>2
    <2>3. CASE t # t0
        <3>1. Pages(t)' = Pages(t) /\ expected'[t] = expected[t] /\ t \notin spoiled
            BY <1>7, <1>10, <2>2, <2>3 DEF Pages
        <3> QED
            BY <1>2, <1>6, <1>9, <2>3, <3>1, ElsewhereRight DEF Right, TablesRight
    <2>4. CASE t = t0
        <3>1. \E f \in [1..MaxPages -> Seq(Rows)] : f = Pages(t)' /\ EmptyFrom(f, 0)
            <4> DEFINE f == [i \in 1..MaxPages |-> <<>>]
            <4>1. <<>> \in Seq(Rows) /\ MaxPages \in Nat
                BY BufferAssumption
            <4>2. f \in [1..MaxPages -> Seq(Rows)] /\ EmptyFrom(f, 0)
                BY <4>1 DEF EmptyFrom
            <4>3. f = Pages(t)'
                BY <2>2, <2>4 DEF Pages
            <4> HIDE DEF f
            <4> QED
                BY <4>2, <4>3
        <3>2. PICK f \in [1..MaxPages -> Seq(Rows)] : f = Pages(t)' /\ EmptyFrom(f, 0)
            BY <3>1
        <3>3. expected'[t] = FlattenSeq(Pages(t)')
            BY <1>7, <1>10, <2>4, <3>2, NoRows
        <3>4. Progress(op'[s], Pages(t)', expected'[t])
            BY <1>9, <3>3 DEF Progress
        <3>5. On(t) \subseteq {s}
            BY <1>1, <1>2, <2>4, AloneOn
        <3> QED
            BY <1>6, <3>3, <3>4, <3>5, WriterRight
    <2> QED
        BY <2>3, <2>4
<1> QED
    BY <1>8, <1>11 DEF Right, TablesRight

(* The pages a statement finds when it begins are all there are.           *)
LEMMA PagesAtBegin ==
    ASSUME Inv, Typed, NEW t \in Tables
    PROVE  /\ Pages(t) \in [1..MaxPages -> Seq(Rows)]
           /\ get_max_page_id(t) \in -1..(MaxPages - 1)
           /\ get_max_page_id(t) + 1 \in 0..MaxPages
           /\ EmptyFrom(Pages(t), get_max_page_id(t) + 1)
<1>1. get_max_page_id(t) \in -1..(MaxPages - 1)
    BY LastPage DEF Inv, PoolInv
<1>2. EmptyFrom(Pages(t), get_max_page_id(t) + 1)
    <2> SUFFICES ASSUME NEW i \in 1..MaxPages, i > get_max_page_id(t) + 1 PROVE Pages(t)[i] = <<>>
        BY DEF EmptyFrom
    <2>1. PICK j \in Addresses : j = <<t, i - 1>> /\ Pages(t)[i] = View(j)
        BY PagesOfTable
    <2>2. j[1] = t /\ j[2] > get_max_page_id(t)
        BY <1>1, <2>1, BufferAssumption
    <2> QED
        BY <2>1, <2>2, NothingBehind DEF Inv
<1>3. Pages(t) \in [1..MaxPages -> Seq(Rows)]
    BY RowsAreTyped DEF Typed, BufferTyped
<1>4. get_max_page_id(t) + 1 \in 0..MaxPages
    BY <1>1, BufferAssumption
<1> QED
    BY <1>1, <1>2, <1>3, <1>4

(* When a scan begins, the rows expected are those it has to leave.        *)
LEMMA ScanIsRight ==
    ASSUME Inv, Typed, Right, NEW s \in Sessions, NEW t \in Tables, NEW where \in Clauses,
           full_scan(s, t, where) \/ delete_block(s, t, where)
               \/ \E new \in Rows : write_block_update(s, t, where, new)
    PROVE  Right'
<1> DEFINE n == get_max_page_id(t)
           step == IF n = -1 THEN "done" ELSE "get"
           o(kind, new) == [at |-> step, kind |-> kind, table |-> t, where |-> where, new |-> new,
                 page |-> 0, pages |-> n + 1, rows |-> <<>>, names |-> {}]
<1>1. PICK kind \in Scans, new \in Rows :
          /\ Scan(s, kind, t, where, new) /\ op[s] = Idle /\ ~Writing(t)
          /\ kind = "select" => expected' = expected
          /\ kind # "select" => On(t) = {}
          /\ kind = "update" => expected' = [expected EXCEPT ![t] = Replaced(expected[t], where, new)]
          /\ kind = "delete" => expected' = [expected EXCEPT ![t] = Without(expected[t], where)]
    <2>1. CASE full_scan(s, t, where)
        BY <2>1, AnyRowIsRow DEF full_scan, Ready, Scans
    <2>2. CASE delete_block(s, t, where)
        BY <2>2, AnyRowIsRow DEF delete_block, Ready, Scans
    <2>3. CASE \E new \in Rows : write_block_update(s, t, where, new)
        BY <2>3 DEF write_block_update, Ready, Scans
    <2> QED
        BY <2>1, <2>2, <2>3
<1>2. op' = [op EXCEPT ![s] = o(kind, new)] /\ UNCHANGED <<bufferVars, spoiled>>
    BY <1>1 DEF Scan, Started
<1>3. PICK f \in [1..MaxPages -> Seq(Rows)] : f = Pages(t)
    BY PagesAtBegin
<1>4. n \in -1..(MaxPages - 1) /\ n + 1 \in 0..MaxPages /\ EmptyFrom(f, n + 1)
    BY <1>3, PagesAtBegin
<1>5. PICK q : q = o(kind, new)
    OBVIOUS
<1>6. /\ q.kind = kind /\ q.new = new /\ q.page = 0 /\ q.rows = <<>> /\ q.pages = n + 1
      /\ q.at = step /\ q.table = t /\ q.where = where
    BY <1>5
<1>7. q.at = IF q.pages = 0 THEN "done" ELSE "get"
    BY <1>4, <1>6
<1>8. expected \in [Tables -> Seq(Rows)] /\ FlattenSeq(f) \in Seq(Rows)
    BY BufferAssumption, FlattenIsSequence DEF Typed, RestTyped
<1>9. q # Idle
    <2>1. q.at \in Steps
        BY <1>7 DEF Steps
    <2> QED
        BY <2>1 DEF Idle, Steps
<1> HIDE DEF n, step, o
<1>10. ASSUME expected[t] = FlattenSeq(f) PROVE Progress(q, f, expected'[t])
    <2>1. CASE kind = "select"
        <3>1. Collects(q, f)
            BY <1>1, <1>4, <1>6, <1>7, <2>1, SelectBegins
        <3> QED
            BY <1>6, <2>1, <3>1 DEF Progress
    <2>2. CASE kind # "select"
        <3>1. Changes(q, f, Change(q)[FlattenSeq(f)])
            BY <1>1, <1>4, <1>6, <1>7, ChangeBegins
        <3>2. Change(q)[FlattenSeq(f)] = IF kind = "update" THEN Replaced(FlattenSeq(f), where, new)
                                         ELSE Without(FlattenSeq(f), where)
            BY <1>6, <1>8 DEF Change
        <3>3. kind \in {"update", "delete"}
            BY <1>1, <2>2 DEF Scans
        <3>4. expected'[t] = Change(q)[FlattenSeq(f)]
            <4>1. CASE kind = "update"
                <5>1. expected' = [expected EXCEPT ![t] = Replaced(expected[t], where, new)]
                    BY <1>1, <4>1
                <5>2. expected'[t] = Replaced(expected[t], where, new)
                    BY <1>8, <5>1
                <5> QED
                    BY <1>10, <3>2, <4>1, <5>2
            <4>2. CASE kind = "delete"
                <5>1. expected' = [expected EXCEPT ![t] = Without(expected[t], where)]
                    BY <1>1, <4>2
                <5>2. expected'[t] = Without(expected[t], where)
                    BY <1>8, <5>1
                <5> QED
                    BY <1>10, <3>2, <4>2, <5>2
            <4> QED
                BY <3>3, <4>1, <4>2
        <3> QED
            BY <1>6, <3>1, <3>3, <3>4 DEF Progress
    <2> QED
        BY <2>1, <2>2
<1>11. \A z \in Tables \ {t} : expected'[z] = expected[z]
    <2> DEFINE u == Replaced(expected[t], where, new)
               d == Without(expected[t], where)
    <2>1. \/ expected' = expected
          \/ expected' = [expected EXCEPT ![t] = u]
          \/ expected' = [expected EXCEPT ![t] = d]
        BY <1>1 DEF Scans
    <2> HIDE DEF u, d
    <2> QED
        BY <1>8, <2>1
<1> QED
    BY <1>1, <1>2, <1>3, <1>5, <1>6, <1>9, <1>10, <1>11, BeginsRight

(* When an INSERT begins, the row expected belongs behind the others.      *)
LEMMA InsertIsRight ==
    ASSUME Inv, Typed, Right, NEW s \in Sessions, NEW t \in Tables, NEW row \in Rows,
           write_block_insert(s, t, row)
    PROVE  Right'
<1> DEFINE n == get_max_page_id(t)
           step == IF n = -1 THEN "new" ELSE "get"
           o == [at |-> step, kind |-> "insert", table |-> t, where |-> {}, new |-> row,
                 page |-> n, pages |-> n + 1, rows |-> <<>>, names |-> {}]
<1>1. /\ op' = [op EXCEPT ![s] = o] /\ UNCHANGED <<bufferVars, spoiled>>
      /\ op[s] = Idle /\ ~Writing(t) /\ On(t) = {}
      /\ expected' = [expected EXCEPT ![t] = Append(expected[t], row)]
    BY DEF write_block_insert, Started, Ready
<1>2. PICK q : q = o
    OBVIOUS
<1>3. /\ q.kind = "insert" /\ q.new = row /\ q.page = n /\ q.at = step /\ q.table = t
      /\ q.at \in {"new", "get"}
    BY <1>2
<1>4. q # Idle
    BY <1>3 DEF Idle
<1>5. EmptyFrom(Pages(t), n + 1)
    BY PagesAtBegin
<1>6. expected \in [Tables -> Seq(Rows)]
    BY DEF Typed, RestTyped
<1> HIDE DEF n, step, o
<1>7. expected'[t] = Append(expected[t], row) /\ \A z \in Tables \ {t} : expected'[z] = expected[z]
    <2> DEFINE a == Append(expected[t], row)
    <2>1. expected' = [expected EXCEPT ![t] = a]
        BY <1>1
    <2> HIDE DEF a
    <2>2. expected'[t] = a /\ \A z \in Tables \ {t} : expected'[z] = expected[z]
        BY <1>6, <2>1
    <2> QED
        BY <2>2 DEF a
<1>8. ASSUME expected[t] = FlattenSeq(Pages(t)) PROVE Progress(q, Pages(t), expected'[t])
    <2> DEFINE f == Pages(t)
    <2>1. expected'[t] = Append(FlattenSeq(f), row) /\ EmptyFrom(f, n + 1)
        BY <1>5, <1>7, <1>8
    <2> HIDE DEF f
    <2>2. Progress(q, f, expected'[t])
        BY <1>3, <2>1 DEF Progress, Inserts
    <2> QED
        BY <2>2 DEF f
<1> QED
    BY <1>1, <1>2, <1>3, <1>4, <1>7, <1>8, BeginsRight

(* A CREATE changes no rows.                                               *)
LEMMA CreateIsRight ==
    ASSUME Inv, Typed, Right, NEW s \in Sessions, NEW t \in Tables, create_table(s, t)
    PROVE  Right'
<1> DEFINE o(step, names) == [at |-> step, kind |-> "create", table |-> t, where |-> {},
                new |-> AnyRow, page |-> 0, pages |-> 0, rows |-> <<>>, names |-> names]
<1>1. PICK step, names : step \in {"remove", "add"} /\ op' = [op EXCEPT ![s] = o(step, names)]
    BY DEF create_table, DDLStarted
<1>2. op[s] = Idle /\ On(t) = {} /\ UNCHANGED <<bufferVars, spoiled, expected>>
    BY DEF create_table, historyVars
<1>3. ~Writing(t)
    BY <1>2 DEF Writing
<1>4. PICK q : q = o(step, names)
    OBVIOUS
<1>5. q.kind = "create" /\ q.table = t /\ q.at = step
    BY <1>4
<1>6. q # Idle
    BY <1>1, <1>5 DEF Idle
<1>7. op' = [op EXCEPT ![s] = q]
    BY <1>1, <1>4
<1> HIDE DEF o
<1>8. ASSUME expected[t] = FlattenSeq(Pages(t)) PROVE Progress(q, Pages(t), expected'[t])
    <2> DEFINE f == Pages(t)
    <2>1. expected'[t] = FlattenSeq(f)
        BY <1>2, <1>8
    <2> HIDE DEF f
    <2>2. Progress(q, f, expected'[t])
        BY <1>5, <2>1 DEF Progress
    <2> QED
        BY <2>2 DEF f
<1> QED
    BY <1>2, <1>3, <1>5, <1>6, <1>7, <1>8, BeginsRight

(* When its pages have left the pool a table is what the disk has.         *)
LEMMA BackToDisk ==
    ASSUME NEW t \in Tables, \A k \in Addresses : k[1] = t => View(k)' = disk[k]
    PROVE  Pages(t)' = [i \in 1..MaxPages |-> disk[<<t, i - 1>>]]
<1>1. ASSUME NEW i \in 1..MaxPages PROVE View(<<t, i - 1>>)' = disk[<<t, i - 1>>]
    <2>1. PICK k \in Addresses : k = <<t, i - 1>>
        BY PagesOfTable
    <2>2. k[1] = t
        BY <2>1
    <2> QED
        BY <2>1, <2>2
<1> QED
    BY <1>1 DEF Pages

(* A DROP begins with what the disk has of the table.                      *)
LEMMA DropIsRight ==
    ASSUME Inv, Typed, Right, NEW s \in Sessions, NEW t \in Tables, drop_table(s, t)
    PROVE  Right'
<1> DEFINE o(step, names) == [at |-> step, kind |-> "drop", table |-> t, where |-> {},
                new |-> AnyRow, page |-> 0, pages |-> 0, rows |-> <<>>, names |-> names]
           stored == FlattenSeq([i \in 1..MaxPages |-> disk[<<t, i - 1>>]])
<1>1. PICK step, names : step \in {"schema", "done"} /\ op' = [op EXCEPT ![s] = o(step, names)]
    <2>1. \/ DDLStarted(s, "drop", t, "schema", tables_meta.names \ {t})
          \/ DDLStarted(s, "drop", t, "done", {})
        BY DEF drop_table
    <2> HIDE DEF stored
    <2> QED
        BY <2>1 DEF DDLStarted
<1>2. /\ op[s] = Idle /\ On(t) = {} /\ evict_table_without_flush(t) /\ spoiled' = spoiled
      /\ expected' = [expected EXCEPT ![t] = stored]
    BY DEF drop_table
<1>3. \A j \in Addresses : View(j)' = IF j[1] = t THEN disk[j] ELSE View(j)
    BY <1>2, EvictTableKeeps DEF Inv
<1>4. disk' = disk
    BY <1>2 DEF evict_table_without_flush
<1>5. SoundTables'
    BY <1>2, <1>3, <1>4 DEF Right, SoundTables
<1>6. PICK q : q = o(step, names)
    OBVIOUS
<1>7. q.kind = "drop" /\ q.table = t /\ q.at = step
    BY <1>6
<1> HIDE DEF o
<1>8. OnlyMoves(s) /\ op'[s] = q /\ q # Idle
    BY <1>1, <1>6, <1>7 DEF Inv, OpsTyped, OnlyMoves, Idle
<1>9. expected \in [Tables -> Seq(Rows)]
    BY DEF Typed, RestTyped
<1>10. ASSUME NEW z \in Tables \ spoiled PROVE TableRight(z)'
    <2>1. TableRight(z)
        BY DEF Right, TablesRight
    <2>2. CASE z # t
        <3>1. expected'[z] = expected[z]
            <4> HIDE DEF stored
            <4> QED
                BY <1>2, <1>9, <2>2
        <3>2. ASSUME NEW i \in 1..MaxPages PROVE View(<<z, i - 1>>)' = View(<<z, i - 1>>)
            <4>1. PICK j \in Addresses : j = <<z, i - 1>>
                BY PagesOfTable
            <4>2. j[1] # t
                BY <2>2, <4>1
            <4> QED
                BY <1>3, <4>1, <4>2
        <3>3. Pages(z)' = Pages(z)
            BY <3>2 DEF Pages
        <3> QED
            BY <1>2, <1>7, <1>8, <2>1, <2>2, <3>1, <3>3, ElsewhereRight
    <2>3. CASE z = t
        <3>1. expected'[t] = FlattenSeq(Pages(t)')
            <4>1. Pages(t)' = [i \in 1..MaxPages |-> disk[<<t, i - 1>>]]
                BY <1>3, BackToDisk
            <4>2. stored = FlattenSeq(Pages(t)')
                BY <4>1
            <4> HIDE DEF stored
            <4>3. expected'[t] = stored
                BY <1>2, <1>9
            <4> QED
                BY <4>2, <4>3
        <3>2. Progress(op'[s], Pages(t)', expected'[t])
            BY <1>7, <1>8, <3>1 DEF Progress
        <3> QED
            BY <1>2, <1>8, <2>3, <3>1, <3>2, WriterRight
    <2> QED
        BY <2>2, <2>3
<1> QED
    BY <1>2, <1>5, <1>10 DEF Right, TablesRight

(* A checkpoint changes no rows.                                           *)
LEMMA CheckpointIsRight ==
    ASSUME Inv, Typed, Right, Checkpoint
    PROVE  Right'
<1>1. checkpoint /\ op' = op /\ spoiled' = spoiled /\ expected' = expected
    BY DEF Checkpoint, historyVars
<1>2. \A j \in Addresses :
         /\ View(j)' = IF j \in Resident THEN View(j) ELSE disk[j]
         /\ Sound(View(j)) => disk'[j] = View(j)
    BY <1>1, CheckpointKeeps DEF Inv
<1>3. \A j \in Addresses : View(j)' = View(j)
    BY <1>2 DEF View, Resident
<1>4. SoundTables' /\ \A t \in Tables \ spoiled : Pages(t)' = Pages(t)
    BY <1>1, <1>2, <1>3, QuietPages DEF Right
<1>5. ASSUME NEW t \in Tables \ spoiled PROVE TableRight(t)'
    <2>1. TableRight(t) /\ Pages(t)' = Pages(t)
        BY <1>4 DEF Right, TablesRight
    <2>2. On(t)' = On(t) /\ (Writing(t)' <=> Writing(t))
        BY <1>1 DEF On, Active, Writing
    <2> QED
        BY <1>1, <2>1, <2>2 DEF TableRight
<1> QED
    BY <1>1, <1>4, <1>5 DEF Right, TablesRight

(* After a crash the rows are those on the disk.                           *)
LEMMA CrashIsRight ==
    ASSUME Inv, Typed, Right, Crash
    PROVE  Right'
<1>1. /\ LosePool /\ op' = [s \in Sessions |-> Idle] /\ spoiled' = spoiled
      /\ expected' = [t \in Tables |-> FlattenSeq([i \in 1..MaxPages |-> disk[<<t, i - 1>>]])]
    BY DEF Crash
<1>2. disk' = disk /\ \A j \in Addresses : View(j)' = disk[j]
    BY <1>1, LosePoolKeeps DEF Inv, LosePool
<1>3. SoundTables'
    BY <1>1, <1>2 DEF Right, SoundTables
<1>4. ASSUME NEW t \in Tables PROVE TableRight(t)'
    <2>1. Pages(t)' = [i \in 1..MaxPages |-> disk[<<t, i - 1>>]]
        BY <1>2, BackToDisk
    <2>2. expected'[t] = FlattenSeq(Pages(t)')
        BY <1>1, <2>1
    <2>3. On(t)' = {}
        BY <1>1 DEF On, Active
    <2> QED
        BY <2>2, <2>3 DEF TableRight
<1> QED
    BY <1>3, <1>4 DEF Right, TablesRight

(* The tables are right at the start.                                      *)
LEMMA InitIsRight == Init => Right
<1> SUFFICES ASSUME Init PROVE Right
    OBVIOUS
<1>1. /\ op = [s \in Sessions |-> Idle] /\ disk = InitialContents
      /\ expected = [t \in Tables |-> FlattenSeq(InitialPages[t])]
      /\ buffer_pool = [k \in Addresses |-> NotLoaded]
    BY DEF Init
<1>2. \A k \in Addresses : View(k) = disk[k]
    BY <1>1, NotLoadedIsPage DEF View
<1>3. SoundTables
    <2> SUFFICES ASSUME NEW k \in Addresses PROVE Sound(disk[k])
        BY <1>2 DEF SoundTables
    <2>1. k[1] \in Tables /\ k[2] \in Nat
        BY BufferAssumption DEF Addresses
    <2>2. InitialPages[k[1]] \in Seq(Seq(Rows))
          /\ \A i \in DOMAIN InitialPages[k[1]] : Sound(InitialPages[k[1]][i])
        BY <2>1, StorageAssumption
    <2>3. CASE k[2] < Len(InitialPages[k[1]])
        <3>1. k[2] + 1 \in DOMAIN InitialPages[k[1]]
            BY <2>1, <2>2, <2>3
        <3> QED
            BY <1>1, <2>2, <2>3, <3>1 DEF InitialContents
    <2>4. CASE ~(k[2] < Len(InitialPages[k[1]]))
        BY <1>1, <2>4, EmptyIsSound DEF InitialContents
    <2> QED
        BY <2>3, <2>4
<1>4. ASSUME NEW t \in Tables PROVE TableRight(t)
    <2>1. PICK f \in Seq(Seq(Rows)) : f = InitialPages[t] /\ Len(f) <= MaxPages
        BY StorageAssumption
    <2>2. MaxPages \in Nat \ {0} /\ Len(f) \in Nat /\ <<>> \in Seq(Rows)
        BY BufferAssumption
    <2>3. PICK g : g = Pages(t)
        OBVIOUS
    <2>4. g = [i \in 1..MaxPages |-> IF i <= Len(f) THEN f[i] ELSE <<>>]
        <3>1. ASSUME NEW i \in 1..MaxPages
              PROVE  View(<<t, i - 1>>) = IF i <= Len(f) THEN f[i] ELSE <<>>
            <4>1. PICK k \in Addresses : k = <<t, i - 1>>
                BY PagesOfTable
            <4>2. k[1] = t /\ k[2] = i - 1 /\ k[2] + 1 = i /\ (k[2] < Len(f) <=> i <= Len(f))
                BY <2>2, <4>1
            <4>3. View(k) = IF k[2] < Len(f) THEN f[k[2] + 1] ELSE <<>>
                BY <1>1, <1>2, <2>1, <4>2 DEF InitialContents
            <4> QED
                BY <4>1, <4>2, <4>3
        <3> QED
            BY <2>3, <3>1 DEF Pages
    <2>5. FlattenSeq(g) = FlattenSeq(f)
        BY <2>1, <2>2, <2>4, FlattenPadded DEF Padded
    <2>6. On(t) = {}
        BY <1>1 DEF On, Active
    <2> QED
        BY <1>1, <2>1, <2>3, <2>5, <2>6 DEF TableRight
<1> QED
    BY <1>3, <1>4 DEF Right, TablesRight

(* Every step keeps the tables right.                                      *)
LEMMA EveryStepIsRight == Inv /\ Typed /\ Right /\ [Next]_vars => Right'
<1> SUFFICES ASSUME Inv, Typed, Right, [Next]_vars PROVE Right'
    OBVIOUS
<1>1. ASSUME NEW s \in Sessions, Continue(s) PROVE Right'
    BY <1>1, GetPageIsRight, NewPageIsRight, ScanPageIsRight, RowIsRight, EndingIsRight,
        CatalogIsRight, RemoveDataIsRight DEF Continue
<1>2. ASSUME NEW s \in Sessions, NEW t \in Tables, Begin(s, t) PROVE Right'
    <2>1. ASSUME NEW where \in Clauses,
                 full_scan(s, t, where) \/ delete_block(s, t, where)
                     \/ \E new \in Rows : write_block_update(s, t, where, new)
          PROVE  Right'
        BY <2>1, ScanIsRight
    <2>2. CASE \E row \in Rows : write_block_insert(s, t, row)
        BY <2>2, InsertIsRight
    <2>3. CASE create_table(s, t)
        BY <2>3, CreateIsRight
    <2>4. CASE drop_table(s, t)
        BY <2>4, DropIsRight
    <2> QED
        BY <1>2, <2>1, <2>2, <2>3, <2>4 DEF Begin
<1>3. CASE UNCHANGED vars
    <2>1. /\ UNCHANGED <<buffer_pool, disk, file_pages>>
          /\ UNCHANGED <<op, expected, spoiled>>
        BY <1>3 DEF vars, bufferVars, historyVars
    <2>2. \A k : View(k)' = View(k)
        BY <2>1 DEF View
    <2>3. \A t : Pages(t)' = Pages(t)
        BY <2>2 DEF Pages
    <2>4. SoundTables'
        BY <2>1, <2>2 DEF Right, SoundTables
    <2>5. ASSUME NEW t \in Tables \ spoiled PROVE TableRight(t)'
        <3>1. TableRight(t) /\ Pages(t)' = Pages(t)
            BY <2>3 DEF Right, TablesRight
        <3>2. On(t)' = On(t) /\ (Writing(t)' <=> Writing(t))
            BY <2>1 DEF On, Active, Writing
        <3> QED
            BY <2>1, <3>1, <3>2 DEF TableRight
    <2> QED
        BY <2>1, <2>4, <2>5 DEF Right, TablesRight
<1> QED
    BY <1>1, <1>2, <1>3, CheckpointIsRight, CrashIsRight DEF Next

(* Right tables are as expected.                                           *)
LEMMA RightTables == Right => TablesAsExpected
<1> SUFFICES ASSUME Right, NEW t \in Tables \ spoiled PROVE Writing(t) \/ Actual(t) = expected[t]
    BY DEF TablesAsExpected
<1>1. TableRight(t)
    BY DEF Right, TablesRight
<1> QED
    BY <1>1, PagesOfTable DEF TableRight

(* The rows picked page after page are those picked of the whole table.    *)
LEMMA PickedIsExact ==
    ASSUME NEW o, NEW f \in [1..MaxPages -> Seq(Rows)]
    PROVE  FlattenSeq(Picked(o, f)) = Matching(FlattenSeq(f), o.where)
<1>1. MaxPages \in Nat \ {0}
    BY BufferAssumption
<1>2. PICK h : h = Choice(o)
    OBVIOUS
<1>3. Distributes(Rows, h) /\ Through(MaxPages, f, h, Picked(o, f))
    BY <1>2, ChoiceDistributes DEF Through, Picked
<1>4. FlattenSeq(Picked(o, f)) = h[FlattenSeq(f)]
    BY <1>1, <1>3, FlattenThrough
<1>5. FlattenSeq(f) \in Seq(Rows)
    BY <1>1, FlattenIsSequence
<1> QED
    BY <1>2, <1>4, <1>5 DEF Choice

(* A SELECT that is done has collected what its clause picks.              *)
LEMMA RightReads == Inv /\ Typed /\ Right => ReadsAreExact
<1> SUFFICES ASSUME Inv, Typed, Right, NEW s \in Active, op[s].kind = "select",
                    op[s].at = "done", op[s].table \notin spoiled
             PROVE  op[s].rows = Matching(expected[op[s].table], op[s].where)
    BY DEF ReadsAreExact
<1>1. PICK t \in Tables : t = op[s].table
    BY DEF Active, Inv, OpsTyped, IsStatement
<1>2. s \in On(t)
    BY <1>1 DEF On
<1>3. ~Writing(t)
    <2> SUFFICES ASSUME NEW z \in On(t), op[z].kind # "select" PROVE FALSE
        BY DEF Writing
    <2>1. z \in Active /\ op[z].table = op[s].table
        BY <1>1 DEF On
    <2> QED
        BY <2>1 DEF Inv, ChangesAlone
<1>4. TableRight(t)
    BY <1>1 DEF Right, TablesRight
<1>5. PICK f \in [1..MaxPages -> Seq(Rows)] : f = Pages(t)
    BY PagesAtBegin
<1>6. expected[t] = FlattenSeq(f) /\ Progress(op[s], f, expected[t])
    BY <1>2, <1>3, <1>4, <1>5 DEF TableRight
<1>7. op[s].rows = FlattenSeq(Picked(op[s], f))
    BY <1>6 DEF Progress, Collects
<1>8. FlattenSeq(Picked(op[s], f)) = Matching(FlattenSeq(f), op[s].where)
    BY PickedIsExact
<1> QED
    BY <1>1, <1>6, <1>7, <1>8

(* Whatever is evicted, flushed and loaded again, with any number of       *)
(* sessions, tables, pages and frames: a table no writer is at has the     *)
(* rows its statements left in it, in their order, unless it ever had a    *)
(* page the disk cannot give back.                                         *)
THEOREM TablesAreAsExpected == Spec => []TablesAsExpected
BY InitEstablishes, InitIsTyped, InitIsRight, EveryStep, EveryStepIsTyped, EveryStepIsRight,
    RightTables, PTL DEF Spec

(* A SELECT returns the rows of its table that satisfy the clause, in      *)
(* their order, though its pages come and go between its calls.            *)
THEOREM SelectsAreExact == Spec => []ReadsAreExact
BY InitEstablishes, InitIsTyped, InitIsRight, EveryStep, EveryStepIsTyped, EveryStepIsRight,
    RightReads, PTL DEF Spec

-----------------------------------------------------------------------------
(* The list of tables.                                                     *)

(* Nothing of table t is left, in its file or in the pool.                 *)
Gone(t) == file_pages[t] = 0 /\ \A k \in Resident : k[1] # t

(* What is in tables.meta and in tables_temp.meta while statement o of DDL *)
(* goes on, when there are schemas of the tables all.                      *)
Listed(o, names, all) ==
    /\ o.at \in {"schema", "done"} => names = all
    /\ o.at = "schema" => o.names = all \ {o.table}
    /\ o.at = "add" => names = all \cup {o.table}
    /\ o.kind = "create" /\ o.at = "remove" => names = all
    /\ o.kind = "create" /\ o.at \in {"remove", "rename"} => o.names = all \cup {o.table}
    /\ o.kind = "drop" /\ o.at \in {"data", "remove", "rename"} => o.names = all

DDLIsAlone == \A s, z \in DDL : s = z
RowsHaveSchemas == \A s \in Active \ DDL : op[s].table \in schemas
AllAreListed ==
    /\ DDL = {} => tables_meta.names = schemas
    /\ \A s \in DDL : Listed(op[s], tables_meta.names, schemas)
OthersAreGone == \A t \in Tables \ schemas : Gone(t) \/ \E s \in On(t) : op[s].at = "data"

CatalogRight ==
    /\ DDLIsAlone /\ RowsHaveSchemas
    /\ ~tables_meta.exists => tables_meta.names = {}
    /\ ~cut => AllAreListed /\ OthersAreGone

(* A table that is gone is empty, and numbers its pages from the start.    *)
LEMMA GoneIsEmpty ==
    ASSUME Inv, Typed, NEW t \in Tables, Gone(t)
    PROVE  Actual(t) = <<>> /\ get_max_page_id(t) = -1
<1>1. PICK f \in [1..MaxPages -> Seq(Rows)] : f = Pages(t)
    BY PagesAtBegin
<1>2. EmptyFrom(f, 0)
    <2> SUFFICES ASSUME NEW i \in 1..MaxPages PROVE f[i] = <<>>
        BY DEF EmptyFrom
    <2>1. PICK k \in Addresses : k = <<t, i - 1>> /\ f[i] = View(k)
        BY <1>1, PagesOfTable
    <2>2. k[1] = t /\ k[2] >= file_pages[t] /\ k \notin Resident
        BY <2>1, BufferAssumption DEF Gone
    <2> QED
        BY <2>1, <2>2 DEF View, Resident, Inv, PoolInv, FilesEnd
<1>3. get_max_page_id(t) = -1
    <2>1. {k[2] : k \in Resident \cap PagesOf(t)} = {}
        <3>1. \A k \in PagesOf(t) : k[1] = t
            BY DEF PagesOf
        <3> QED
            BY <3>1 DEF Gone
    <2>2. get_max_page_id(t) = Max({-1})
        <3>1. {k[2] : k \in Resident \cap PagesOf(t)} \cup {file_pages[t] - 1} = {-1}
            <4>1. file_pages[t] - 1 = -1
                BY DEF Gone
            <4> QED
                BY <2>1, <4>1
        <3>2. get_max_page_id(t) = Max({k[2] : k \in Resident \cap PagesOf(t)} \cup {file_pages[t] - 1})
            BY DEF get_max_page_id
        <3> QED
            BY <3>1, <3>2
    <2>3. {-1} \in SUBSET (-1..0) /\ 0 \in Nat
        OBVIOUS
    <2> QED
        BY <2>2, <2>3, MaxIsGreatest
<1> QED
    BY <1>1, <1>2, <1>3, NoRows, PagesOfTable

(* What is left of a table without a schema, and the list.                 *)
LEMMA RightCatalog == Inv /\ Typed /\ CatalogRight => CatalogAgrees
<1> SUFFICES ASSUME Inv, Typed, CatalogRight, ~cut
             PROVE  /\ DDL = {} => tables_meta.names = schemas
                    /\ \A t \in Tables \ schemas :
                          On(t) = {} => Actual(t) = <<>> /\ get_max_page_id(t) = -1
    BY DEF CatalogAgrees
<1>1. ASSUME NEW t \in Tables \ schemas, On(t) = {}
      PROVE  Actual(t) = <<>> /\ get_max_page_id(t) = -1
    BY <1>1, GoneIsEmpty DEF CatalogRight, OthersAreGone
<1> QED
    BY <1>1 DEF CatalogRight, AllAreListed

(* What is written of other tables brings no page of a table back.         *)
LEMMA FlushLeavesGone ==
    ASSUME NEW t \in Tables, Gone(t), NEW pages \in SUBSET Resident, Flush(pages)
    PROVE  file_pages'[t] = 0
<1>1. Flushed(pages) \cap PagesOf(t) = {}
    <2>1. \A k \in PagesOf(t) : k[1] = t
        BY DEF PagesOf
    <2> QED
        BY <2>1 DEF Gone, Flushed
<1>2. file_pages'[t] = Max({0})
    <2>1. {file_pages[t]} \cup {k[2] + 1 : k \in Flushed(pages) \cap PagesOf(t)} = {0}
        BY <1>1 DEF Gone
    <2>2. file_pages'[t] = Max({file_pages[t]} \cup {k[2] + 1 : k \in Flushed(pages) \cap PagesOf(t)})
        BY DEF Flush
    <2> QED
        BY <2>1, <2>2
<1>3. {0} \in SUBSET (-1..0) /\ 0 \in Nat
    OBVIOUS
<1> QED
    BY <1>2, <1>3, MaxIsGreatest

(* A page of one table comes into the pool, and none of another.           *)
LEMMA PinningLeavesGone ==
    ASSUME NEW t \in Tables, Gone(t), NEW k \in Addresses, k[1] # t,
           get_page(k) \/ new_page(k), OthersKept(k)
    PROVE  Gone(t)'
<1>1. \A j \in Addresses \ {k} : j \in Resident' => j \in Resident
    BY DEF OthersKept, Resident
<1>2. \A j \in Resident' : j[1] # t
    BY <1>1 DEF Gone, Resident
<1>3. file_pages' = file_pages \/ \E v \in Victims : Flush({v})
    <2>1. file_pages' = file_pages \/ \E page : Admit(k, page)
        BY DEF get_page, new_page
    <2> QED
        BY <2>1 DEF Admit
<1>4. file_pages'[t] = 0
    <2>1. CASE file_pages' = file_pages
        BY <2>1 DEF Gone
    <2>2. ASSUME NEW v \in Victims, Flush({v}) PROVE file_pages'[t] = 0
        <3>1. {v} \in SUBSET Resident
            BY DEF Victims
        <3> QED
            BY <2>2, <3>1, FlushLeavesGone
    <2> QED
        BY <1>3, <2>1, <2>2
<1> QED
    BY <1>2, <1>4 DEF Gone

(* Sessions that come and go without DDL.                                  *)
LEMMA RowsLeaveCatalog ==
    ASSUME Inv, CatalogRight, NEW s \in Sessions, OnlyMoves(s),
           UNCHANGED <<tables_meta, schemas, cut>>,
           op[s] = Idle \/ op[s].kind \notin {"create", "drop"},
           op'[s] = Idle \/ (op'[s].kind \notin {"create", "drop"} /\ op'[s].table \in schemas),
           \A t \in Tables \ schemas : Gone(t) => Gone(t)'
    PROVE  CatalogRight'
<1>1. DDL' = DDL /\ s \notin DDL /\ \A z \in DDL : op'[z] = op[z] /\ z \in Sessions
    BY DEF DDL, Active, OnlyMoves
<1>2. RowsHaveSchemas'
    <2> SUFFICES ASSUME NEW z \in Active', z \notin DDL' PROVE op'[z].table \in schemas
        BY DEF RowsHaveSchemas
    <2>1. CASE z = s
        BY <2>1 DEF Active
    <2>2. CASE z # s
        <3>1. op'[z] = op[z] /\ z \in Active \ DDL
            BY <1>1, <2>2 DEF Active, OnlyMoves
        <3> QED
            BY <3>1 DEF CatalogRight, RowsHaveSchemas
    <2> QED
        BY <2>1, <2>2
<1>3. DDLIsAlone' /\ (~tables_meta'.exists => tables_meta'.names = {})
    BY <1>1 DEF CatalogRight, DDLIsAlone
<1>4. ASSUME ~cut PROVE AllAreListed' /\ OthersAreGone'
    <2>1. AllAreListed'
        BY <1>1, <1>4 DEF CatalogRight, AllAreListed
    <2>2. ASSUME NEW t \in Tables \ schemas PROVE Gone(t)' \/ \E z \in On(t)' : op'[z].at = "data"
        <3>1. CASE Gone(t)
            BY <3>1
        <3>2. ASSUME NEW z \in On(t), op[z].at = "data" PROVE z \in On(t)' /\ op'[z].at = "data"
            <4>1. z \in Sessions /\ op[z] # Idle /\ op[z].kind = "drop"
                BY <3>2 DEF On, Active, Inv, OpsTyped, IsStatement
            <4>2. op'[z] = op[z]
                BY <4>1 DEF OnlyMoves
            <4> QED
                BY <3>2, <4>1, <4>2 DEF On, Active
        <3> QED
            BY <1>4, <3>1, <3>2 DEF CatalogRight, OthersAreGone
    <2> QED
        BY <2>1, <2>2 DEF OthersAreGone
<1> QED
    BY <1>2, <1>3, <1>4 DEF CatalogRight

(* A statement of DDL goes on, alone.                                      *)
LEMMA DDLMovesCatalog ==
    ASSUME Inv, CatalogRight, NEW s \in Sessions, OnlyMoves(s), DDL \subseteq {s}, cut' = cut,
           op[s] # Idle => op[s].kind \in {"create", "drop"},
           op'[s] # Idle => op'[s].kind \in {"create", "drop"},
           op'[s] = Idle => tables_meta' = tables_meta /\ schemas' = schemas
               /\ op[s] # Idle /\ op[s].at = "done",
           \A z \in Active \ {s} : op[z].table \in schemas => op[z].table \in schemas',
           ~tables_meta'.exists => tables_meta'.names = {},
           ~cut /\ AllAreListed /\ op'[s] # Idle => Listed(op'[s], tables_meta'.names, schemas'),
           ~cut => \A t \in Tables \ schemas' :
               Gone(t)' \/ (op'[s] # Idle /\ op'[s].table = t /\ op'[s].at = "data")
    PROVE  CatalogRight'
<1>1. \A z \in Active' \ {s} : op'[z] = op[z] /\ z \in Active \ DDL
    BY DEF Active, OnlyMoves
<1>2. DDL' = IF op'[s] # Idle THEN {s} ELSE {}
    <2>1. \A z \in DDL' : z = s
        BY <1>1 DEF DDL
    <2> QED
        BY <2>1 DEF DDL, Active
<1>3. RowsHaveSchemas'
    <2> SUFFICES ASSUME NEW z \in Active', z \notin DDL' PROVE op'[z].table \in schemas'
        BY DEF RowsHaveSchemas
    <2>1. z # s
        BY <1>2 DEF Active
    <2> QED
        BY <1>1, <2>1 DEF CatalogRight, RowsHaveSchemas
<1>4. DDLIsAlone'
    BY <1>2 DEF DDLIsAlone
<1>5. ASSUME ~cut PROVE AllAreListed'
    <2>1. AllAreListed
        BY <1>5 DEF CatalogRight
    <2>2. CASE op'[s] # Idle
        <3>1. Listed(op'[s], tables_meta'.names, schemas')
            BY <1>5, <2>1, <2>2
        <3>2. \A z \in DDL' : z = s
            BY <1>2
        <3>3. DDL' # {}
            BY <1>2, <2>2
        <3> QED
            BY <3>1, <3>2, <3>3 DEF AllAreListed
    <2>3. CASE op'[s] = Idle
        <3>1. s \in DDL /\ Listed(op[s], tables_meta.names, schemas)
            BY <2>1, <2>3 DEF AllAreListed, DDL, Active
        <3>2. tables_meta.names = schemas
            BY <2>3, <3>1 DEF Listed
        <3> QED
            BY <1>2, <2>3, <3>2 DEF AllAreListed
    <2> QED
        BY <2>2, <2>3
<1>6. ASSUME ~cut PROVE OthersAreGone'
    <2> SUFFICES ASSUME NEW t \in Tables \ schemas', ~Gone(t)'
                 PROVE  \E z \in On(t)' : op'[z].at = "data"
        BY DEF OthersAreGone
    <2>1. op'[s] # Idle /\ op'[s].table = t /\ op'[s].at = "data"
        BY <1>6
    <2> QED
        BY <2>1 DEF On, Active
<1> QED
    BY <1>3, <1>4, <1>5, <1>6 DEF CatalogRight

(* Statements take pages of tables that have a schema.                     *)
LEMMA TakingLeavesCatalog ==
    ASSUME Inv, Typed, CatalogRight, NEW s \in Sessions, GetPage(s) \/ NewPage(s)
    PROVE  CatalogRight'
<1>1. op[s] # Idle /\ IsStatement(op[s]) /\ Fits(op[s]) /\ op[s].at \in {"get", "new"}
    BY DEF GetPage, NewPage, At, Inv, OpsTyped, Typed, OpsFit
<1>2. op[s].kind \notin {"create", "drop"}
    BY <1>1 DEF Fits
<1>3. op[s].table \in schemas
    BY <1>1, <1>2 DEF CatalogRight, RowsHaveSchemas, DDL, Active
<1>4. UNCHANGED <<tables_meta, schemas, cut>>
    BY DEF GetPage, NewPage, catalogVars, historyVars
<1>5. /\ OnlyMoves(s) /\ op'[s].kind = op[s].kind /\ op'[s].table = op[s].table
      /\ \E k \in Addresses : k[1] = op[s].table /\ OthersKept(k) /\ (get_page(k) \/ new_page(k))
    <2>1. CASE GetPage(s)
        <3>1. op[s].at = "get" /\ op' = [op EXCEPT ![s].at = "use"]
            BY <2>1 DEF GetPage, At
        <3>2. OnlyMoves(s) /\ op'[s] = Moved(op[s], "use", op[s].page, op[s].rows)
            BY <1>1, <3>1, AtChanges DEF Inv
        <3>3. PICK k \in Addresses : k = Key(s)
            BY <1>1, <3>1 DEF Key, Addresses, IsStatement
        <3>4. OthersKept(k)
            BY <2>1, <3>3, GetPagePins DEF GetPage, Inv, Pinned
        <3>5. get_page(k) /\ k[1] = op[s].table
            BY <2>1, <3>3 DEF GetPage, Key
        <3> QED
            BY <3>2, <3>4, <3>5 DEF Moved
    <2>2. CASE NewPage(s)
        <3> DEFINE n == get_max_page_id(op[s].table) + 1
        <3>1. OnlyMoves(s) /\ op'[s] = Moved(op[s], "put", n, op[s].rows)
            BY <2>2, NewPageChanges DEF Inv
        <3>2. op[s].table \in Tables
            BY <1>1 DEF IsStatement
        <3>3. /\ get_max_page_id(op[s].table) \in -1..(MaxPages - 1)
              /\ get_max_page_id(op[s].table) >= file_pages[op[s].table] - 1
              /\ \A j \in Resident : j[1] = op[s].table => j[2] <= get_max_page_id(op[s].table)
            BY <3>2, LastPage DEF Inv, PoolInv
        <3>4. n \in 0..(MaxPages - 1) /\ n >= file_pages[op[s].table]
            <4>1. file_pages[op[s].table] \in Int
                BY <3>2 DEF Inv, PoolInv, PoolTyped
            <4> QED
                BY <2>2, <3>3, <4>1, BufferAssumption DEF NewPage
        <3>5. PICK k \in Addresses : k = <<op[s].table, n>>
            BY <3>2, <3>4 DEF Addresses
        <3>6. k \notin Resident
            <4> SUFFICES ASSUME k \in Resident PROVE FALSE
                OBVIOUS
            <4>1. n <= get_max_page_id(op[s].table)
                BY <3>3, <3>5
            <4> QED
                BY <3>3, <4>1, BufferAssumption
        <3>7. new_page(k) /\ k[1] = op[s].table /\ k[2] >= file_pages[k[1]]
            BY <2>2, <3>4, <3>5 DEF NewPage
        <3>8. OthersKept(k)
            BY <3>6, <3>7, NewPagePins DEF Inv, Pinned
        <3> QED
            BY <3>1, <3>7, <3>8 DEF Moved
    <2> QED
        BY <2>1, <2>2
<1>6. PICK k \in Addresses : k[1] = op[s].table /\ OthersKept(k) /\ (get_page(k) \/ new_page(k))
    BY <1>5
<1>7. \A t \in Tables \ schemas : Gone(t) => Gone(t)'
    <2> SUFFICES ASSUME NEW t \in Tables \ schemas, Gone(t) PROVE Gone(t)'
        OBVIOUS
    <2>1. k[1] # t
        BY <1>3, <1>6
    <2> QED
        BY <1>6, <2>1, PinningLeavesGone
<1> QED
    BY <1>2, <1>3, <1>4, <1>5, <1>7, RowsLeaveCatalog

(* Leaving a page brings no page of another table.                         *)
LEMMA LeavingLeavesCatalog ==
    ASSUME Inv, Typed, CatalogRight, NEW s \in Sessions, ScanPage(s) \/ InsertRow(s) \/ PutRow(s)
    PROVE  CatalogRight'
<1>1. /\ op[s] # Idle /\ IsStatement(op[s]) /\ Fits(op[s]) /\ Using(s)
      /\ op[s].at \in {"use", "put"}
    BY DEF ScanPage, InsertRow, PutRow, At, Inv, OpsTyped, Typed, OpsFit, Using
<1>2. op[s].kind \notin {"create", "drop"}
    BY <1>1 DEF Fits
<1>3. op[s].table \in schemas
    BY <1>1, <1>2 DEF CatalogRight, RowsHaveSchemas, DDL, Active
<1>4. \E rows, mark_dirty : Leave(s, rows, mark_dirty)
    BY DEF ScanPage, InsertRow, PutRow
<1>5. PICK rows, mark_dirty : Leave(s, rows, mark_dirty)
    BY <1>4
<1>6. UNCHANGED <<tables_meta, schemas, cut>> /\ unpin_page(Key(s), rows, mark_dirty)
    BY <1>5 DEF Leave, catalogVars
<1>7. Resident' = Resident /\ file_pages' = file_pages
    <2>1. PICK k \in Resident : k = Key(s)
        BY <1>1, PageInUse
    <2>2. /\ IsPage(buffer_pool[k]) /\ buffer_pool[k].pin_count >= 0
          /\ k \in Addresses /\ buffer_pool = [j \in Addresses |-> buffer_pool[j]]
        BY DEF Resident, Inv, PoolInv, PoolTyped, IsPool
    <2>3. /\ buffer_pool' = [buffer_pool EXCEPT ![k].rows = rows,
                          ![k].pin_count = IF @ > 0 THEN @ - 1 ELSE @,
                          ![k].is_dirty = @ \/ mark_dirty]
          /\ file_pages' = file_pages
        BY <1>6, <2>1 DEF unpin_page
    <2>4. \A j \in Addresses \ {k} : buffer_pool'[j] = buffer_pool[j]
        BY <2>2, <2>3
    <2>5. buffer_pool'[k].pin_count =
              IF buffer_pool[k].pin_count > 0 THEN buffer_pool[k].pin_count - 1
              ELSE buffer_pool[k].pin_count
        BY <2>2, <2>3 DEF IsPage
    <2>6. buffer_pool'[k].pin_count >= 0
        BY <2>2, <2>5 DEF IsPage
    <2> QED
        BY <2>2, <2>3, <2>4, <2>6 DEF Resident
<1>8. \A t : Gone(t) => Gone(t)'
    BY <1>7 DEF Gone
<1>9. OnlyMoves(s) /\ op'[s].kind = op[s].kind /\ op'[s].table = op[s].table
    <2>1. CASE ScanPage(s)
        <3> DEFINE more == op[s].page + 1 < op[s].pages
                   next == IF more THEN op[s].page + 1 ELSE op[s].page
                   step == IF more THEN "get" ELSE "done"
                   hit == Matching(buffer_pool[Key(s)].rows, op[s].where)
                   left == IF op[s].kind = "select" THEN op[s].rows \o hit ELSE op[s].rows
        <3>1. OnlyMoves(s) /\ op'[s] = Moved(op[s], step, next, left)
            BY <2>1, ScanPageChanges DEF Inv
        <3> HIDE DEF next, step, left, hit, more
        <3> QED
            BY <3>1 DEF Moved
    <2>2. CASE InsertRow(s) \/ PutRow(s)
        <3>1. PICK step : op' = [op EXCEPT ![s].at = step]
            BY <2>2 DEF InsertRow, PutRow
        <3>2. OnlyMoves(s) /\ op'[s] = Moved(op[s], step, op[s].page, op[s].rows)
            BY <1>1, <3>1, AtChanges DEF Inv
        <3> QED
            BY <3>2 DEF Moved
    <2> QED
        BY <2>1, <2>2
<1> QED
    BY <1>2, <1>3, <1>6, <1>8, <1>9, RowsLeaveCatalog

(* A DDL statement is the only one.                                        *)
LEMMA DDLAlone ==
    ASSUME CatalogRight, NEW s \in Sessions, op[s] # Idle, op[s].kind \in {"create", "drop"}
    PROVE  DDL \subseteq {s}
BY DEF CatalogRight, DDLIsAlone, DDL, Active

(* A statement of DDL ends when the list agrees.                           *)
LEMMA EndingLeavesCatalog ==
    ASSUME Inv, Typed, CatalogRight, NEW s \in Sessions, Return(s) \/ AllPagesPinned(s)
    PROVE  CatalogRight'
<1>1. /\ op[s] # Idle /\ IsStatement(op[s]) /\ Fits(op[s]) /\ op' = [op EXCEPT ![s] = Idle]
      /\ UNCHANGED <<buffer_pool, disk, file_pages>> /\ UNCHANGED <<tables_meta, schemas, cut>>
    BY DEF Return, AllPagesPinned, At, bufferVars, catalogVars, historyVars, Inv, OpsTyped,
        Typed, OpsFit
<1>2. OnlyMoves(s) /\ op'[s] = Idle
    BY <1>1 DEF OnlyMoves, Inv, OpsTyped
<1>3. \A t : Gone(t)' = Gone(t)
    BY <1>1 DEF Gone, Resident
<1>4. CASE op[s].kind \notin {"create", "drop"}
    <2>1. \A t \in Tables \ schemas : Gone(t) => Gone(t)'
        BY <1>3
    <2> QED
        BY <1>1, <1>2, <1>4, <2>1, RowsLeaveCatalog
<1>5. CASE op[s].kind \in {"create", "drop"}
    <2>1. op[s].at = "done"
        BY <1>1, <1>5 DEF Return, AllPagesPinned, At, Fits
    <2>2. DDL \subseteq {s}
        BY <1>1, <1>5, DDLAlone
    <2>3. ~tables_meta'.exists => tables_meta'.names = {}
        BY <1>1 DEF CatalogRight
    <2>4. ASSUME ~cut, NEW t \in Tables \ schemas PROVE Gone(t)'
        <3>1. \A z \in On(t) : op[z].at # "data"
            <4> SUFFICES ASSUME NEW z \in On(t), op[z].at = "data" PROVE FALSE
                OBVIOUS
            <4>1. z \in DDL
                BY DEF On, Active, DDL, Inv, OpsTyped, IsStatement
            <4> QED
                BY <2>1, <2>2, <4>1
        <3> QED
            BY <1>3, <2>4, <3>1 DEF CatalogRight, OthersAreGone
    <2> QED
        BY <1>1, <1>2, <1>5, <2>1, <2>2, <2>3, <2>4, DDLMovesCatalog
<1> QED
    BY <1>4, <1>5

(* The step a statement has gone to.                                       *)
LEMMA StepIsTaken ==
    ASSUME OpsTyped, NEW s \in Sessions, op[s] # Idle, NEW step,
           op' = [op EXCEPT ![s].at = step]
    PROVE  op'[s].at = step
<1>1. op'[s] = Moved(op[s], step, op[s].page, op[s].rows)
    BY AtChanges
<1> QED
    BY <1>1 DEF Moved

(* The steps of CREATE and DROP, one after the other.                      *)
LEMMA CatalogLeavesCatalog ==
    ASSUME Inv, Typed, CatalogRight, NEW s \in Sessions,
           RemoveSchema(s) \/ RemoveData(s) \/ RemoveMeta(s) \/ RenameMeta(s) \/ AddSchema(s)
    PROVE  CatalogRight'
<1>1. /\ op[s] # Idle /\ IsStatement(op[s]) /\ Fits(op[s])
      /\ op[s].at \in {"schema", "data", "remove", "rename", "add"}
    BY DEF RemoveSchema, RemoveData, RemoveMeta, RenameMeta, AddSchema, At, Inv, OpsTyped,
        Typed, OpsFit
<1>2. op[s].kind \in {"create", "drop"} /\ op[s].table \in Tables
    BY <1>1 DEF IsStatement, Fits, Kinds, Scans
<1>3. DDL \subseteq {s} /\ s \in DDL
    BY <1>1, <1>2, DDLAlone DEF DDL, Active
<1>4. cut' = cut /\ tables_meta \in [exists : BOOLEAN, names : SUBSET Tables]
    BY DEF RemoveSchema, RemoveData, RemoveMeta, RenameMeta, AddSchema, historyVars, Typed, RestTyped
<1>5. PICK step : op' = [op EXCEPT ![s].at = step] /\ step \in Steps
    BY DEF RemoveSchema, RemoveData, RemoveMeta, RenameMeta, AddSchema, Proceed, Steps
<1>6. OnlyMoves(s) /\ op'[s] = Moved(op[s], step, op[s].page, op[s].rows)
    BY <1>1, <1>5, AtChanges DEF Inv
<1>7. /\ op'[s].kind = op[s].kind /\ op'[s].table = op[s].table /\ op'[s].names = op[s].names
      /\ op'[s].at = step
    BY <1>6 DEF Moved
<1>8. op'[s] # Idle
    BY <1>5, <1>7 DEF Idle, Steps
<1>9. \A z \in Active \ {s} : op[z].table # op[s].table
    <2> SUFFICES ASSUME NEW z \in Active, z # s, op[z].table = op[s].table PROVE FALSE
        OBVIOUS
    <2>1. s \in Active /\ op[s].kind # "select"
        BY <1>1, <1>2 DEF Active
    <2> QED
        BY <2>1 DEF Inv, ChangesAlone
<1>10. ASSUME ~cut PROVE Listed(op[s], tables_meta.names, schemas)
    BY <1>3, <1>10 DEF CatalogRight, AllAreListed
<1>11. ASSUME ~cut, NEW t \in Tables \ schemas
       PROVE  Gone(t) \/ (op[s].table = t /\ op[s].at = "data")
    <2> SUFFICES ASSUME NEW z \in On(t), op[z].at = "data" PROVE op[s].table = t /\ op[s].at = "data"
        BY <1>11 DEF CatalogRight, OthersAreGone
    <2>1. z \in DDL
        BY DEF On, Active, DDL, Inv, OpsTyped, IsStatement
    <2> QED
        BY <1>3, <2>1 DEF On
<1>12. ASSUME UNCHANGED <<buffer_pool, file_pages>>, NEW t PROVE Gone(t)' = Gone(t)
    BY <1>12 DEF Gone, Resident
<1>13. CASE RemoveSchema(s)
    <2>1. /\ op[s].at = "schema" /\ op[s].kind = "drop" /\ step = "data"
          /\ schemas' = schemas \ {op[s].table} /\ tables_meta' = tables_meta
          /\ UNCHANGED <<buffer_pool, file_pages>>
        <3>1. op[s].at = "schema" /\ op' = [op EXCEPT ![s].at = "data"]
              /\ schemas' = schemas \ {op[s].table} /\ tables_meta' = tables_meta
              /\ UNCHANGED <<buffer_pool, file_pages>>
            BY <1>13 DEF RemoveSchema, At, Proceed, bufferVars
        <3>2. op'[s].at = "data"
            BY <1>1, <3>1, StepIsTaken DEF Inv
        <3> QED
            BY <1>1, <1>7, <3>1, <3>2 DEF IsStatement
    <2>2. ~cut => Listed(op'[s], tables_meta'.names, schemas')
        BY <1>7, <1>10, <2>1 DEF Listed
    <2>3. ~tables_meta'.exists => tables_meta'.names = {}
        BY <2>1 DEF CatalogRight
    <2>4. \A z \in Active \ {s} : op[z].table \in schemas => op[z].table \in schemas'
        BY <1>9, <2>1
    <2>5. ASSUME ~cut, NEW t \in Tables \ schemas'
          PROVE  Gone(t)' \/ (op'[s] # Idle /\ op'[s].table = t /\ op'[s].at = "data")
        <3>1. CASE t = op[s].table
            BY <1>7, <1>8, <2>1, <3>1
        <3>2. CASE t # op[s].table
            BY <1>11, <1>12, <2>1, <2>5, <3>2
        <3> QED
            BY <3>1, <3>2
    <2> QED
        BY <1>2, <1>3, <1>4, <1>6, <1>7, <1>8, <2>2, <2>3, <2>4, <2>5, DDLMovesCatalog
<1>14. CASE RemoveData(s)
    <2>1. /\ op[s].at = "data" /\ op[s].kind = "drop" /\ step = "remove"
          /\ UNCHANGED <<tables_meta, schemas, buffer_pool>>
          /\ file_pages' = [file_pages EXCEPT ![op[s].table] = 0]
        <3>1. op[s].at = "data" /\ op' = [op EXCEPT ![s].at = "remove"]
              /\ UNCHANGED <<tables_meta, schemas, buffer_pool>>
              /\ file_pages' = [file_pages EXCEPT ![op[s].table] = 0]
            BY <1>14 DEF RemoveData, At, Proceed, catalogVars, RemoveFile
        <3>2. op'[s].at = "remove"
            BY <1>1, <3>1, StepIsTaken DEF Inv
        <3> QED
            BY <1>1, <1>7, <3>1, <3>2 DEF IsStatement
    <2>2. ~cut => Listed(op'[s], tables_meta'.names, schemas')
        BY <1>7, <1>10, <2>1 DEF Listed
    <2>3. ~tables_meta'.exists => tables_meta'.names = {}
        BY <2>1 DEF CatalogRight
    <2>4. ASSUME ~cut, NEW t \in Tables \ schemas PROVE Gone(t)'
        <3>1. \A k \in Resident : k[1] # op[s].table
            BY <1>1, <2>1 DEF Inv, DropsEmpty, Active
        <3>2. file_pages \in [Tables -> 0..MaxPages] /\ Resident' = Resident
            BY <2>1 DEF Inv, PoolInv, PoolTyped, Resident
        <3>3. CASE t = op[s].table
            BY <2>1, <3>1, <3>2, <3>3 DEF Gone
        <3>4. CASE t # op[s].table
            <4>1. Gone(t)
                BY <1>11, <2>4, <3>4
            <4> QED
                BY <2>1, <3>2, <3>4, <4>1 DEF Gone
        <3> QED
            BY <3>3, <3>4
    <2> QED
        BY <1>2, <1>3, <1>4, <1>6, <1>7, <1>8, <2>1, <2>2, <2>3, <2>4, DDLMovesCatalog
<1>15. CASE RemoveMeta(s) \/ RenameMeta(s)
    <2>1. \/ /\ op[s].at = "remove" /\ step = "rename"
             /\ tables_meta' = [exists |-> FALSE, names |-> {}]
          \/ /\ op[s].at = "rename" /\ step = (IF op[s].kind = "create" THEN "add" ELSE "done")
             /\ tables_meta' = [exists |-> TRUE, names |-> op[s].names]
        <3>1. CASE RemoveMeta(s)
            <4>1. op[s].at = "remove" /\ op' = [op EXCEPT ![s].at = "rename"]
                  /\ tables_meta' = [exists |-> FALSE, names |-> {}]
                BY <3>1 DEF RemoveMeta, At, Proceed
            <4>2. op'[s].at = "rename"
                BY <1>1, <4>1, StepIsTaken DEF Inv
            <4> QED
                BY <1>7, <4>1, <4>2
        <3>2. CASE RenameMeta(s)
            <4> DEFINE next == IF op[s].kind = "create" THEN "add" ELSE "done"
            <4>1. op[s].at = "rename" /\ op' = [op EXCEPT ![s].at = next]
                  /\ tables_meta' = [exists |-> TRUE, names |-> op[s].names]
                BY <3>2 DEF RenameMeta, At, Proceed
            <4> HIDE DEF next
            <4>2. op'[s].at = next
                BY <1>1, <4>1, StepIsTaken DEF Inv
            <4> QED
                BY <1>7, <4>1, <4>2 DEF next
        <3> QED
            BY <1>15, <3>1, <3>2
    <2>2. schemas' = schemas /\ UNCHANGED <<buffer_pool, file_pages>>
        BY <1>15 DEF RemoveMeta, RenameMeta, bufferVars
    <2>3. ~cut => Listed(op'[s], tables_meta'.names, schemas')
        BY <1>2, <1>7, <1>10, <2>1, <2>2 DEF Listed
    <2>4. ~tables_meta'.exists => tables_meta'.names = {}
        BY <2>1
    <2>5. ASSUME ~cut, NEW t \in Tables \ schemas PROVE Gone(t)'
        BY <1>11, <1>12, <2>1, <2>2, <2>5
    <2> QED
        BY <1>2, <1>3, <1>4, <1>6, <1>7, <1>8, <2>2, <2>3, <2>4, <2>5, DDLMovesCatalog
<1>16. CASE AddSchema(s)
    <2>1. /\ op[s].at = "add" /\ step = "done" /\ schemas' = schemas \cup {op[s].table}
          /\ UNCHANGED <<tables_meta, buffer_pool, file_pages>>
        <3>1. op[s].at = "add" /\ op' = [op EXCEPT ![s].at = "done"]
              /\ schemas' = schemas \cup {op[s].table}
              /\ UNCHANGED <<tables_meta, buffer_pool, file_pages>>
            BY <1>16 DEF AddSchema, At, Proceed, bufferVars
        <3>2. op'[s].at = "done"
            BY <1>1, <3>1, StepIsTaken DEF Inv
        <3> QED
            BY <1>7, <3>1, <3>2
    <2>2. ~cut => Listed(op'[s], tables_meta'.names, schemas')
        BY <1>7, <1>10, <2>1 DEF Listed
    <2>3. ~tables_meta'.exists => tables_meta'.names = {}
        BY <2>1 DEF CatalogRight
    <2>4. ASSUME ~cut, NEW t \in Tables \ schemas' PROVE Gone(t)'
        BY <1>11, <1>12, <2>1, <2>4
    <2>5. \A z \in Active \ {s} : op[z].table \in schemas => op[z].table \in schemas'
        BY <2>1
    <2> QED
        BY <1>2, <1>3, <1>4, <1>6, <1>7, <1>8, <2>2, <2>3, <2>4, <2>5, DDLMovesCatalog
<1> QED
    BY <1>13, <1>14, <1>15, <1>16

(* Statements on rows begin on tables that have a schema.                  *)
LEMMA RowsBeginInCatalog ==
    ASSUME Inv, Typed, CatalogRight, NEW s \in Sessions, NEW t \in Tables,
           \/ \E where : full_scan(s, t, where) \/ delete_block(s, t, where)
                             \/ \E new : write_block_update(s, t, where, new)
           \/ \E row : write_block_insert(s, t, row)
    PROVE  CatalogRight'
<1>1. /\ op[s] = Idle /\ t \in schemas
      /\ UNCHANGED <<tables_meta, schemas, cut, buffer_pool, file_pages>>
    BY DEF full_scan, delete_block, write_block_update, write_block_insert, Ready, Scan,
        bufferVars, catalogVars
<1>2. \E kind, where, new, at, page : kind \notin {"create", "drop"} /\
          Started(s, kind, t, where, new, at, page)
    <2> DEFINE Starts(kind, where, new, at, page) == Started(s, kind, t, where, new, at, page)
               n == get_max_page_id(t)
               a == IF n = -1 THEN "done" ELSE "get"
               b == IF n = -1 THEN "new" ELSE "get"
    <2>1. \/ \E where, new : \E kind \in {"select", "delete", "update"} : Starts(kind, where, new, a, 0)
          \/ \E row : Starts("insert", {}, row, b, n)
        BY DEF full_scan, delete_block, write_block_update, write_block_insert, Scan
    <2> HIDE DEF Starts, n, a, b
    <2>2. \E kind, where, new, at, page : kind \notin {"create", "drop"} /\
              Starts(kind, where, new, at, page)
        BY <2>1
    <2> QED
        BY <2>2 DEF Starts
<1>3. PICK kind, where, new, at, page : kind \notin {"create", "drop"} /\
          Started(s, kind, t, where, new, at, page)
    BY <1>2
<1> DEFINE o == [at |-> at, kind |-> kind, table |-> t, where |-> where, new |-> new,
           page |-> page, pages |-> get_max_page_id(t) + 1, rows |-> <<>>, names |-> {}]
<1>4. op' = [op EXCEPT ![s] = o]
    BY <1>3 DEF Started
<1>5. o.kind = kind /\ o.table = t
    OBVIOUS
<1> HIDE DEF o
<1>6. OnlyMoves(s) /\ op'[s] = o
    BY <1>4 DEF OnlyMoves, Inv, OpsTyped
<1>7. \A z \in Tables \ schemas : Gone(z) => Gone(z)'
    BY <1>1 DEF Gone, Resident
<1>8. op'[s].kind \notin {"create", "drop"} /\ op'[s].table \in schemas
    BY <1>1, <1>3, <1>5, <1>6
<1> QED
    BY <1>1, <1>6, <1>7, <1>8, RowsLeaveCatalog

(* A CREATE begins alone, with the names it will write.                    *)
LEMMA CreateBeginsInCatalog ==
    ASSUME Inv, Typed, CatalogRight, NEW s \in Sessions, NEW t \in Tables, create_table(s, t)
    PROVE  CatalogRight'
<1> DEFINE o(step, names) == [at |-> step, kind |-> "create", table |-> t, where |-> {},
                new |-> AnyRow, page |-> 0, pages |-> 0, rows |-> <<>>, names |-> names]
           all == tables_meta.names
<1>1. \/ /\ op' = [op EXCEPT ![s] = o("remove", all \cup {t})]
         /\ tables_meta' = tables_meta
      \/ /\ op' = [op EXCEPT ![s] = o("add", {})] /\ ~(tables_meta.exists /\ all # {})
         /\ tables_meta' = [exists |-> TRUE, names |-> {t}]
    BY DEF create_table, DDLStarted
<1>2. /\ op[s] = Idle /\ DDL = {}
      /\ UNCHANGED <<schemas, cut, buffer_pool, file_pages>>
    BY DEF create_table, bufferVars, historyVars
<1>3. PICK q : /\ op' = [op EXCEPT ![s] = q] /\ q.kind = "create" /\ q.table = t
               /\ \/ /\ q.at = "remove" /\ q.names = all \cup {t}
                     /\ tables_meta' = tables_meta
                  \/ /\ q.at = "add" /\ ~(tables_meta.exists /\ all # {})
                     /\ tables_meta' = [exists |-> TRUE, names |-> {t}]
    <2> DEFINE c == o("remove", all \cup {t})
               d == o("add", {})
    <2>1. /\ c.kind = "create" /\ c.table = t /\ c.at = "remove" /\ c.names = all \cup {t}
          /\ d.kind = "create" /\ d.table = t /\ d.at = "add"
        OBVIOUS
    <2> HIDE DEF o
    <2>2. CASE op' = [op EXCEPT ![s] = c] /\ tables_meta' = tables_meta
        <3> HIDE DEF c
        <3> QED
            BY <2>1, <2>2
    <2>3. CASE /\ op' = [op EXCEPT ![s] = d] /\ ~(tables_meta.exists /\ all # {})
               /\ tables_meta' = [exists |-> TRUE, names |-> {t}]
        <3> HIDE DEF d
        <3> QED
            BY <2>1, <2>3
    <2> QED
        BY <1>1, <2>2, <2>3
<1> HIDE DEF o
<1>4. OnlyMoves(s) /\ op'[s] = q /\ q # Idle
    BY <1>3 DEF OnlyMoves, Inv, OpsTyped, Idle
<1>5. ASSUME ~cut PROVE all = schemas /\ OthersAreGone
    BY <1>2, <1>5 DEF CatalogRight, AllAreListed
<1>6. ~tables_meta.exists => all = {}
    BY DEF CatalogRight
<1>7. ~tables_meta'.exists => tables_meta'.names = {}
    BY <1>3, <1>6
<1>8. ~cut => Listed(q, tables_meta'.names, schemas)
    BY <1>3, <1>5, <1>6 DEF Listed
<1>9. ASSUME ~cut, NEW z \in Tables \ schemas PROVE Gone(z)'
    <2>1. Gone(z)
        <3> SUFFICES ASSUME NEW x \in On(z), op[x].at = "data" PROVE FALSE
            BY <1>5, <1>9 DEF OthersAreGone
        <3>1. x \in DDL
            BY DEF On, Active, DDL, Inv, OpsTyped, IsStatement
        <3> QED
            BY <1>2, <3>1
    <2> QED
        BY <1>2, <2>1 DEF Gone, Resident
<1> QED
    BY <1>2, <1>3, <1>4, <1>7, <1>8, <1>9, DDLMovesCatalog

(* A DROP begins alone, with the names it will write.                      *)
LEMMA DropBeginsInCatalog ==
    ASSUME Inv, Typed, CatalogRight, NEW s \in Sessions, NEW t \in Tables, drop_table(s, t)
    PROVE  CatalogRight'
<1> DEFINE o(step, names) == [at |-> step, kind |-> "drop", table |-> t, where |-> {},
                new |-> AnyRow, page |-> 0, pages |-> 0, rows |-> <<>>, names |-> names]
           all == tables_meta.names
<1>1. \/ op' = [op EXCEPT ![s] = o("schema", all \ {t})]
      \/ op' = [op EXCEPT ![s] = o("done", {})] /\ ~(tables_meta.exists /\ all # {})
    BY DEF drop_table, DDLStarted
<1>2. /\ op[s] = Idle /\ DDL = {} /\ evict_table_without_flush(t)
      /\ UNCHANGED <<tables_meta, schemas, cut, file_pages>>
    BY DEF drop_table, evict_table_without_flush, catalogVars
<1>3. PICK q : /\ op' = [op EXCEPT ![s] = q] /\ q.kind = "drop" /\ q.table = t
               /\ \/ q.at = "schema" /\ q.names = all \ {t}
                  \/ q.at = "done"
    <2> DEFINE c == o("schema", all \ {t})
               d == o("done", {})
    <2>1. /\ c.kind = "drop" /\ c.table = t /\ c.at = "schema" /\ c.names = all \ {t}
          /\ d.kind = "drop" /\ d.table = t /\ d.at = "done"
        OBVIOUS
    <2> HIDE DEF o
    <2>2. CASE op' = [op EXCEPT ![s] = c]
        <3> HIDE DEF c
        <3> QED
            BY <2>1, <2>2
    <2>3. CASE op' = [op EXCEPT ![s] = d]
        <3> HIDE DEF d
        <3> QED
            BY <2>1, <2>3
    <2> QED
        BY <1>1, <2>2, <2>3
<1> HIDE DEF o
<1>4. OnlyMoves(s) /\ op'[s] = q /\ q # Idle
    BY <1>3 DEF OnlyMoves, Inv, OpsTyped, Idle
<1>5. ASSUME ~cut PROVE all = schemas /\ OthersAreGone
    BY <1>2, <1>5 DEF CatalogRight, AllAreListed
<1>6. ~tables_meta'.exists => tables_meta'.names = {}
    BY <1>2 DEF CatalogRight
<1>7. ~cut => Listed(q, tables_meta'.names, schemas)
    BY <1>2, <1>3, <1>5 DEF Listed
<1>8. Resident' \subseteq Resident
    BY <1>2, EvictTableKeeps DEF Inv, Resident
<1>9. ASSUME ~cut, NEW z \in Tables \ schemas PROVE Gone(z)'
    <2>1. Gone(z)
        <3> SUFFICES ASSUME NEW x \in On(z), op[x].at = "data" PROVE FALSE
            BY <1>5, <1>9 DEF OthersAreGone
        <3>1. x \in DDL
            BY DEF On, Active, DDL, Inv, OpsTyped, IsStatement
        <3> QED
            BY <1>2, <3>1
    <2> QED
        BY <1>2, <1>8, <2>1 DEF Gone
<1> QED
    BY <1>2, <1>3, <1>4, <1>6, <1>7, <1>9, DDLMovesCatalog

(* A checkpoint writes pages of the pool only.                             *)
LEMMA CheckpointLeavesCatalog ==
    ASSUME Inv, Typed, CatalogRight, Checkpoint
    PROVE  CatalogRight'
<1>1. UNCHANGED <<op, tables_meta, schemas, cut>> /\ checkpoint
    BY DEF Checkpoint, catalogVars, historyVars
<1>2. Resident' = Resident
    BY <1>1, CheckpointKeeps DEF Inv, Resident
<1>3. ASSUME NEW t \in Tables, Gone(t) PROVE Gone(t)'
    <2>1. Flush(Dirty) /\ Dirty \in SUBSET Resident
        BY <1>1 DEF checkpoint, Dirty
    <2>2. file_pages'[t] = 0
        BY <1>3, <2>1, FlushLeavesGone
    <2> QED
        BY <1>2, <1>3, <2>2 DEF Gone
<1>4. DDL' = DDL /\ Active' = Active /\ \A t : On(t)' = On(t)
    BY <1>1 DEF DDL, Active, On
<1>5. OthersAreGone => OthersAreGone'
    BY <1>1, <1>3, <1>4 DEF OthersAreGone
<1>6. AllAreListed => AllAreListed'
    BY <1>1, <1>4 DEF AllAreListed
<1> QED
    BY <1>1, <1>4, <1>5, <1>6 DEF CatalogRight, DDLIsAlone, RowsHaveSchemas

(* A crash that cuts no DDL short leaves the list as it was.               *)
LEMMA CrashLeavesCatalog ==
    ASSUME Inv, Typed, CatalogRight, Crash
    PROVE  CatalogRight'
<1>1. /\ LosePool /\ op' = [s \in Sessions |-> Idle] /\ cut' = (cut \/ DDL # {})
      /\ UNCHANGED <<tables_meta, schemas>>
    BY DEF Crash, catalogVars
<1>2. Active' = {} /\ DDL' = {}
    BY <1>1 DEF DDL, Active
<1>3. file_pages' = file_pages /\ Resident' = {}
    BY <1>1, LosePoolKeeps DEF Inv, LosePool, Resident
<1>4. DDLIsAlone' /\ RowsHaveSchemas' /\ (~tables_meta'.exists => tables_meta'.names = {})
    BY <1>1, <1>2 DEF CatalogRight, DDLIsAlone, RowsHaveSchemas
<1>5. ASSUME ~cut' PROVE AllAreListed' /\ OthersAreGone'
    <2>1. ~cut /\ DDL = {}
        BY <1>1, <1>5
    <2>2. AllAreListed'
        BY <1>1, <1>2, <2>1 DEF CatalogRight, AllAreListed
    <2>3. ASSUME NEW t \in Tables \ schemas PROVE Gone(t)
        <3> SUFFICES ASSUME NEW x \in On(t), op[x].at = "data" PROVE FALSE
            BY <2>1, <2>3 DEF CatalogRight, OthersAreGone
        <3>1. x \in DDL
            BY DEF On, Active, DDL, Inv, OpsTyped, IsStatement
        <3> QED
            BY <2>1, <3>1
    <2>4. OthersAreGone'
        BY <1>1, <1>3, <2>3 DEF OthersAreGone, Gone
    <2> QED
        BY <2>2, <2>4
<1> QED
    BY <1>4, <1>5 DEF CatalogRight

(* The list agrees at the start.                                           *)
LEMMA InitIsListed == Init => CatalogRight
<1> SUFFICES ASSUME Init PROVE CatalogRight
    OBVIOUS
<1>1. /\ op = [s \in Sessions |-> Idle] /\ buffer_pool = [k \in Addresses |-> NotLoaded]
      /\ file_pages = [t \in Tables |-> Len(InitialPages[t])]
      /\ schemas = {t \in Tables : InitialPages[t] # <<>>}
      /\ tables_meta = [exists |-> TRUE, names |-> schemas]
    BY DEF Init
<1>2. Active = {} /\ DDL = {} /\ Resident = {}
    BY <1>1, NotLoadedIsPage DEF Active, DDL, Resident
<1>3. ASSUME NEW t \in Tables \ schemas PROVE Gone(t)
    <2>1. InitialPages[t] = <<>>
        BY <1>1
    <2>2. Len(<<>>) = 0
        OBVIOUS
    <2> QED
        BY <1>1, <1>2, <2>1, <2>2 DEF Gone
<1> QED
    BY <1>1, <1>2, <1>3 DEF CatalogRight, DDLIsAlone, RowsHaveSchemas, AllAreListed, OthersAreGone

(* Every step keeps the list right.                                        *)
LEMMA EveryStepIsListed == Inv /\ Typed /\ CatalogRight /\ [Next]_vars => CatalogRight'
<1> SUFFICES ASSUME Inv, Typed, CatalogRight, [Next]_vars PROVE CatalogRight'
    OBVIOUS
<1>1. ASSUME NEW s \in Sessions, Continue(s) PROVE CatalogRight'
    BY <1>1, TakingLeavesCatalog, LeavingLeavesCatalog, EndingLeavesCatalog,
        CatalogLeavesCatalog DEF Continue
<1>2. ASSUME NEW s \in Sessions, NEW t \in Tables, Begin(s, t) PROVE CatalogRight'
    <2>1. CASE create_table(s, t)
        BY <2>1, CreateBeginsInCatalog
    <2>2. CASE drop_table(s, t)
        BY <2>2, DropBeginsInCatalog
    <2>3. CASE \/ \E where : full_scan(s, t, where) \/ delete_block(s, t, where)
                                 \/ \E new : write_block_update(s, t, where, new)
               \/ \E row : write_block_insert(s, t, row)
        BY <2>3, RowsBeginInCatalog
    <2> QED
        BY <1>2, <2>1, <2>2, <2>3 DEF Begin
<1>3. CASE UNCHANGED vars
    <2>1. UNCHANGED <<op, tables_meta, schemas, cut, buffer_pool, file_pages>>
        BY <1>3 DEF vars, bufferVars, catalogVars, historyVars
    <2>2. /\ DDL' = DDL /\ Active' = Active /\ \A t : On(t)' = On(t)
          /\ \A t : Gone(t)' = Gone(t)
        BY <2>1 DEF DDL, Active, On, Gone, Resident
    <2>3. (OthersAreGone => OthersAreGone') /\ (AllAreListed => AllAreListed')
        BY <2>1, <2>2 DEF OthersAreGone, AllAreListed
    <2> QED
        BY <2>1, <2>2, <2>3 DEF CatalogRight, DDLIsAlone, RowsHaveSchemas
<1> QED
    BY <1>1, <1>2, <1>3, CheckpointLeavesCatalog, CrashLeavesCatalog DEF Next

(* tables.meta lists the tables that have a schema whenever no DDL is      *)
(* under way, and a name without a schema has no rows left, in the file or *)
(* in the pool, and numbers its pages from 0, unless a crash cut a DDL     *)
(* statement short.                                                        *)
THEOREM CatalogAlwaysAgrees == Spec => []CatalogAgrees
BY InitEstablishes, InitIsTyped, InitIsListed, EveryStep, EveryStepIsTyped, EveryStepIsListed,
    RightCatalog, PTL DEF Spec

=============================================================================
