----------------------------- MODULE PageStore -----------------------------
(***************************************************************************)
(* What the buffer manager promises to the storage engine above it: every  *)
(* page has contents, what its last holder left in it, and a stable copy   *)
(* that outlives the process.  Caching, eviction and the order of writes   *)
(* to the disk are invisible: pages change under the hands of a session    *)
(* that holds them, when their table is dropped, and when a crash takes    *)
(* all of them back to their stable copies.  Nothing is promised of a page *)
(* that is not sound.                                                      *)
(***************************************************************************)
EXTENDS Integers, Sequences

CONSTANTS
    Tables,     \* names of tables
    PageIds,    \* numbers of pages
    Rows,       \* the rows a page can hold
    SoundPages, \* contents that the disk can give back
    Sessions,   \* those who use pages
    Initially   \* the contents of each page at the start

VARIABLES
    contents,   \* contents[p]: the rows of page p
    stable,     \* stable[p]: its rows as the disk has them
    holder      \* holder[s]: the page session s works on, or Free

vars == <<contents, stable, holder>>

Addresses == Tables \X PageIds
Free == <<>>

Held(t) == \E s \in Sessions : holder[s] # Free /\ holder[s][1] = t

Init ==
    /\ contents = Initially
    /\ stable = Initially
    /\ holder = [s \in Sessions |-> Free]

(* A page for session s.  Other pages may have to make room, which is the  *)
(* moment when they reach the disk.                                        *)
Acquire(s, k) ==
    /\ holder[s] = Free
    /\ holder' = [holder EXCEPT ![s] = k]
    /\ \A p \in Addresses : contents[p] \in SoundPages =>
          /\ contents'[p] = contents[p]
          /\ stable'[p] = stable[p] \/ stable'[p] = contents[p]

(* Session s is done with its page, which may have new contents.           *)
Release(s) ==
    /\ holder[s] # Free
    /\ holder' = [holder EXCEPT ![s] = Free]
    /\ \A p \in Addresses : p # holder[s] => contents'[p] = contents[p]
    /\ UNCHANGED stable

(* Every sound page reaches the disk.                                      *)
Sync ==
    /\ \A p \in Addresses : contents[p] \in SoundPages =>
          contents'[p] = contents[p] /\ stable'[p] = contents[p]
    /\ UNCHANGED holder

(* A table goes: first the changes the disk has not seen, then the rest.   *)
Discard(t) ==
    /\ ~Held(t)
    /\ contents' = [p \in Addresses |-> IF p[1] = t THEN stable[p] ELSE contents[p]]
    /\ UNCHANGED <<stable, holder>>

Delete(t) ==
    /\ ~Held(t)
    /\ contents' = [p \in Addresses |-> IF p[1] = t THEN <<>> ELSE contents[p]]
    /\ stable' = [p \in Addresses |-> IF p[1] = t THEN <<>> ELSE stable[p]]
    /\ UNCHANGED holder

Crash ==
    /\ contents' = stable
    /\ holder' = [s \in Sessions |-> Free]
    /\ UNCHANGED stable

Next ==
    \/ \E s \in Sessions : Release(s) \/ \E k \in Addresses : Acquire(s, k)
    \/ Sync
    \/ \E t \in Tables : Discard(t) \/ Delete(t)
    \/ Crash

Spec == Init /\ [][Next]_vars

=============================================================================
