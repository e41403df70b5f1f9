---------------------------- MODULE MCLockClients ----------------------------
(* LockClients with threads of four kinds.                                 *)
EXTENDS LockClients, TLC

CONSTANTS r1, r2

R(r) == [record |-> r, action |-> "READ"]
W(r) == [record |-> r, action |-> "WRITE"]

(* Every sequence of at most two requests: opposite orders, upgrades and   *)
(* repeated requests included.                                             *)
AnyPrograms ==
    LET request == [record : Records, action : Actions]
    IN  [Tids -> {<<q>> : q \in request} \cup {<<q, p>> : q \in request, p \in request}]

(* One lock per record, r1 before r2. *)
OrderedPrograms ==
    [Tids -> {<<R(r1)>>, <<W(r1)>>, <<W(r2)>>, <<R(r1), R(r2)>>, <<R(r1), W(r2)>>,
              <<W(r1), R(r2)>>, <<W(r1), W(r2)>>}]

(* One lock per record, in any order: the first two threads can deadlock.  *)
(* The others ask for nothing.                                             *)
CrossingPrograms ==
    LET pair(r, s) == {<<f, g>> : f \in {R(r), W(r)}, g \in {R(s), W(s)}}
    IN  {p \in [Tids -> {<<>>} \cup pair(r1, r2) \cup pair(r2, r1)] :
            \A t \in Tids : p[t] = <<>> <=> t > 2}

OrderedOrCrossingPrograms == OrderedPrograms \cup CrossingPrograms

(* A second request for a record already read: an upgrade, as by a SELECT  *)
(* and an UPDATE of one table, or another reading.                         *)
SameRecordPrograms == [Tids -> {<<R(r1), W(r1)>>, <<R(r1), R(r1)>>, <<W(r1)>>}]

(* Threads of OrderedPrograms all commit: with one lock order for all, no  *)
(* thread of execute_with_retry starves or becomes a victim.               *)
EveryThreadCommits == OrderedThreadsCommit({<<r1, r2>>})

=============================================================================
