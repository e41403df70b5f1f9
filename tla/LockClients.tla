----------------------------- MODULE LockClients -----------------------------
(***************************************************************************)
(* Threads that use the lock manager the way the repository's own clients  *)
(* do (execute_with_retry in tests/test_concurrency_control.cpp): a thread *)
(* begins a transaction, asks for one lock after another, polls            *)
(* validate_object until it is allowed or the transaction was aborted, and *)
(* ends the transaction.  Threads are identified with the transaction ids  *)
(* they are given; which locks a thread asks for is its program.           *)
(***************************************************************************)
EXTENDS TwoPhaseLocking

CONSTANT Assignments  \* thread -> the sequence of [record, action] it runs

ASSUME AssignmentsAssumption ==
    Assignments \subseteq [Tids -> Seq([record : Records, action : Actions])]

VARIABLES
    program,    \* thread -> the requests it makes
    next        \* thread -> the index of the request it polls for; 0 before it
                \* begins, Len(program) + 1 once it has been allowed them all

clients == <<program, next>>
clientVars == <<current_transaction_id, transactions, x_lock_table, s_lock_table,
              wait_for_graph, lock_wait_queue, program, next>>

Requesting(t) == next[t] \in 1..Len(program[t]) /\ Active(t)
Request(t) == program[t][next[t]]

ClientInit ==
    /\ Init
    /\ program \in Assignments
    /\ next = [t \in Tids |-> 0]

Start ==
    /\ begin_transaction
    /\ next' = [next EXCEPT ![current_transaction_id'] = 1]
    /\ UNCHANGED program

(* One turn of the retry loop: allowed, the thread goes on to its next     *)
(* request; refused, it sleeps and will ask again.                         *)
PollAllowed(t) ==
    /\ Requesting(t)
    /\ LET q == Request(t)
       IN  AllowLocked(t, q.record, q.action) \/ GrantLock(t, q.record, q.action)
    /\ next' = [next EXCEPT ![t] = @ + 1]
    /\ UNCHANGED program

PollRefused(t) ==
    /\ Requesting(t)
    /\ LET q == Request(t)
       IN  \/ WaitInQueue(t, q.record)
           \/ WaitForHolder(t, q.record, q.action)
           \/ AbortRequester(t, q.record, q.action)
    /\ UNCHANGED clients

(* All requests allowed, or the transaction was aborted: the thread ends   *)
(* it, once.                                                               *)
Finish(t) ==
    /\ get_transaction_status(t) # "TERMINATED" /\ transactions[t].phase = "GROWING"
    /\ next[t] = Len(program[t]) + 1 \/ get_transaction_status(t) = "ABORTED"
    /\ end_transaction(t)
    /\ UNCHANGED clients

Thread(t) == PollAllowed(t) \/ PollRefused(t) \/ Finish(t)

ClientNext == Start \/ \E t \in Tids : Thread(t)

(* A thread that is not suspended polls again and, having what it needs,   *)
(* ends its transaction: the loops in the code are left no other way.      *)
ClientSpec ==
    /\ ClientInit
    /\ [][ClientNext]_clientVars
    /\ \A t \in Tids : WF_clientVars(Thread(t))

-----------------------------------------------------------------------------

(* A thread waits for exactly the record it polls for: no edge of the      *)
(* wait-for graph outlives the request it was drawn for, so a cycle in the *)
(* graph is a set of threads that really cannot go on.                     *)
EdgesAreCurrentWaits ==
    \A t \in Tids : \A u \in wait_for_graph[t] :
        /\ Requesting(t)
        /\ u \in Blockers(t, Request(t).record, Request(t).action)

(* A victim was needed: a transaction is aborted only when the holder it   *)
(* would wait for is itself waiting, directly or through others, for a     *)
(* lock the victim holds.                                                  *)
VictimsCloseCycles ==
    [][\A t \in Tids :
            Active(t) /\ get_transaction_status(t)' = "ABORTED" =>
                \E C \in SUBSET (Tids \ {t}) :
                    /\ C \cap Blockers(t, Request(t).record, Request(t).action) # {}
                    /\ \A u \in C :
                        /\ Requesting(u)
                        /\ (C \cup {t}) \cap
                               Blockers(u, Request(u).record, Request(u).action) # {}
      ]_clientVars

(* Nobody starves: a thread that has begun is in the end allowed all its   *)
(* requests or aborted, and ends its transaction.                          *)
EveryThreadFinishes ==
    \A t \in Tids : Active(t) ~> ~Active(t)

(* Every thread asks for each record once, and all in the order given.     *)
Ordered(order) ==
    \A t \in Tids : \A i, j \in DOMAIN program[t] :
        i < j => <<program[t][i].record, program[t][j].record>> \in order

(* Threads that never ask twice for a record and ask in the same order     *)
(* need no victims: all of them commit.                                    *)
OrderedThreadsCommit(order) ==
    \A t \in Tids : Active(t) /\ Ordered(order) ~> get_transaction_status(t) = "COMMITTED"

=============================================================================
