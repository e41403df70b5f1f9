---------------------------- MODULE SessionProofs ----------------------------
(***************************************************************************)
(* Proofs that the sessions keep the concurrency control and the recovery  *)
(* manager in step, and that a rollback takes back every row, for any      *)
(* number of sessions, tables, transactions and kinds of statements, under *)
(* either protocol.                                                        *)
(***************************************************************************)
EXTENDS Session, DataLemmas, TLAPS

LP == INSTANCE TwoPhaseLockingProofs
    WITH Records <- Tables, current_transaction_id <- last_transaction_id

-----------------------------------------------------------------------------
(* What the calls of the concurrency control do to the transactions.       *)

CCTyped ==
    /\ current_algorithm_ \in {"timestamp", "twophaselocking"}
    /\ last_transaction_id \in 0..MaxTransactions
    /\ transactions \in [Tids -> Locking!TransactionInfo2PL]
    /\ transactions_ \in [Tids -> {"TERMINATED", "ACTIVE", "FAILED"}]

(* begin_transaction opens the next id and leaves the others alone.        *)
LEMMA BeginOpens ==
    ASSUME CCTyped, cc_begin_transaction
    PROVE  /\ CCTyped'
           /\ last_transaction_id' = last_transaction_id + 1
           /\ last_transaction_id' \in Tids
           /\ \A t \in Tids : Unended(t)' <=> Unended(t) \/ t = last_transaction_id'
           /\ \A t \in Tids : Accepted(t)' <=> Accepted(t) \/ t = last_transaction_id'
<1> USE MaxTransactionsAssumption
    DEF CCTyped, Unended, Accepted, Locking!Active, Locking!get_transaction_status,
        Ordering!get_transaction_status, Tids
<1>1. CASE IsLocking /\ Locking!begin_transaction
    <2>1. last_transaction_id' = last_transaction_id + 1 /\ last_transaction_id' \in Tids
        BY <1>1 DEF Locking!begin_transaction
    <2>2. transactions' = [transactions EXCEPT ![last_transaction_id'] =
                [status |-> "ACTIVE", phase |-> "GROWING", locked_records |-> {}]]
        BY <1>1 DEF Locking!begin_transaction
    <2>3. transactions' \in [Tids -> Locking!TransactionInfo2PL]
        BY <2>1, <2>2 DEF Locking!TransactionInfo2PL, Locking!TransactionStatus,
                          Locking!TransactionPhase
    <2> QED
        BY <1>1, <2>1, <2>2, <2>3 DEF IsLocking, ordering
<1>2. CASE IsOrdering /\ Ordering!begin_transaction
    BY <1>2 DEF IsOrdering, Ordering!begin_transaction, locking
<1> QED
    BY <1>1, <1>2 DEF cc_begin_transaction

(* end_transaction closes the one transaction it is called for.            *)
LEMMA EndCloses ==
    ASSUME CCTyped, NEW t \in Tids, cc_end_transaction(t)
    PROVE  /\ CCTyped'
           /\ last_transaction_id' = last_transaction_id
           /\ \A u \in Tids : Unended(u)' <=> Unended(u) /\ u # t
           /\ \A u \in Tids \ {t} : Accepted(u)' <=> Accepted(u)
<1> USE DEF CCTyped, Unended, Accepted, Locking!Active, Locking!get_transaction_status,
            Ordering!get_transaction_status
<1>1. CASE IsLocking /\ Locking!end_transaction(t)
    <2> DEFINE info == [transactions[t] EXCEPT !.phase = "SHRINKING"]
    <2>1. info \in Locking!TransactionInfo2PL /\ info.phase = "SHRINKING"
        BY DEF Locking!TransactionInfo2PL, Locking!TransactionPhase
    <2>2. /\ transactions' \in [Tids -> Locking!TransactionInfo2PL]
          /\ transactions'[t].phase = "SHRINKING"
          /\ \A u \in Tids \ {t} : transactions'[u] = transactions[u]
          /\ last_transaction_id' = last_transaction_id
        <3>1. CASE info.status = "ABORTED"
            BY <1>1, <2>1, <3>1 DEF Locking!end_transaction
        <3>2. CASE info.status # "ABORTED"
            <4> DEFINE over == [info EXCEPT !.status = "COMMITTED"]
            <4>1. over \in Locking!TransactionInfo2PL /\ over.phase = "SHRINKING"
                BY <2>1 DEF Locking!TransactionInfo2PL, Locking!TransactionStatus
            <4>2. Locking!release_all_locks(t, over)
                BY <1>1, <3>2 DEF Locking!end_transaction
            <4> HIDE DEF over
            <4> QED
                BY <4>1, <4>2 DEF Locking!release_all_locks, Locking!TransactionInfo2PL
        <3> QED
            BY <3>1, <3>2
    <2> QED
        BY <1>1, <2>2 DEF IsLocking, ordering
<1>2. CASE IsOrdering /\ Ordering!end_transaction(t)
    BY <1>2 DEF IsOrdering, Ordering!end_transaction, locking
<1> QED
    BY <1>1, <1>2 DEF cc_end_transaction

(* Neither log_object nor an allowed access opens, closes or fails a       *)
(* transaction.                                                            *)
LEMMA AllowedKeeps ==
    ASSUME CCTyped, NEW t \in Tids, NEW r \in Tables, NEW a,
           log_object(t, r) \/ Allowed(t, r, a)
    PROVE  /\ CCTyped'
           /\ last_transaction_id' = last_transaction_id
           /\ \A u \in Tids : (Unended(u)' <=> Unended(u)) /\ (Accepted(u)' <=> Accepted(u))
<1> USE DEF CCTyped, Unended, Accepted, Locking!Active, Locking!get_transaction_status,
            Ordering!get_transaction_status
<1>1. CASE IsLocking /\ Locking!GrantLock(t, r, a)
    <2>1. /\ transactions' = [transactions EXCEPT ![t].locked_records = @ \cup {r}]
          /\ last_transaction_id' = last_transaction_id
        BY <1>1 DEF Locking!GrantLock
    <2>2. [transactions[t] EXCEPT !.locked_records = @ \cup {r}] \in Locking!TransactionInfo2PL
        BY DEF Locking!TransactionInfo2PL
    <2>3. /\ transactions' \in [Tids -> Locking!TransactionInfo2PL]
          /\ \A u \in Tids : /\ transactions'[u].status = transactions[u].status
                             /\ transactions'[u].phase = transactions[u].phase
        BY <2>1, <2>2 DEF Locking!TransactionInfo2PL
    <2> QED
        BY <1>1, <2>1, <2>3 DEF IsLocking, ordering
<1>2. CASE IsLocking /\ Locking!AllowLocked(t, r, a)
    BY <1>2 DEF IsLocking, ordering, Locking!AllowLocked, Locking!vars
<1>3. CASE IsLocking /\ UNCHANGED <<last_transaction_id, locking>>
    BY <1>3 DEF IsLocking, locking, ordering
<1>4. CASE IsOrdering /\ (Ordering!AllowAccess(t, r, a) \/ Ordering!log_object(t, r))
    BY <1>4 DEF IsOrdering, locking, Ordering!AllowAccess, Ordering!log_object
<1> QED
    BY <1>1, <1>2, <1>3, <1>4 DEF Allowed, log_object

(* A refusal may fail or abort the transaction that asked, but leaves it   *)
(* for its client to end.                                                  *)
LEMMA DeniedKeeps ==
    ASSUME CCTyped, NEW t \in Tids, NEW r, NEW a, Denied(t, r, a)
    PROVE  /\ CCTyped'
           /\ last_transaction_id' = last_transaction_id
           /\ \A u \in Tids : Unended(u)' <=> Unended(u)
           /\ \A u \in Tids \ {t} : Accepted(u)' <=> Accepted(u)
<1> USE DEF CCTyped, Unended, Accepted, Locking!Active, Locking!get_transaction_status,
            Ordering!get_transaction_status
<1>1. CASE IsLocking /\ Locking!RefuseInactive(t, r, a)
    BY <1>1 DEF IsLocking, ordering, Locking!RefuseInactive, Locking!vars
<1>2. CASE IsLocking /\ (Locking!WaitInQueue(t, r) \/ Locking!WaitForHolder(t, r, a))
    BY <1>2 DEF IsLocking, ordering, Locking!WaitInQueue, Locking!WaitForHolder
<1>3. CASE IsLocking /\ Locking!AbortRequester(t, r, a)
    <2> DEFINE info == [transactions[t] EXCEPT !.status = "ABORTED"]
    <2>1. Locking!release_all_locks(t, info)
        BY <1>3 DEF Locking!AbortRequester, Locking!abort_transaction
    <2>2. /\ info \in Locking!TransactionInfo2PL
          /\ info.phase = transactions[t].phase
          /\ info.status = "ABORTED"
        BY DEF Locking!TransactionInfo2PL, Locking!TransactionStatus
    <2>3. Locking!Active(t)
        BY <1>3 DEF Locking!AbortRequester, Locking!MustAbort, Locking!NeedsLock,
                    Locking!MayAcquire
    <2> HIDE DEF info
    <2> QED
        BY <1>3, <2>1, <2>2, <2>3 DEF IsLocking, ordering, Locking!release_all_locks,
           Locking!TransactionInfo2PL
<1>4. CASE IsOrdering /\ Ordering!RefuseAccess(t, r)
    BY <1>4 DEF IsOrdering, locking, Ordering!RefuseAccess, Ordering!vars
<1>5. CASE IsOrdering /\ Ordering!FailAccess(t, r, a)
    BY <1>5 DEF IsOrdering, locking, Ordering!FailAccess
<1> QED
    BY <1>1, <1>2, <1>3, <1>4, <1>5 DEF Denied

-----------------------------------------------------------------------------
(* The inductive invariant.                                                *)

Calls == {"check_schema", "prepare", "log_object", "validate", "access", "log_change"}

Typed ==
    /\ current_transaction_id \in [Sessions -> Tids \cup {NoTid}]
    /\ pc \in [Sessions -> Places]
    /\ statement \in [Sessions -> Statements \cup {NoStatement}]
    /\ todo \in [Sessions -> Seq(Tables)]
    /\ active_transactions_cache \subseteq Tids
    /\ orphans \subseteq Tids

(* What both managers know of the transaction of a session follows from    *)
(* the call it makes next.                                                 *)
Stage(s) ==
    /\ Tid(s) = NoTid => pc[s] = "idle"
    /\ pc[s] = "idle" => statement[s] = NoStatement
    /\ pc[s] \in Calls => statement[s] # NoStatement
    /\ statement[s] # NoStatement => todo[s] # <<>>
    /\ \A t \in Tids : Tid(s) = t =>
        /\ t <= last_transaction_id
        /\ t \notin orphans
        /\ Unended(t) <=> /\ pc[s] \notin {"undo", "log_abort"}
                          /\ pc[s] = "commit" => statement[s] # NoStatement
        /\ t \in active_transactions_cache <=> pc[s] \notin {"log_begin", "end_committed"}
        /\ pc[s] \in Calls \cup {"idle", "log_begin"} => Accepted(t)

(* Every open transaction has one owner or is lost.                        *)
Owned ==
    /\ \A s, z \in Sessions : Tid(s) = Tid(z) => s = z \/ Tid(s) = NoTid
    /\ \A t \in orphans :
        t <= last_transaction_id /\ Unended(t) /\ t \in active_transactions_cache
    /\ \A t \in Tids : Unended(t) \/ t \in active_transactions_cache =>
        t \in orphans \/ \E s \in Sessions : Tid(s) = t

Inv == CCTyped /\ Typed /\ (\A s \in Sessions : Stage(s)) /\ Owned

(* A step of session s disturbs only s and what is known of its            *)
(* transaction.                                                            *)
StepOf(s) ==
    /\ \A z \in Sessions \ {s} :
        UNCHANGED <<current_transaction_id[z], pc[z], statement[z], todo[z]>>
    /\ last_transaction_id' = last_transaction_id
    /\ \A u \in Tids \ {Tid(s)} :
        /\ Unended(u)' <=> Unended(u)
        /\ Accepted(u)' <=> Accepted(u)
        /\ u \in active_transactions_cache' <=> u \in active_transactions_cache

(* Such a step keeps the invariant when the session keeps its transaction  *)
(* or both managers have closed it.                                        *)
LEMMA StepKeeps ==
    ASSUME Inv, NEW s \in Sessions, StepOf(s), CCTyped', Typed', Stage(s)',
           orphans' = orphans,
           \/ Tid(s)' = Tid(s)
           \/ /\ Tid(s)' = NoTid
              /\ \A t \in Tids : Tid(s) = t =>
                    ~Unended(t)' /\ t \notin active_transactions_cache'
    PROVE  Inv'
<1>1. \A z \in Sessions \ {s} : Stage(z)'
    <2> SUFFICES ASSUME NEW z \in Sessions \ {s} PROVE Stage(z)'
        OBVIOUS
    <2>1. \A t \in Tids : Tid(z) = t => t # Tid(s)
        BY DEF Inv, Owned, Typed, NoTid, Tids
    <2>2. Tid(z)' = Tid(z) /\ pc'[z] = pc[z] /\ statement'[z] = statement[z]
          /\ todo'[z] = todo[z]
        BY DEF StepOf, Tid
    <2>3. Stage(z)
        BY DEF Inv
    <2> HIDE DEF Tid, Unended, Accepted
    <2> QED
        BY <2>1, <2>2, <2>3 DEF Stage, StepOf
<1>2. Owned'
    <2> HIDE DEF Unended, Accepted
    <2>1. \A z \in Sessions \ {s} : Tid(z)' = Tid(z)
        BY DEF StepOf, Tid
    <2>2. ASSUME NEW y \in Sessions, NEW z \in Sessions, Tid(y)' = Tid(z)'
          PROVE  y = z \/ Tid(y)' = NoTid
        <3> HIDE DEF Tid
        <3> QED
            BY <2>1, <2>2 DEF Inv, Owned
    <2>3. \A t \in orphans : t \in Tids /\ t # Tid(s)
        BY DEF Inv, Typed, Stage
    <2>4. ASSUME NEW t \in orphans'
          PROVE  t <= last_transaction_id' /\ Unended(t)' /\ t \in active_transactions_cache'
        <3> HIDE DEF Tid
        <3> QED
            BY <2>3, <2>4 DEF Inv, Owned, StepOf
    <2>5. ASSUME NEW t \in Tids, Unended(t)' \/ t \in active_transactions_cache'
          PROVE  t \in orphans' \/ \E z \in Sessions : Tid(z)' = t
        <3> HIDE DEF Tid
        <3>1. CASE t = Tid(s)
            BY <2>5, <3>1
        <3>2. CASE t # Tid(s)
            BY <2>1, <2>5, <3>2 DEF Inv, Owned, StepOf
        <3> QED
            BY <3>1, <3>2
    <2> QED
        BY <2>2, <2>4, <2>5 DEF Owned
<1> QED
    BY <1>1, <1>2 DEF Inv

(* The invariant holds at the start, when there is no transaction.         *)
LEMMA InvInit == Init => Inv
<1> SUFFICES ASSUME Init PROVE Inv
    OBVIOUS
<1> USE MaxTransactionsAssumption DEF Init
<1>1. CCTyped
    BY AlgorithmsAssumption DEF CCTyped, switch_algorithm, Locking!Init, Ordering!Init, Tids,
       Locking!Tids, Ordering!Tids, Locking!TransactionInfo2PL, Locking!TransactionStatus,
       Locking!TransactionPhase
<1>2. Typed
    BY DEF Typed, Places, NoTid
<1>3. \A t \in Tids : ~Unended(t)
    BY DEF switch_algorithm, Locking!Init, Ordering!Init, Unended, Tids, Locking!Tids,
       Ordering!Tids, Locking!get_transaction_status, Ordering!get_transaction_status
<1>4. \A s \in Sessions : Tid(s) = NoTid
    BY DEF Tid
<1>5. NoTid \notin Tids
    BY DEF NoTid, Tids
<1> HIDE DEF Unended, Tid, Tids
<1>6. \A s \in Sessions : Stage(s)
    BY <1>4, <1>5 DEF Stage, Calls
<1>7. Owned
    BY <1>3, <1>4 DEF Owned
<1> QED
    BY <1>1, <1>2, <1>6, <1>7 DEF Inv

-----------------------------------------------------------------------------
(* The calls of a statement: what session s is at may change, nothing that *)
(* is known of a transaction does.                                         *)

Kept ==
    /\ CCTyped'
    /\ last_transaction_id' = last_transaction_id
    /\ \A u \in Tids : (Unended(u)' <=> Unended(u)) /\ (Accepted(u)' <=> Accepted(u))

(* A step the concurrency control is not called in.                        *)
LEMMA IdleManagerKeeps ==
    ASSUME CCTyped, UNCHANGED ccm
    PROVE  Kept
BY DEF CCTyped, ccm, locking, ordering, Kept, Unended, Accepted, Locking!Active,
       Locking!get_transaction_status, Ordering!get_transaction_status

Moved(s) ==
    /\ pc' \in [Sessions -> Places]
    /\ statement' \in [Sessions -> Statements \cup {NoStatement}]
    /\ todo' \in [Sessions -> Seq(Tables)]
    /\ \A z \in Sessions \ {s} : UNCHANGED <<pc[z], statement[z], todo[z]>>

MovedOn(s) ==
    \/ /\ pc'[s] \in Calls \cup {"end_aborted", "commit"}
       /\ statement'[s] = statement[s]
       /\ todo'[s] # <<>>
    \/ pc'[s] = "idle" /\ statement'[s] = NoStatement

(* The three ways a session goes on.                                       *)
LEMMA GotoMoves ==
    ASSUME Typed, NEW s \in Sessions, NEW place \in Places, Goto(s, place),
           UNCHANGED <<statement, todo>>
    PROVE  Moved(s) /\ pc'[s] = place
BY DEF Typed, Goto, Moved

LEMMA AnsweredMoves ==
    ASSUME Typed, NEW s \in Sessions, Answered(s)
    PROVE  Moved(s) /\ pc'[s] = "idle" /\ statement'[s] = NoStatement
BY DEF Typed, Answered, Goto, Moved, Places

LEMMA FinishMoves ==
    ASSUME Inv, NEW s \in Sessions, pc[s] \in Calls, Finish(s)
    PROVE  Moved(s) /\ MovedOn(s)
<1>1. Typed /\ todo[s] # <<>>
    BY DEF Inv, Stage
<1>2. "commit" \in Places
    BY DEF Places
<1> QED
    BY <1>1, <1>2, GotoMoves, AnsweredMoves DEF Finish, MovedOn

(* A statement starts with one of its calls.                               *)
LEMMA FirstCallIsCall ==
    ASSUME NEW q \in Statements
    PROVE  /\ FirstCall(q) \in Calls \ {"access"}
           /\ q # NoStatement /\ q.tables \in Seq(Tables) \ {<<>>}
<1>1. q.kind \in {"SELECT", "INSERT", "CREATE", "DROP"} /\ q.tables \in Seq(Tables) \ {<<>>}
    BY StatementsAssumption
<1>2. NoStatement.kind = "NONE"
    BY DEF NoStatement
<1> QED
    BY <1>1, <1>2 DEF FirstCall, Calls

(* A call of a statement that moves on this way keeps the invariant.       *)
LEMMA CallKeeps ==
    ASSUME Inv, NEW s \in Sessions, pc[s] \in Calls, Kept, Moved(s), MovedOn(s),
           UNCHANGED <<current_transaction_id, active_transactions_cache, orphans>>
    PROVE  Inv'
<1>1. Tid(s)' = Tid(s)
    BY DEF Tid
<1>2. CCTyped' /\ Typed'
    BY DEF Inv, Kept, Moved, Typed
<1> HIDE DEF Tid, Unended, Accepted
<1>3. StepOf(s)
    BY DEF Kept, Moved, StepOf
<1>4. Stage(s)
    BY DEF Inv
<1>5. Stage(s)'
    <2>1. \A t \in Tids : (Unended(t)' <=> Unended(t)) /\ (Accepted(t)' <=> Accepted(t))
        BY DEF Kept
    <2> QED
        BY <1>1, <1>4, <2>1 DEF Stage, Kept, MovedOn, Calls
<1> QED
    BY <1>1, <1>2, <1>3, <1>5, StepKeeps

(* What a join has yet to read after its first table.                      *)
LEMMA LongTail ==
    ASSUME NEW q \in Seq(Tables), Len(q) > 1
    PROVE  Tail(q) \in Seq(Tables) /\ Tail(q) # <<>>
<1>1. Len(q) \in Nat /\ Len(q) - 1 # 0
    OBVIOUS
<1>2. q # <<>>
    BY <1>1
<1>3. Tail(q) \in Seq(Tables) /\ Len(Tail(q)) = Len(q) - 1
    BY <1>2
<1>4. Len(Tail(q)) # Len(<<>>)
    BY <1>1, <1>3
<1> QED
    BY <1>3, <1>4

(* Every call of a statement that is not refused keeps the invariant.      *)
LEMMA StatementCallsKeep ==
    ASSUME Inv, NEW s \in Sessions,
           \/ get_table_schema(s) \/ prepare_ddl_operation(s) \/ LogObject(s)
           \/ AccessAllowed(s) \/ Read(s) \/ ChangeTable(s) \/ LogChange(s)
    PROVE  Inv'
<1>1. Typed /\ CCTyped
    BY DEF Inv
<1>2. pc[s] \in Calls => todo[s] # <<>> /\ Tid(s) \in Tids /\ Table(s) \in Tables
    <2>1. pc[s] \in Calls => todo[s] # <<>> /\ Tid(s) # NoTid
        BY DEF Inv, Stage, Calls
    <2> QED
        BY <1>1, <2>1 DEF Typed, Tid, Table
<1>3. Calls \cup {"end_aborted"} \subseteq Places
    BY DEF Calls, Places
<1>4. CASE get_table_schema(s)
    <2>1. pc[s] \in Calls
        BY <1>4 DEF get_table_schema, Calls
    <2>2. Moved(s) /\ MovedOn(s)
        BY <1>1, <1>2, <1>3, <1>4, <2>1, GotoMoves DEF get_table_schema, Calls, MovedOn
    <2> QED
        BY <1>1, <1>4, <2>1, <2>2, IdleManagerKeeps, CallKeeps DEF get_table_schema, recovery
<1>5. CASE prepare_ddl_operation(s)
    <2>1. pc[s] \in Calls
        BY <1>5 DEF prepare_ddl_operation, Calls
    <2>2. Moved(s) /\ MovedOn(s)
        BY <1>1, <1>2, <1>3, <1>5, <2>1, GotoMoves DEF prepare_ddl_operation, Calls, MovedOn
    <2> QED
        BY <1>1, <1>5, <2>1, <2>2, IdleManagerKeeps, CallKeeps DEF prepare_ddl_operation
<1>6. CASE LogObject(s)
    <2>1. pc[s] \in Calls
        BY <1>6 DEF LogObject, Calls
    <2>2. Moved(s) /\ MovedOn(s)
        BY <1>1, <1>2, <1>3, <1>6, <2>1, GotoMoves DEF LogObject, Calls, MovedOn
    <2>3. log_object(Tid(s), Table(s))
        BY <1>6 DEF LogObject
    <2>4. Kept
        BY <1>1, <1>2, <2>1, <2>3, AllowedKeeps DEF Kept
    <2> QED
        BY <1>6, <2>1, <2>2, <2>4, CallKeeps DEF LogObject, recovery
<1>7. CASE AccessAllowed(s)
    <2>1. pc[s] \in Calls
        BY <1>7 DEF AccessAllowed, Calls
    <2>2. Moved(s) /\ MovedOn(s)
        BY <1>1, <1>2, <1>3, <1>7, <2>1, GotoMoves DEF AccessAllowed, Calls, MovedOn
    <2>3. Allowed(Tid(s), Table(s), Action(s))
        BY <1>7 DEF AccessAllowed
    <2>4. Kept
        BY <1>1, <1>2, <2>1, <2>3, AllowedKeeps DEF Kept
    <2> QED
        BY <1>7, <2>1, <2>2, <2>4, CallKeeps DEF AccessAllowed, recovery
<1>8. CASE Read(s)
    <2>1. pc[s] \in Calls
        BY <1>8 DEF Read, Calls
    <2>2. CASE Len(todo[s]) > 1
        <3>1. todo[s] \in Seq(Tables) /\ todo' = [todo EXCEPT ![s] = Tail(@)]
            BY <1>1, <1>8, <2>2 DEF Read, Typed
        <3>2. Tail(todo[s]) \in Seq(Tables) /\ Tail(todo[s]) # <<>>
            BY <2>2, <3>1, LongTail
        <3>3. pc' = [pc EXCEPT ![s] = "check_schema"] /\ statement' = statement
            BY <1>8, <2>2 DEF Read, Goto
        <3>4. Moved(s) /\ MovedOn(s)
            BY <1>1, <1>3, <3>1, <3>2, <3>3 DEF Moved, MovedOn, Typed, Calls
        <3> QED
            BY <1>1, <1>8, <2>1, <3>4, IdleManagerKeeps, CallKeeps DEF Read, recovery
    <2>3. CASE ~(Len(todo[s]) > 1)
        <3>1. Moved(s) /\ MovedOn(s)
            BY <1>8, <2>1, <2>3, FinishMoves DEF Read
        <3> QED
            BY <1>1, <1>8, <2>1, <3>1, IdleManagerKeeps, CallKeeps DEF Read, recovery
    <2> QED
        BY <2>2, <2>3
<1>9. CASE ChangeTable(s)
    <2>1. pc[s] \in Calls
        BY <1>9 DEF ChangeTable, Calls
    <2>2. \/ Finish(s)
          \/ Goto(s, "end_aborted") /\ UNCHANGED <<statement, todo>>
          \/ Goto(s, "log_change") /\ UNCHANGED <<statement, todo>>
        <3>1. CASE InsertRow(s, Table(s))
            BY <3>1 DEF InsertRow, Change
        <3>2. CASE CreateTable(s, Table(s))
            BY <3>2 DEF CreateTable, Change
        <3>3. CASE DropTable(s, Table(s))
            BY <3>3 DEF DropTable, Change
        <3> QED
            BY <1>9, <3>1, <3>2, <3>3 DEF ChangeTable
    <2>3. Moved(s) /\ MovedOn(s)
        BY <1>1, <1>2, <1>3, <2>1, <2>2, GotoMoves, FinishMoves DEF Calls, MovedOn
    <2> QED
        BY <1>1, <1>9, <2>1, <2>3, IdleManagerKeeps, CallKeeps DEF ChangeTable, recovery
<1>10. CASE LogChange(s)
    <2>1. pc[s] \in Calls
        BY <1>10 DEF LogChange, Calls
    <2>2. Moved(s) /\ MovedOn(s)
        BY <1>10, <2>1, FinishMoves DEF LogChange
    <2> QED
        BY <1>1, <1>10, <2>1, <2>2, IdleManagerKeeps, CallKeeps DEF LogChange
<1> QED
    BY <1>4, <1>5, <1>6, <1>7, <1>8, <1>9, <1>10

-----------------------------------------------------------------------------
(* The ends of a transaction.                                              *)

(* A refusal sends the session to end its transaction.                     *)
LEMMA DeniedKeepsInv ==
    ASSUME Inv, NEW s \in Sessions, AccessDenied(s)
    PROVE  Inv'
<1>1. Typed /\ CCTyped /\ pc[s] \in Calls /\ Stage(s)
    BY DEF Inv, AccessDenied, Calls
<1>2. Tid(s) \in Tids /\ Table(s) \in Tables
    BY <1>1 DEF Stage, Typed, Tid, Table, Calls
<1>3. Moved(s) /\ pc'[s] = "end_aborted" /\ UNCHANGED <<statement, todo>>
    <2>1. "end_aborted" \in Places
        BY DEF Places
    <2> QED
        BY <1>1, <2>1, GotoMoves DEF AccessDenied
<1>4. Denied(Tid(s), Table(s), Action(s))
    BY DEF AccessDenied
<1>5. /\ CCTyped'
      /\ last_transaction_id' = last_transaction_id
      /\ \A u \in Tids : Unended(u)' <=> Unended(u)
      /\ \A u \in Tids \ {Tid(s)} : Accepted(u)' <=> Accepted(u)
    BY <1>1, <1>2, <1>4, DeniedKeeps
<1>6. UNCHANGED <<current_transaction_id, active_transactions_cache, orphans>>
    BY DEF AccessDenied, recovery
<1>7. Typed' /\ Tid(s)' = Tid(s)
    BY <1>1, <1>3, <1>6 DEF Typed, Moved, Tid
<1> HIDE DEF Tid, Unended, Accepted
<1>8. StepOf(s)
    BY <1>3, <1>5, <1>6 DEF StepOf, Moved
<1>9. Stage(s)'
    BY <1>1, <1>3, <1>5, <1>6, <1>7 DEF Stage, Calls
<1> QED
    BY <1>5, <1>6, <1>7, <1>8, <1>9, StepKeeps

(* The concurrency control ends the transaction first.                     *)
LEMMA EndFirstKeepsInv ==
    ASSUME Inv, NEW s \in Sessions, Commit(s) \/ Rollback(s) \/ EndAborted(s)
    PROVE  Inv'
<1>1. Typed /\ CCTyped /\ Stage(s)
    BY DEF Inv
<1>2. /\ cc_end_transaction(Tid(s))
      /\ UNCHANGED <<current_transaction_id, active_transactions_cache, orphans>>
      /\ UNCHANGED <<statement, todo>>
    BY DEF Commit, Rollback, EndAborted, recovery
<1>3. Tid(s) \in Tids /\ Tid(s) # NoTid
    BY <1>1 DEF Commit, Rollback, EndAborted, Stage, Typed, Tid
<1>4. /\ Moved(s)
      /\ pc[s] \in {"idle", "end_aborted"}
      /\ pc'[s] = "undo" \/ (pc[s] = "idle" /\ pc'[s] = "commit")
    <2>1. {"undo", "commit"} \subseteq Places
        BY DEF Places
    <2> QED
        BY <1>1, <1>2, <2>1, GotoMoves DEF Commit, Rollback, EndAborted
<1>5. /\ CCTyped'
      /\ last_transaction_id' = last_transaction_id
      /\ \A u \in Tids : Unended(u)' <=> Unended(u) /\ u # Tid(s)
      /\ \A u \in Tids \ {Tid(s)} : Accepted(u)' <=> Accepted(u)
    BY <1>1, <1>2, <1>3, EndCloses
<1>6. Typed' /\ Tid(s)' = Tid(s)
    BY <1>1, <1>2, <1>4 DEF Typed, Moved, Tid
<1> HIDE DEF Tid, Unended, Accepted
<1>7. StepOf(s)
    BY <1>2, <1>4, <1>5 DEF StepOf, Moved
<1>8. Stage(s)'
    BY <1>1, <1>2, <1>3, <1>4, <1>5, <1>6 DEF Stage, Calls
<1> QED
    BY <1>2, <1>5, <1>6, <1>7, <1>8, StepKeeps

(* The second manager has closed it: the session is free again.            *)
LEMMA ReleaseKeeps ==
    ASSUME Inv, NEW s \in Sessions, Moved(s), pc'[s] = "idle", statement'[s] = NoStatement,
           Hold(s, NoTid, FALSE), orphans' = orphans, CCTyped',
           last_transaction_id' = last_transaction_id,
           active_transactions_cache' = active_transactions_cache \ {Tid(s)},
           \A u \in Tids \ {Tid(s)} : (Unended(u)' <=> Unended(u)) /\ (Accepted(u)' <=> Accepted(u)),
           \A t \in Tids : Tid(s) = t => ~Unended(t)'
    PROVE  Inv'
<1>1. Typed
    BY DEF Inv
<1>2. /\ current_transaction_id' \in [Sessions -> Tids \cup {NoTid}]
      /\ Tid(s)' = NoTid
      /\ \A z \in Sessions \ {s} : current_transaction_id'[z] = current_transaction_id[z]
    BY <1>1 DEF Hold, Typed, Tid
<1>3. Typed'
    BY <1>1, <1>2 DEF Typed, Moved
<1>4. NoTid \notin Tids
    BY DEF NoTid, Tids
<1> HIDE DEF Tid, Unended, Accepted, Tids, NoTid
<1>5. StepOf(s)
    BY <1>2 DEF StepOf, Moved
<1>6. Stage(s)'
    BY <1>2, <1>4 DEF Stage, Calls
<1>7. \A t \in Tids : Tid(s) = t => ~Unended(t)' /\ t \notin active_transactions_cache'
    OBVIOUS
<1> QED
    BY <1>2, <1>3, <1>5, <1>6, <1>7, StepKeeps

LEMMA LastCallsKeepInv ==
    ASSUME Inv, NEW s \in Sessions,
           CommitLog(s) \/ EndCommitted(s) \/ Undo(s) \/ LogAbort(s)
    PROVE  Inv'
<1>1. Typed /\ CCTyped /\ Stage(s)
    BY DEF Inv
<1>2. Tid(s) \in Tids /\ Tid(s) # NoTid
    BY <1>1 DEF CommitLog, EndCommitted, Undo, LogAbort, Stage, Typed, Tid
<1>3. {"end_committed", "log_abort"} \subseteq Places
    BY DEF Places
<1>4. CASE CommitLog(s) /\ statement[s] # NoStatement
    <2>1. /\ Moved(s) /\ pc[s] = "commit" /\ pc'[s] = "end_committed"
          /\ statement[s] # NoStatement
          /\ UNCHANGED <<current_transaction_id, orphans, statement, todo>>
        BY <1>1, <1>3, <1>4, GotoMoves DEF CommitLog
    <2>2. active_transactions_cache' = active_transactions_cache \ {Tid(s)}
        BY <1>4 DEF CommitLog, WriteLast
    <2>3. Kept
        BY <1>1, <1>4, IdleManagerKeeps DEF CommitLog
    <2>4. Typed' /\ Tid(s)' = Tid(s)
        BY <1>1, <2>1, <2>2 DEF Typed, Moved, Tid
    <2> HIDE DEF Tid, Unended, Accepted
    <2>5. StepOf(s)
        BY <2>1, <2>2, <2>3 DEF StepOf, Moved, Kept
    <2>6. Stage(s)'
        BY <1>1, <1>2, <2>1, <2>2, <2>3, <2>4 DEF Stage, Kept, Calls
    <2> QED
        BY <2>1, <2>3, <2>4, <2>5, <2>6, StepKeeps DEF Kept
<1>5. CASE CommitLog(s) /\ statement[s] = NoStatement
    <2>1. Moved(s) /\ pc'[s] = "idle" /\ statement'[s] = NoStatement
        BY <1>1, <1>5, AnsweredMoves DEF CommitLog
    <2>2. Hold(s, NoTid, FALSE) /\ orphans' = orphans
        BY <1>5 DEF CommitLog
    <2>3. active_transactions_cache' = active_transactions_cache \ {Tid(s)}
        BY <1>5 DEF CommitLog, WriteLast
    <2>4. Kept
        BY <1>1, <1>5, IdleManagerKeeps DEF CommitLog
    <2>5. pc[s] = "commit"
        BY <1>5 DEF CommitLog
    <2>6. \A t \in Tids : Tid(s) = t => ~Unended(t)'
        BY <1>1, <1>5, <2>4, <2>5 DEF Stage, Kept
    <2> QED
        BY <2>1, <2>2, <2>3, <2>4, <2>6, ReleaseKeeps DEF Kept
<1>6. CASE EndCommitted(s)
    <2>1. Moved(s) /\ pc'[s] = "idle" /\ statement'[s] = NoStatement
        BY <1>1, <1>6, AnsweredMoves DEF EndCommitted
    <2>2. /\ Hold(s, NoTid, FALSE) /\ orphans' = orphans
          /\ active_transactions_cache' = active_transactions_cache
          /\ cc_end_transaction(Tid(s)) /\ pc[s] = "end_committed"
        BY <1>6 DEF EndCommitted, recovery
    <2>3. active_transactions_cache' = active_transactions_cache \ {Tid(s)}
        BY <1>1, <1>2, <2>2 DEF Stage
    <2>4. /\ CCTyped'
          /\ last_transaction_id' = last_transaction_id
          /\ \A u \in Tids : Unended(u)' <=> Unended(u) /\ u # Tid(s)
          /\ \A u \in Tids \ {Tid(s)} : Accepted(u)' <=> Accepted(u)
        BY <1>1, <1>2, <2>2, EndCloses
    <2> QED
        BY <2>1, <2>2, <2>3, <2>4, ReleaseKeeps
<1>7. CASE Undo(s)
    <2>1. pc[s] = "undo"
        BY <1>7 DEF Undo
    <2>2. Tid(s) \in active_transactions_cache
        BY <1>1, <1>2, <2>1 DEF Stage
    <2>3. UNCHANGED <<ccm, current_transaction_id, orphans, statement, todo,
                      active_transactions_cache>>
        BY <1>7, <2>2 DEF Undo, recovery
    <2>4. Moved(s) /\ pc'[s] = "log_abort"
        BY <1>1, <1>3, <1>7, <2>2, <2>3, GotoMoves DEF Undo
    <2>5. Kept
        BY <1>1, <2>3, IdleManagerKeeps
    <2>6. Typed' /\ Tid(s)' = Tid(s)
        BY <1>1, <2>3, <2>4 DEF Typed, Moved, Tid
    <2> HIDE DEF Tid, Unended, Accepted
    <2>7. StepOf(s)
        BY <2>3, <2>4, <2>5 DEF StepOf, Moved, Kept
    <2>8. Stage(s)'
        BY <1>1, <1>2, <2>1, <2>3, <2>4, <2>5, <2>6 DEF Stage, Kept, Calls
    <2> QED
        BY <2>3, <2>5, <2>6, <2>7, <2>8, StepKeeps DEF Kept
<1>8. CASE LogAbort(s)
    <2>1. Moved(s) /\ pc'[s] = "idle" /\ statement'[s] = NoStatement
        BY <1>1, <1>8, AnsweredMoves DEF LogAbort
    <2>2. /\ Hold(s, NoTid, FALSE) /\ orphans' = orphans /\ pc[s] = "log_abort"
          /\ active_transactions_cache' = active_transactions_cache \ {Tid(s)}
        BY <1>8 DEF LogAbort, WriteLast
    <2>3. Kept
        BY <1>1, <1>8, IdleManagerKeeps DEF LogAbort
    <2>4. \A t \in Tids : Tid(s) = t => ~Unended(t)'
        BY <1>1, <2>2, <2>3 DEF Stage, Kept
    <2> QED
        BY <2>1, <2>2, <2>3, <2>4, ReleaseKeeps DEF Kept
<1> QED
    BY <1>4, <1>5, <1>6, <1>7, <1>8

-----------------------------------------------------------------------------
(* The beginnings.                                                         *)

LEMMA LogBeginKeepsInv ==
    ASSUME Inv, NEW s \in Sessions, LogBegin(s)
    PROVE  Inv'
<1>1. Typed /\ CCTyped /\ Stage(s) /\ pc[s] = "log_begin"
    BY DEF Inv, LogBegin
<1>2. Tid(s) \in Tids /\ Tid(s) # NoTid
    BY <1>1 DEF Stage, Typed, Tid
<1>3. /\ UNCHANGED <<ccm, current_transaction_id, orphans, statement, todo>>
      /\ active_transactions_cache' = active_transactions_cache \cup {Tid(s)}
    BY DEF LogBegin
<1>4. /\ Moved(s)
      /\ \/ pc'[s] = "idle" /\ statement[s] = NoStatement
         \/ pc'[s] \in Calls /\ statement[s] # NoStatement
    <2>1. CASE statement[s] = NoStatement
        <3>1. "idle" \in Places
            BY DEF Places
        <3> QED
            BY <1>1, <1>3, <2>1, <3>1, GotoMoves DEF LogBegin
    <2>2. CASE statement[s] # NoStatement
        <3>1. FirstCall(statement[s]) \in Calls
            BY <1>1, <2>2, FirstCallIsCall DEF Typed
        <3>2. Calls \subseteq Places
            BY DEF Calls, Places
        <3> QED
            BY <1>1, <1>3, <2>2, <3>1, <3>2, GotoMoves DEF LogBegin
    <2> QED
        BY <2>1, <2>2
<1>5. Kept
    BY <1>1, <1>3, IdleManagerKeeps
<1>6. Typed' /\ Tid(s)' = Tid(s)
    BY <1>1, <1>2, <1>3, <1>4 DEF Typed, Moved, Tid
<1> HIDE DEF Tid, Unended, Accepted
<1>7. StepOf(s)
    BY <1>3, <1>4, <1>5 DEF StepOf, Moved, Kept
<1>8. Stage(s)'
    BY <1>1, <1>2, <1>3, <1>4, <1>5, <1>6 DEF Stage, Kept, Calls
<1> QED
    BY <1>3, <1>5, <1>6, <1>7, <1>8, StepKeeps DEF Kept

(* A session that lets go of its transaction, if it has one, and takes a   *)
(* new one or none.                                                        *)
LetGo(s) ==
    /\ orphans' = orphans \cup ({Tid(s)} \ {NoTid})
    /\ active_transactions_cache' = active_transactions_cache
    /\ \A z \in Sessions \ {s} : current_transaction_id'[z] = current_transaction_id[z]

(* What the other sessions hold stays theirs, and what is lost is lost     *)
(* open.                                                                   *)
LEMMA LetGoKeeps ==
    ASSUME Inv, NEW s \in Sessions, LetGo(s), Moved(s), pc[s] = "idle", CCTyped', Typed',
           Stage(s)',
           last_transaction_id' >= last_transaction_id,
           \A t \in Tids : Tid(s)' = t => t = last_transaction_id' /\ t > last_transaction_id,
           \A u \in Tids : /\ Unended(u)' <=> Unended(u) \/ Tid(s)' = u
                           /\ Accepted(u)' <=> Accepted(u) \/ Tid(s)' = u
    PROVE  Inv'
<1>1. last_transaction_id \in Nat /\ last_transaction_id' \in Nat /\ Tids \subseteq Nat
    BY MaxTransactionsAssumption DEF Inv, CCTyped, Tids
<1>2. Typed /\ Owned /\ Stage(s)
    BY DEF Inv
<1>3. NoTid \notin Tids
    BY DEF NoTid, Tids
<1>4. \A z \in Sessions : Tid(z) \in Tids \cup {NoTid} /\ Tid(z)' \in Tids \cup {NoTid}
    BY <1>2 DEF Typed, Tid
<1>5. \A z \in Sessions \ {s} : Tid(z)' = Tid(z)
    BY DEF LetGo, Tid
<1>6. \A z \in Sessions, t \in Tids : Tid(z) = t => t <= last_transaction_id /\ t # Tid(s)'
    <2> SUFFICES ASSUME NEW z \in Sessions, NEW t \in Tids, Tid(z) = t
                 PROVE  t <= last_transaction_id /\ t # Tid(s)'
        OBVIOUS
    <2>1. t <= last_transaction_id
        BY DEF Inv, Stage
    <2> QED
        BY <1>1, <2>1
<1> HIDE DEF Tid, Unended, Accepted, Tids, NoTid
<1>7. ASSUME NEW z \in Sessions \ {s} PROVE Stage(z)'
    <2>1. Stage(z)
        BY DEF Inv
    <2>2. pc'[z] = pc[z] /\ statement'[z] = statement[z] /\ todo'[z] = todo[z]
        BY DEF Moved
    <2>3. \A t \in Tids : Tid(z)' = t => Tid(z) = t /\ t # Tid(s)' /\ t # Tid(s)
        BY <1>2, <1>3, <1>5, <1>6 DEF Owned
    <2>4. ASSUME NEW t \in Tids, Tid(z)' = t
          PROVE  /\ t <= last_transaction_id'
                 /\ t \notin orphans'
                 /\ Unended(t)' <=> Unended(t)
                 /\ Accepted(t)' <=> Accepted(t)
        <3>1. t <= last_transaction_id /\ t \notin orphans
            BY <2>1, <2>3, <2>4 DEF Stage
        <3>2. t <= last_transaction_id'
            BY <1>1, <3>1
        <3> QED
            BY <2>3, <2>4, <3>1, <3>2 DEF LetGo
    <2> QED
        BY <1>5, <2>1, <2>2, <2>3, <2>4 DEF Stage, LetGo
<1>8. \A y, z \in Sessions : Tid(y)' = Tid(z)' => y = z \/ Tid(y)' = NoTid
    <2>1. \A z \in Sessions \ {s} : Tid(z)' = Tid(s)' => Tid(s)' = NoTid
        BY <1>4, <1>5, <1>6
    <2> QED
        BY <1>2, <1>5, <2>1 DEF Owned
<1>9. ASSUME NEW t \in orphans'
      PROVE  t <= last_transaction_id' /\ Unended(t)' /\ t \in active_transactions_cache'
    <2>1. CASE t \in orphans
        <3>1. t <= last_transaction_id /\ Unended(t) /\ t \in active_transactions_cache
            BY <1>2, <2>1 DEF Owned
        <3>2. t \in Tids
            BY <1>2, <2>1 DEF Typed
        <3>3. t <= last_transaction_id'
            BY <1>1, <3>1, <3>2
        <3> QED
            BY <3>1, <3>2, <3>3 DEF LetGo
    <2>2. CASE t = Tid(s) /\ t # NoTid
        <3>1. t \in Tids
            BY <1>4, <2>2
        <3>2. t <= last_transaction_id /\ Unended(t) /\ t \in active_transactions_cache
            BY <1>2, <2>2, <3>1 DEF Stage
        <3>3. t <= last_transaction_id'
            BY <1>1, <3>1, <3>2
        <3> QED
            BY <3>1, <3>2, <3>3 DEF LetGo
    <2> QED
        BY <1>9, <2>1, <2>2 DEF LetGo
<1>10. ASSUME NEW t \in Tids, Unended(t)' \/ t \in active_transactions_cache'
       PROVE  t \in orphans' \/ \E z \in Sessions : Tid(z)' = t
    <2>1. CASE Tid(s)' = t
        BY <2>1
    <2>2. CASE Tid(s)' # t
        <3>1. Unended(t) \/ t \in active_transactions_cache
            BY <1>10, <2>2 DEF LetGo
        <3>2. CASE t \in orphans
            BY <3>2 DEF LetGo
        <3>3. CASE Tid(s) = t
            BY <1>3, <3>3 DEF LetGo
        <3>4. CASE \E z \in Sessions \ {s} : Tid(z) = t
            BY <1>5, <3>4
        <3> QED
            BY <1>2, <3>1, <3>2, <3>3, <3>4 DEF Owned
    <2> QED
        BY <2>1, <2>2
<1> QED
    BY <1>7, <1>8, <1>9, <1>10 DEF Inv, Owned

(* BEGIN and a statement of its own take the next id.                      *)
LEMMA TakeNewKeeps ==
    ASSUME Inv, NEW s \in Sessions, NEW explicit, cc_begin_transaction,
           Hold(s, last_transaction_id', explicit), LetGo(s), Moved(s),
           pc[s] = "idle", pc'[s] = "log_begin",
           statement'[s] # NoStatement => todo'[s] # <<>>
    PROVE  Inv'
<1>1. Typed /\ CCTyped
    BY DEF Inv
<1>2. /\ CCTyped'
      /\ last_transaction_id' = last_transaction_id + 1
      /\ last_transaction_id' \in Tids
      /\ \A t \in Tids : Unended(t)' <=> Unended(t) \/ t = last_transaction_id'
      /\ \A t \in Tids : Accepted(t)' <=> Accepted(t) \/ t = last_transaction_id'
    BY <1>1, BeginOpens
<1>3. /\ Tid(s)' = last_transaction_id'
      /\ current_transaction_id' \in [Sessions -> Tids \cup {NoTid}]
    BY <1>1, <1>2 DEF Hold, Typed, Tid
<1>4. Tid(s) \in Tids \cup {NoTid} /\ NoTid \notin Tids
    BY <1>1 DEF Typed, Tid, NoTid, Tids
<1>5. Typed'
    BY <1>1, <1>3, <1>4 DEF Typed, LetGo, Moved
<1>6. last_transaction_id \in Nat /\ last_transaction_id' > last_transaction_id
    BY <1>1, <1>2, MaxTransactionsAssumption DEF CCTyped
<1> HIDE DEF Tid, Unended, Accepted, Tids, NoTid
<1>7. \A t \in Tids : t = last_transaction_id' =>
          t \notin orphans' /\ t \notin active_transactions_cache
    <2> SUFFICES ASSUME NEW t \in Tids, t = last_transaction_id',
                        t \in orphans' \/ t \in active_transactions_cache
                 PROVE  FALSE
        OBVIOUS
    <2>1. \A z \in Sessions : Tid(z) # t
        BY <1>2, <1>6 DEF Inv, Stage
    <2>2. t \notin orphans
        BY <1>2, <1>6 DEF Inv, Owned
    <2> QED
        BY <2>1, <2>2 DEF Inv, Owned, LetGo
<1>8. Stage(s)'
    BY <1>2, <1>3, <1>4, <1>6, <1>7 DEF Stage, Calls, LetGo
<1> QED
    BY <1>2, <1>3, <1>5, <1>6, <1>8, LetGoKeeps

(* What the clients ask for, unless it ends a transaction.                 *)
LEMMA RequestsKeepInv ==
    ASSUME Inv, NEW s \in Sessions,
           \/ Begin(s) \/ Disconnect(s)
           \/ \E q \in Statements : ExecuteAlone(s, q) \/ ExecuteInside(s, q)
    PROVE  Inv'
<1>1. Typed /\ CCTyped /\ Stage(s) /\ pc[s] = "idle"
    BY DEF Inv, Begin, ExecuteAlone, ExecuteInside, Disconnect
<1>2. {"idle", "log_begin"} \subseteq Places /\ Calls \subseteq Places
    BY DEF Places, Calls
<1>3. \A q \in Statements :
          FirstCall(q) \in Calls /\ q # NoStatement /\ q.tables \in Seq(Tables) \ {<<>>}
    BY FirstCallIsCall
<1>4. Tid(s) \in Tids \cup {NoTid} /\ NoTid \notin Tids
    BY <1>1 DEF Typed, Tid, NoTid, Tids
<1>5. CASE Begin(s)
    <2>1. Moved(s) /\ pc'[s] = "log_begin" /\ statement' = statement
        BY <1>1, <1>2, <1>5, GotoMoves DEF Begin
    <2>2. statement'[s] = NoStatement
        BY <1>1, <2>1 DEF Stage
    <2>3. LetGo(s)
        BY <1>1, <1>5 DEF Begin, LetGo, Hold, Typed, recovery
    <2>4. cc_begin_transaction /\ Hold(s, last_transaction_id', TRUE)
        BY <1>5 DEF Begin
    <2> QED
        BY <1>1, <2>1, <2>2, <2>3, <2>4, TakeNewKeeps
<1>6. ASSUME NEW q \in Statements, ExecuteAlone(s, q) PROVE Inv'
    <2>1. Moved(s) /\ pc'[s] = "log_begin" /\ todo'[s] # <<>>
        BY <1>1, <1>2, <1>3, <1>6 DEF ExecuteAlone, Take, Goto, Moved, Typed
    <2>2. LetGo(s)
        BY <1>1, <1>6 DEF ExecuteAlone, LetGo, Hold, Typed, recovery
    <2>3. cc_begin_transaction /\ Hold(s, last_transaction_id', FALSE)
        BY <1>6 DEF ExecuteAlone
    <2> QED
        BY <1>1, <2>1, <2>2, <2>3, TakeNewKeeps
<1>7. ASSUME NEW q \in Statements, ExecuteInside(s, q) PROVE Inv'
    <2>1. /\ Moved(s) /\ pc'[s] \in Calls
          /\ statement'[s] # NoStatement /\ todo'[s] # <<>>
        BY <1>1, <1>2, <1>3, <1>7 DEF ExecuteInside, Take, Goto, Moved, Typed
    <2>2. /\ UNCHANGED <<ccm, current_transaction_id, active_transactions_cache, orphans>>
          /\ Tid(s) # NoTid
        BY <1>7 DEF ExecuteInside, recovery
    <2>3. Kept
        BY <1>1, <2>2, IdleManagerKeeps
    <2>4. Typed' /\ Tid(s)' = Tid(s)
        BY <1>1, <2>1, <2>2 DEF Typed, Moved, Tid
    <2> HIDE DEF Tid, Unended, Accepted
    <2>5. StepOf(s)
        BY <2>1, <2>2, <2>3 DEF StepOf, Moved, Kept
    <2>6. Stage(s)'
        BY <1>1, <2>1, <2>2, <2>3, <2>4 DEF Stage, Kept, Calls
    <2> QED
        BY <2>2, <2>3, <2>4, <2>5, <2>6, StepKeeps DEF Kept
<1>8. CASE Disconnect(s)
    <2>1. /\ UNCHANGED <<ccm, pc, statement, todo, active_transactions_cache>>
          /\ Hold(s, NoTid, FALSE) /\ Tid(s) # NoTid /\ orphans' = orphans \cup {Tid(s)}
        BY <1>8 DEF Disconnect, recovery
    <2>2. Moved(s)
        BY <1>1, <2>1 DEF Moved, Typed
    <2>3. LetGo(s)
        BY <1>1, <2>1 DEF LetGo, Hold, Typed
    <2>4. Kept
        BY <1>1, <2>1, IdleManagerKeeps
    <2>5. Tid(s)' = NoTid /\ Typed'
        BY <1>1, <1>4, <2>1, <2>2, <2>3 DEF Typed, Hold, Tid
    <2>6. last_transaction_id' >= last_transaction_id
        BY <1>1, <2>4, MaxTransactionsAssumption DEF Kept, CCTyped
    <2> HIDE DEF Tid, Unended, Accepted, Tids, NoTid
    <2>7. Stage(s)'
        BY <1>1, <1>4, <2>1, <2>5 DEF Stage, Calls
    <2>8. \A t \in Tids : Tid(s)' = t => t = last_transaction_id' /\ t > last_transaction_id
        BY <1>4, <2>5
    <2>9. \A u \in Tids : /\ Unended(u)' <=> Unended(u) \/ Tid(s)' = u
                          /\ Accepted(u)' <=> Accepted(u) \/ Tid(s)' = u
        BY <1>4, <2>4, <2>5 DEF Kept
    <2> QED
        BY <1>1, <2>2, <2>3, <2>4, <2>5, <2>6, <2>7, <2>8, <2>9, LetGoKeeps DEF Kept
<1> QED
    BY <1>5, <1>6, <1>7, <1>8

(* The same for every step of the system.                                  *)
LEMMA InvNext == Inv /\ [Next]_vars => Inv'
<1> SUFFICES ASSUME Inv, [Next]_vars PROVE Inv'
    OBVIOUS
<1>1. CASE UNCHANGED vars
    <2>1. UNCHANGED <<ccm, current_transaction_id, pc, statement, todo,
                      active_transactions_cache, orphans>>
        BY <1>1 DEF vars, query_processor, recovery
    <2>2. Kept
        BY <2>1, IdleManagerKeeps DEF Inv
    <2>3. Typed' /\ \A s \in Sessions : Tid(s)' = Tid(s)
        BY <2>1 DEF Inv, Typed, Tid
    <2> HIDE DEF Tid, Unended, Accepted
    <2>4. ASSUME NEW s \in Sessions PROVE Stage(s)'
        <3>1. Stage(s)
            BY DEF Inv
        <3> QED
            BY <2>1, <2>2, <2>3, <3>1 DEF Stage, Kept
    <2>5. Owned'
        <3>1. Owned /\ orphans \subseteq Tids
            BY DEF Inv, Typed
        <3> QED
            BY <2>1, <2>2, <2>3, <3>1 DEF Owned, Kept
    <2> QED
        BY <2>2, <2>3, <2>4, <2>5 DEF Inv, Kept
<1>2. ASSUME NEW s \in Sessions, Step(s) PROVE Inv'
    BY <1>2, LogBeginKeepsInv, StatementCallsKeep, DeniedKeepsInv, EndFirstKeepsInv,
       LastCallsKeepInv DEF Step
<1>3. ASSUME NEW s \in Sessions, Request(s) PROVE Inv'
    BY <1>3, RequestsKeepInv, EndFirstKeepsInv DEF Request
<1> QED
    BY <1>1, <1>2, <1>3 DEF Next

LEMMA InvHolds == Spec => []Inv
BY InvInit, InvNext, PTL DEF Spec

-----------------------------------------------------------------------------

(* Whatever the clients send, and however the steps of the sessions        *)
(* interleave, the concurrency control and the recovery manager disagree   *)
(* about a transaction only between two calls of the session that holds it.*)
THEOREM ManagersAlwaysAgree == Spec => []ManagersAgree
<1>1. Inv => ManagersAgree
    <2> SUFFICES ASSUME Inv, NEW t \in Tids
                 PROVE  /\ Unended(t) /\ t \notin active_transactions_cache =>
                               \E s \in Sessions : Tid(s) = t /\
                                   pc[s] \in {"log_begin", "end_committed"}
                        /\ ~Unended(t) /\ t \in active_transactions_cache =>
                               \E s \in Sessions : Tid(s) = t /\
                                   pc[s] \in {"commit", "undo", "log_abort"}
        BY DEF ManagersAgree
    <2> HIDE DEF Unended, Tid
    <2> QED
        BY DEF Inv, Owned, Stage
<1> QED
    BY <1>1, InvHolds, PTL

(* No transaction is open without a session that can end it, except those  *)
(* a nested BEGIN or a disconnect has lost, and no session that waits for  *)
(* its client holds one the concurrency control has given up.              *)
THEOREM OpenTransactionsAreAlwaysHeld == Spec => []OpenTransactionsAreHeld
<1>1. Inv => OpenTransactionsAreHeld
    <2> SUFFICES ASSUME Inv PROVE OpenTransactionsAreHeld
        OBVIOUS
    <2>1. \A s \in Sessions : Tid(s) \in Tids \cup {NoTid}
        BY DEF Inv, Typed, Tid
    <2> HIDE DEF Unended, Tid, Accepted
    <2>2. \A s \in Sessions : Tid(s) # NoTid => Tid(s) \notin orphans
        BY <2>1 DEF Inv, Stage
    <2>3. \A s \in Sessions : pc[s] = "idle" /\ Tid(s) # NoTid => Accepted(Tid(s))
        BY <2>1 DEF Inv, Stage
    <2> QED
        BY <2>2, <2>3 DEF Inv, Owned, OpenTransactionsAreHeld
<1> QED
    BY <1>1, InvHolds, PTL

-----------------------------------------------------------------------------
(* Two-phase locking.                                                      *)

(* The invariant of the lock manager, and what a statement about to turn   *)
(* to a table holds.                                                       *)
Locked(s) ==
    pc[s] = "access" =>
        \A t \in Tids, r \in Tables : Tid(s) = t /\ Table(s) = r =>
            IF statement[s].kind = "SELECT" THEN Locking!HoldsLock(t, r)
                                            ELSE x_lock_table[r] = t

LockingInv ==
    current_algorithm_ = "twophaselocking" =>
        LP!TypeOK /\ LP!LockInvariant /\ \A s \in Sessions : Locked(s)

(* The lock manager the sessions call is the one of the proofs.            *)
LEMMA SameRelease ==
    ASSUME NEW t, NEW info
    PROVE  Locking!release_all_locks(t, info) <=> LP!release_all_locks(t, info)
BY Zenon DEF Locking!release_all_locks, LP!release_all_locks, Locking!HoldsLock, LP!HoldsLock,
   Locking!Without, LP!Without, Locking!Contains, LP!Contains, Locking!RemoveAt, LP!RemoveAt,
   Locking!NoTid, LP!NoTid, Locking!Tids, LP!Tids

LEMMA SameGuards ==
    ASSUME NEW t, NEW r, NEW a
    PROVE  /\ Locking!Active(t) <=> LP!Active(t)
           /\ Locking!QueuedBehindOther(t, r) <=> LP!QueuedBehindOther(t, r)
           /\ Locking!MayAcquire(t, r) <=> LP!MayAcquire(t, r)
           /\ Locking!AlreadyLocked(t, r, a) <=> LP!AlreadyLocked(t, r, a)
           /\ Locking!NeedsLock(t, r, a) <=> LP!NeedsLock(t, r, a)
           /\ Locking!Blockers(t, r, a) = LP!Blockers(t, r, a)
BY Zenon DEF Locking!Active, LP!Active, Locking!QueuedBehindOther, LP!QueuedBehindOther,
   Locking!MayAcquire, LP!MayAcquire, Locking!AlreadyLocked, LP!AlreadyLocked,
   Locking!NeedsLock, LP!NeedsLock, Locking!Blockers, LP!Blockers,
   Locking!get_transaction_status, LP!get_transaction_status, Locking!NoTid, LP!NoTid

LEMMA SameWaits ==
    ASSUME NEW t, NEW r, NEW a, NEW u
    PROVE  /\ Locking!FirstBlocker(t, r, a) = LP!FirstBlocker(t, r, a)
           /\ Locking!detect_deadlock(t, u) <=> LP!detect_deadlock(t, u)
           /\ Locking!AddEdge(wait_for_graph, t, u) = LP!AddEdge(wait_for_graph, t, u)
           /\ Locking!Enqueue(t, r) <=> LP!Enqueue(t, r)
<1>1. Locking!FirstBlocker(t, r, a) = LP!FirstBlocker(t, r, a)
    BY Zenon, SameGuards DEF Locking!FirstBlocker, LP!FirstBlocker, Locking!Min, LP!Min
<1>2. Locking!AddEdge(wait_for_graph, t, u) = LP!AddEdge(wait_for_graph, t, u)
    BY Zenon DEF Locking!AddEdge, LP!AddEdge
<1>3. Locking!detect_deadlock(t, u) <=> LP!detect_deadlock(t, u)
    BY Zenon, <1>2 DEF Locking!detect_deadlock, LP!detect_deadlock, Locking!check_cycle,
       LP!check_cycle, Locking!Tids, LP!Tids
<1>4. Locking!Enqueue(t, r) <=> LP!Enqueue(t, r)
    BY Zenon DEF Locking!Enqueue, LP!Enqueue, Locking!Queued, LP!Queued, Locking!Contains,
       LP!Contains
<1> QED
    BY <1>1, <1>2, <1>3, <1>4

LEMMA SameEnds ==
    ASSUME NEW t
    PROVE  /\ Locking!begin_transaction => LP!begin_transaction
           /\ Locking!end_transaction(t) => LP!end_transaction(t)
<1>1. Locking!begin_transaction => LP!begin_transaction
    BY Zenon DEF Locking!begin_transaction, LP!begin_transaction
<1>2. Locking!end_transaction(t) => LP!end_transaction(t)
    BY Zenon, SameRelease DEF Locking!end_transaction, LP!end_transaction,
       Locking!get_transaction_status, LP!get_transaction_status
<1> QED
    BY <1>1, <1>2

LEMMA SameAnswers ==
    ASSUME NEW t, NEW r, NEW a
    PROVE  /\ Locking!AllowLocked(t, r, a) => LP!AllowLocked(t, r, a)
           /\ Locking!GrantLock(t, r, a) => LP!GrantLock(t, r, a)
           /\ \/ Locking!RefuseInactive(t, r, a) \/ Locking!WaitInQueue(t, r)
              \/ Locking!AllowLocked(t, r, a) \/ Locking!WaitForHolder(t, r, a)
              \/ Locking!AbortRequester(t, r, a) \/ Locking!GrantLock(t, r, a)
              => LP!validate_object(t, r, a)
<1>1. Locking!RefuseInactive(t, r, a) => LP!RefuseInactive(t, r, a)
    BY Zenon, SameGuards DEF Locking!RefuseInactive, LP!RefuseInactive, Locking!vars, LP!vars
<1>2. Locking!WaitInQueue(t, r) => LP!WaitInQueue(t, r)
    BY Zenon, SameGuards, SameWaits DEF Locking!WaitInQueue, LP!WaitInQueue
<1>3. Locking!AllowLocked(t, r, a) => LP!AllowLocked(t, r, a)
    BY Zenon, SameGuards DEF Locking!AllowLocked, LP!AllowLocked, Locking!vars, LP!vars
<1>4. Locking!WaitForHolder(t, r, a) => LP!WaitForHolder(t, r, a)
    BY Zenon, SameGuards, SameWaits DEF Locking!WaitForHolder, LP!WaitForHolder
<1>5. Locking!AbortRequester(t, r, a) => LP!AbortRequester(t, r, a)
    BY Zenon, SameGuards, SameWaits, SameRelease DEF Locking!AbortRequester,
       LP!AbortRequester, Locking!MustAbort, LP!MustAbort, Locking!abort_transaction,
       LP!abort_transaction
<1>6. Locking!GrantLock(t, r, a) => LP!GrantLock(t, r, a)
    BY Zenon, SameGuards DEF Locking!GrantLock, LP!GrantLock
<1> QED
    BY <1>1, <1>2, <1>3, <1>4, <1>5, <1>6 DEF LP!validate_object

(* What a step of session s is for the lock manager.                       *)
ManagerStep(s) ==
    \/ UNCHANGED <<last_transaction_id, locking>>
    \/ LP!begin_transaction
    \/ LP!end_transaction(Tid(s))
    \/ \E r \in Tables, a \in LP!Actions : LP!validate_object(Tid(s), r, a)

LEMMA ManagerSteps ==
    ASSUME Inv, NEW s \in Sessions, Step(s) \/ Request(s),
           current_algorithm_' = "twophaselocking"
    PROVE  ManagerStep(s) /\ current_algorithm_ = "twophaselocking"
<1>1. CASE UNCHANGED ccm
    BY <1>1 DEF ManagerStep, ccm
<1>2. CASE cc_begin_transaction
    BY <1>2, SameEnds DEF cc_begin_transaction, IsLocking, IsOrdering, ManagerStep
<1>3. CASE cc_end_transaction(Tid(s))
    BY <1>3, SameEnds DEF cc_end_transaction, IsLocking, IsOrdering, ManagerStep
<1>4. CASE pc[s] = "log_object" /\ log_object(Tid(s), Table(s))
    BY <1>4 DEF log_object, IsLocking, IsOrdering, ManagerStep
<1>5. CASE pc[s] = "validate" /\ (Allowed(Tid(s), Table(s), Action(s))
                                  \/ Denied(Tid(s), Table(s), Action(s)))
    <2>1. Table(s) \in Tables
        BY <1>5 DEF Inv, Typed, Stage, Table, Calls
    <2>2. Action(s) \in LP!Actions
        BY DEF Action, LP!Actions
    <2> HIDE DEF Tid, Table, Action
    <2>3. LP!validate_object(Tid(s), Table(s), Action(s)) /\ current_algorithm_ = "twophaselocking"
        BY <1>5, SameAnswers DEF Allowed, Denied, IsLocking, IsOrdering
    <2> QED
        BY <2>1, <2>2, <2>3 DEF ManagerStep
<1>6. \/ UNCHANGED ccm
      \/ cc_begin_transaction
      \/ cc_end_transaction(Tid(s))
      \/ pc[s] = "log_object" /\ log_object(Tid(s), Table(s))
      \/ pc[s] = "validate" /\ (Allowed(Tid(s), Table(s), Action(s))
                                \/ Denied(Tid(s), Table(s), Action(s)))
    <2> HIDE DEF ccm, Tid, Table, Action
    <2> QED
        BY DEF Step, Request, Begin, ExecuteAlone, ExecuteInside, Commit, Rollback, Disconnect,
           LogBegin, get_table_schema, prepare_ddl_operation, LogObject, AccessAllowed,
           AccessDenied, Read, ChangeTable, LogChange, CommitLog, EndCommitted, EndAborted,
           Undo, LogAbort
<1> QED
    BY <1>1, <1>2, <1>3, <1>4, <1>5, <1>6

(* A step of one session leaves the others where they are, and only a      *)
(* granted access takes it to a table.                                     *)
LEMMA OneMoves ==
    ASSUME Inv, NEW s \in Sessions, Step(s) \/ Request(s)
    PROVE  /\ \A z \in Sessions \ {s} :
                UNCHANGED <<current_transaction_id[z], pc[z], statement[z], todo[z]>>
           /\ pc'[s] = "access" => AccessAllowed(s)
<1>1. Typed
    BY DEF Inv
<1>2. \A q \in Statements : FirstCall(q) # "access"
    BY FirstCallIsCall
<1> USE DEF Typed, Goto, Hold, Answered, Take, Finish
<1>3. ASSUME NEW q \in Statements, ExecuteAlone(s, q) \/ ExecuteInside(s, q)
      PROVE  /\ \A z \in Sessions \ {s} :
                  UNCHANGED <<current_transaction_id[z], pc[z], statement[z], todo[z]>>
             /\ pc'[s] # "access"
    BY <1>1, <1>2, <1>3 DEF ExecuteAlone, ExecuteInside
<1>4. CASE Begin(s) \/ Commit(s) \/ Rollback(s) \/ Disconnect(s)
    BY <1>1, <1>4 DEF Begin, Commit, Rollback, Disconnect
<1>5. CASE LogBegin(s)
    BY <1>1, <1>2, <1>5 DEF LogBegin
<1>6. CASE get_table_schema(s) \/ prepare_ddl_operation(s) \/ LogObject(s) \/ AccessAllowed(s)
           \/ AccessDenied(s)
    BY <1>1, <1>6 DEF get_table_schema, prepare_ddl_operation, LogObject, AccessAllowed,
                      AccessDenied
<1>7. CASE Read(s) \/ LogChange(s)
    BY <1>1, <1>7 DEF Read, LogChange
<1>8. CASE ChangeTable(s)
    BY <1>1, <1>8 DEF ChangeTable, InsertRow, CreateTable, DropTable, Change
<1>9. CASE CommitLog(s) \/ EndCommitted(s) \/ EndAborted(s) \/ Undo(s) \/ LogAbort(s)
    BY <1>1, <1>9 DEF CommitLog, EndCommitted, EndAborted, Undo, LogAbort
<1> QED
    BY <1>3, <1>4, <1>5, <1>6, <1>7, <1>8, <1>9 DEF Step, Request

LEMMA LockingInvStep ==
    ASSUME Inv, LockingInv, NEW s \in Sessions, Step(s) \/ Request(s),
           current_algorithm_' = "twophaselocking"
    PROVE  /\ LP!TypeOK' /\ LP!LockInvariant'
           /\ \A z \in Sessions : Locked(z)'
<1>1. ManagerStep(s) /\ LP!TypeOK /\ LP!LockInvariant /\ \A z \in Sessions : Locked(z)
    BY ManagerSteps DEF LockingInv
<1>2. /\ Typed /\ Owned /\ Stage(s)
      /\ \A z \in Sessions \ {s} :
            UNCHANGED <<current_transaction_id[z], pc[z], statement[z], todo[z]>>
    BY OneMoves DEF Inv
<1>3. Tid(s) \in Tids \cup {NoTid} /\ NoTid \notin Tids /\ LP!Tids = Tids
    BY <1>2 DEF Typed, Tid, NoTid, Tids, LP!Tids
<1>4. Tid(s) \in Tids \/ LP!begin_transaction \/ UNCHANGED <<last_transaction_id, locking>>
    <2>1. Tid(s) = NoTid => Begin(s) \/ \E q \in Statements : ExecuteAlone(s, q)
        BY <1>2 DEF Stage, Step, Request, LogBegin, get_table_schema, prepare_ddl_operation,
           LogObject, AccessAllowed, AccessDenied, Read, ChangeTable, LogChange, CommitLog,
           EndCommitted, EndAborted, Undo, LogAbort, Commit, Rollback, Disconnect, ExecuteInside
    <2>2. cc_begin_transaction => LP!begin_transaction
        BY SameEnds, ManagerSteps DEF cc_begin_transaction, IsLocking, IsOrdering
    <2> QED
        BY <1>3, <2>1, <2>2 DEF Begin, ExecuteAlone
<1>5. LP!Next \/ UNCHANGED LP!vars
    BY <1>1, <1>3, <1>4 DEF ManagerStep, LP!Next, LP!vars, locking
<1>6. LP!TypeOK' /\ LP!LockInvariant'
    BY <1>1, <1>5, LP!TypeInductive, LP!LockInvariantInductive, MaxTransactionsAssumption
<1>7. ASSUME NEW z \in Sessions \ {s}, NEW t \in Tids, NEW r \in Tables,
             Tid(z) = t, pc[z] = "access", Table(z) = r
      PROVE  /\ Locking!HoldsLock(t, r) => Locking!HoldsLock(t, r)'
             /\ x_lock_table[r] = t => x_lock_table'[r] = t
    <2>1. t # Tid(s)
        BY <1>2, <1>3, <1>7 DEF Owned
    <2>2. CASE UNCHANGED <<x_lock_table, s_lock_table>>
        BY <2>2 DEF Locking!HoldsLock
    <2>3. CASE ~UNCHANGED <<x_lock_table, s_lock_table>>
        <3>1. Tid(s) \in Tids
            BY <1>4, <2>3 DEF LP!begin_transaction, locking
        <3>2. /\ LP!HoldsLock(t, r) => LP!HoldsLock(t, r)'
              /\ x_lock_table[r] = t => x_lock_table'[r] = t
            <4> HIDE DEF Tid
            <4> QED
                BY <1>1, <1>3, <2>1, <2>3, <3>1, LP!OthersKeepLocks, MaxTransactionsAssumption
                DEF ManagerStep, locking
        <3> QED
            BY <3>2 DEF LP!HoldsLock, Locking!HoldsLock
    <2> QED
        BY <2>2, <2>3
<1>8. ASSUME NEW z \in Sessions \ {s} PROVE Locked(z)'
    <2>1. Tid(z)' = Tid(z) /\ pc'[z] = pc[z] /\ statement'[z] = statement[z]
          /\ Table(z)' = Table(z)
        BY <1>2 DEF Tid, Table
    <2>2. Locked(z)
        BY <1>1
    <2> SUFFICES ASSUME pc'[z] = "access", NEW t \in Tids, NEW r \in Tables,
                        Tid(z)' = t, Table(z)' = r
                 PROVE  IF statement'[z].kind = "SELECT" THEN Locking!HoldsLock(t, r)'
                                                         ELSE x_lock_table'[r] = t
        BY DEF Locked
    <2> HIDE DEF Tid, Table
    <2>3. IF statement[z].kind = "SELECT" THEN Locking!HoldsLock(t, r)
                                          ELSE x_lock_table[r] = t
        BY <2>1, <2>2 DEF Locked
    <2> QED
        BY <1>7, <2>1, <2>3
<1>9. Locked(s)'
    <2> SUFFICES ASSUME pc'[s] = "access" PROVE Locked(s)'
        BY DEF Locked
    <2>1. /\ AccessAllowed(s)
          /\ Tid(s)' = Tid(s) /\ Table(s)' = Table(s) /\ statement' = statement
          /\ Tid(s) \in Tids /\ Table(s) \in Tables
          /\ Action(s) = IF statement[s].kind = "SELECT" THEN "READ" ELSE "WRITE"
        BY <1>2, <1>3, OneMoves DEF AccessAllowed, Tid, Table, Stage, Typed, Calls, Action
    <2> DEFINE t == Tid(s)  r == Table(s)  a == Action(s)
    <2> HIDE DEF Tid, Table, Action
    <2>2. LP!AllowLocked(t, r, a) \/ LP!GrantLock(t, r, a)
        BY <2>1, SameAnswers, ManagerSteps DEF AccessAllowed, Allowed, IsLocking, IsOrdering
    <2>3. a \in LP!Actions
        BY <2>1 DEF LP!Actions
    <2>4. CASE LP!AllowLocked(t, r, a)
        BY <1>1, <1>3, <2>1, <2>4 DEF Locked, LP!AllowLocked, LP!AlreadyLocked, LP!vars,
           LP!LockInvariant, LP!LockedRecordsAgree, LP!HoldsLock, Locking!HoldsLock
    <2>5. CASE LP!GrantLock(t, r, a)
        BY <1>1, <1>3, <2>1, <2>5 DEF Locked, LP!GrantLock, LP!TypeOK, Locking!HoldsLock
    <2> QED
        BY <2>2, <2>4, <2>5
<1> QED
    BY <1>6, <1>8, <1>9

(* Under two-phase locking, with clients that send what they like, nobody  *)
(* works on a table while another session changes it.                      *)
THEOREM StatementsAlwaysExclude == Spec => []StatementsExclude
<1>1. Init => LockingInv
    <2> SUFFICES ASSUME Init PROVE LockingInv
        OBVIOUS
    <2>1. LP!TypeOK /\ LP!LockInvariant
        BY MaxTransactionsAssumption
        DEF Init, switch_algorithm, Locking!Init, LP!TypeOK, LP!LockInvariant,
            LP!TransactionInfo2PL, LP!TransactionStatus, LP!TransactionPhase, LP!NoTid, LP!Tids,
            Locking!NoTid, Locking!Tids, LP!LockExclusion, LP!LockedRecordsAgree,
            LP!HoldsLock, LP!FreshIds, LP!get_transaction_status, LP!Active
    <2> QED
        BY <2>1 DEF Init, LockingInv, Locked
<1>2. Inv /\ LockingInv /\ [Next]_vars => LockingInv'
    <2> SUFFICES ASSUME Inv, LockingInv, [Next]_vars,
                        current_algorithm_' = "twophaselocking"
                 PROVE  /\ LP!TypeOK' /\ LP!LockInvariant'
                        /\ \A z \in Sessions : Locked(z)'
        BY DEF LockingInv
    <2>1. CASE UNCHANGED vars
        <3>1. UNCHANGED <<ccm, pc, statement, current_transaction_id, todo>>
            BY <2>1 DEF vars, query_processor
        <3>2. LP!TypeOK /\ LP!LockInvariant /\ \A z \in Sessions : Locked(z)
            BY <3>1 DEF LockingInv, ccm
        <3>3. LP!TypeOK' /\ LP!LockInvariant'
            BY <3>1, <3>2, LP!TypeInductive, LP!LockInvariantInductive,
               MaxTransactionsAssumption DEF LP!vars, ccm, locking
        <3>4. \A z \in Sessions : Locked(z)'
            BY <3>1, <3>2 DEF Locked, Tid, Table, Locking!HoldsLock, ccm, locking
        <3> QED
            BY <3>3, <3>4
    <2>2. CASE Next
        BY <2>2, LockingInvStep DEF Next
    <2> QED
        BY <2>1, <2>2
<1>3. Inv /\ LockingInv => StatementsExclude
    <2> SUFFICES ASSUME Inv, LockingInv, current_algorithm_ = "twophaselocking",
                        NEW s \in Sessions, NEW z \in Sessions,
                        pc[s] = "access", pc[z] = "access", Table(s) = Table(z),
                        statement[s].kind # "SELECT"
                 PROVE  s = z
        BY DEF StatementsExclude
    <2> DEFINE r == Table(s)
    <2>1. /\ Tid(s) \in Tids /\ Tid(z) \in Tids /\ r \in Tables
          /\ Tid(s) = Tid(z) => s = z
        BY DEF Inv, Typed, Stage, Owned, Calls, Tid, Table
    <2>2. Locked(s) /\ Locked(z) /\ LP!TypeOK /\ LP!LockInvariant
        BY DEF LockingInv
    <2> HIDE DEF Tid, Table
    <2>3. x_lock_table[r] = Tid(s)
        BY <2>1, <2>2 DEF Locked
    <2>4. s_lock_table[r] = {}
        BY <2>1, <2>2, <2>3, MaxTransactionsAssumption
        DEF LP!LockInvariant, LP!LockExclusion, LP!NoTid, Tids
    <2>5. x_lock_table[r] = Tid(z)
        BY <2>1, <2>2, <2>4 DEF Locked, Locking!HoldsLock
    <2> QED
        BY <2>1, <2>3, <2>5
<1> QED
    BY <1>1, <1>2, <1>3, InvHolds, PTL DEF Spec

-----------------------------------------------------------------------------
(* Rows and records: what the rollback of a transaction takes away.        *)

Changes == {"SELECT", "INSERT", "CREATE", "DROP"}

LogRecords ==
    [operation : {"BEGIN", "COMMIT", "ABORT"}, table_name : {"none"}, has_schema : {FALSE}]
    \cup [operation : Changes, table_name : Tables, has_schema : BOOLEAN]

(* One more record is an element more.                                     *)
LEMMA OneMoreElement ==
    ASSUME NEW q \in Seq(LogRecords), NEW e \in LogRecords
    PROVE  /\ Append(q, e) \in Seq(LogRecords)
           /\ ToSet(Append(q, e)) = ToSet(q) \cup {e}
<1>1. Append(q, e) \in Seq(LogRecords)
    OBVIOUS
<1>2. DOMAIN Append(q, e) = DOMAIN q \cup {Len(q) + 1} /\ DOMAIN q = 1..Len(q)
    OBVIOUS
<1>3. /\ Append(q, e)[Len(q) + 1] = e
      /\ \A n \in DOMAIN q : Append(q, e)[n] = q[n]
    OBVIOUS
<1> QED
    BY <1>1, <1>2, <1>3 DEF ToSet

(* A record that joins the buffer is the last of its transaction.          *)
LEMMA JoinAppend ==
    ASSUME NEW p \in Seq(LogRecords), NEW q \in Seq(LogRecords), NEW e \in LogRecords
    PROVE  /\ p \o q \in Seq(LogRecords)
           /\ p \o Append(q, e) = Append(p \o q, e)
           /\ p \o <<>> = p
OBVIOUS

States == [tables : SUBSET Tables, rows : [Tables -> SUBSET Tids]]

(* No undo of a record gives a table a row, and that of an INSERT takes    *)
(* the row of the transaction away.                                        *)
LEMMA UndoOperationIs ==
    ASSUME NEW e \in LogRecords, NEW t, NEW x \in States
    PROVE  /\ UndoOperation(t, e, x) \in States
           /\ \A r \in Tables : UndoOperation(t, e, x).rows[r] \subseteq x.rows[r]
           /\ e.operation = "INSERT" =>
                e.table_name \in Tables /\ t \notin UndoOperation(t, e, x).rows[e.table_name]
<1> DEFINE y == UndoOperation(t, e, x)
<1>1. /\ x = [tables |-> x.tables, rows |-> x.rows]
      /\ x.tables \in SUBSET Tables /\ x.rows \in [Tables -> SUBSET Tids]
    BY DEF States
<1>2. e.operation \in Changes => e.table_name \in Tables
    BY DEF LogRecords, Changes
<1>3. CASE e.operation = "INSERT"
    <2>1. e.table_name \in Tables
        BY <1>2, <1>3 DEF Changes
    <2>2. y = [x EXCEPT !.rows[e.table_name] = @ \ {t}]
        BY <1>3 DEF UndoOperation
    <2>3. y = [tables |-> x.tables, rows |-> [x.rows EXCEPT ![e.table_name] = @ \ {t}]]
        BY <1>1, <2>2
    <2> HIDE DEF y
    <2>4. /\ y.tables = x.tables
          /\ y.rows = [x.rows EXCEPT ![e.table_name] = x.rows[e.table_name] \ {t}]
        BY <2>3
    <2>5. y \in States
        BY <1>1, <2>1, <2>3 DEF States
    <2>6. (\A r \in Tables : y.rows[r] \subseteq x.rows[r]) /\ t \notin y.rows[e.table_name]
        BY <1>1, <2>1, <2>4
    <2> QED
        BY <2>1, <2>5, <2>6 DEF y
<1>4. CASE e.operation = "CREATE"
    <2>1. e.table_name \in Tables
        BY <1>2, <1>4 DEF Changes
    <2>2. y = [tables |-> x.tables \ {e.table_name}, rows |-> [x.rows EXCEPT ![e.table_name] = {}]]
        BY <1>4 DEF UndoOperation, NoTable
    <2> QED
        BY <1>1, <1>4, <2>1, <2>2 DEF States
<1>5. CASE e.operation = "DROP" /\ e.has_schema
    <2>1. e.table_name \in Tables
        BY <1>2, <1>5 DEF Changes
    <2>2. y = [x EXCEPT !.tables = @ \cup {e.table_name}]
        BY <1>5 DEF UndoOperation
    <2>3. y = [tables |-> x.tables \cup {e.table_name}, rows |-> x.rows]
        BY <1>1, <2>2
    <2> QED
        BY <1>1, <1>5, <2>1, <2>3 DEF States
<1>6. CASE e.operation \notin {"INSERT", "CREATE"} /\ ~(e.operation = "DROP" /\ e.has_schema)
    <2>1. y = x
        BY <1>6 DEF UndoOperation
    <2> QED
        BY <1>6, <2>1
<1> QED
    BY <1>3, <1>4, <1>5, <1>6

(* The rollback of the records of a transaction, from the last to the      *)
(* first.                                                                  *)
UndoneRecords(t, s, b) == FoldRight(LAMBDA e, state : UndoOperation(t, e, state), s, b)

UndoStep(t) == [e \in LogRecords |-> [x \in States |-> UndoOperation(t, e, x)]]

(* It is a fold whose steps map what is stored to what is stored.          *)
LEMMA UndoneIsAFold ==
    ASSUME NEW s \in Seq(LogRecords), NEW b \in States, NEW t
    PROVE  /\ Moves(States, LogRecords, UndoStep(t))
           /\ UndoneRecords(t, s, b) = RightFold(UndoStep(t), s, b)
<1> DEFINE step == UndoStep(t)
           N == Len(s)
           Fits(f) == f = [i \in SUBSET (DOMAIN s) |->
                              IF i = {} THEN b
                              ELSE UndoOperation(t, s[Min(i)], f[i \ {Min(i)}])]
           c == CHOOSE f : Fits(f)
<1>1. /\ Moves(States, LogRecords, step)
      /\ \A e \in LogRecords, x \in States : step[e][x] = UndoOperation(t, e, x)
    <2>1. \A e \in LogRecords, x \in States : UndoOperation(t, e, x) \in States
        BY UndoOperationIs
    <2> QED
        BY <2>1 DEF Moves, UndoStep
<1> HIDE DEF step
<1>2. N \in Nat /\ DOMAIN s = 1..N /\ \A n \in 1..N : s[n] \in LogRecords
    OBVIOUS
<1>3. UndoneRecords(t, s, b) = c[DOMAIN s]
    BY DEF UndoneRecords, FoldRight, MapThenFoldSet
<1> HIDE DEF N
<1>4. \E f : Fits(f)
    <2>1. PICK f : RightValues(States, LogRecords, step, b, s, f)
        BY <1>1, RightFoldHas
    <2>2. Fits(f)
        BY <1>1, <1>2, <2>1 DEF RightValues, N
    <2> QED
        BY <2>2
<1>5. c = [i \in SUBSET (1..N) |->
              IF i = {} THEN b ELSE UndoOperation(t, s[Min(i)], c[i \ {Min(i)}])]
    <2> HIDE DEF Fits
    <2>1. Fits(c)
        BY <1>4
    <2> QED
        BY <1>2, <2>1 DEF Fits
<1> HIDE DEF c
<1>6. c[{}] = b
    BY <1>5
<1>7. ASSUME NEW n \in 1..N, c[(n + 1)..N] \in States
      PROVE  c[n..N] = step[s[n]][c[(n + 1)..N]]
    <2>1. n..N \in SUBSET (1..N) /\ s[n] \in LogRecords
        BY <1>2
    <2>2. Min(n..N) = n /\ (n..N) \ {n} = (n + 1)..N /\ n..N # {}
        BY <1>2, FinalPart
    <2>3. c[n..N] = UndoOperation(t, s[n], c[(n + 1)..N])
        BY <1>5, <2>1, <2>2
    <2> QED
        BY <1>1, <1>7, <2>1, <2>3
<1>8. c[DOMAIN s] = RightFold(step, s, b)
    BY <1>1, <1>6, <1>7, RightFoldFrom DEF N
<1> QED
    BY <1>1, <1>3, <1>8 DEF step

(* Whatever the order of its records, what a transaction inserted by one   *)
(* of them is gone, and no row came.                                       *)
LEMMA UndoneTakesRows ==
    ASSUME NEW t, NEW s \in Seq(LogRecords), NEW b \in States
    PROVE  /\ UndoneRecords(t, s, b) \in States
           /\ \A r \in Tables : UndoneRecords(t, s, b).rows[r] \subseteq b.rows[r]
           /\ \A e \in ToSet(s) : e.operation = "INSERT" =>
                t \notin UndoneRecords(t, s, b).rows[e.table_name]
<1> DEFINE step == UndoStep(t)
           F == [q \in Seq(LogRecords) |-> [x \in States |-> RightFold(step, q, x)]]
           Takes(q) ==
               \A x \in States :
                  /\ F[q][x] \in States
                  /\ \A r \in Tables : F[q][x].rows[r] \subseteq x.rows[r]
                  /\ \A e \in ToSet(q) : e.operation = "INSERT" =>
                        t \notin F[q][x].rows[e.table_name]
           S == {q \in Seq(LogRecords) : Takes(q)}
<1>1. Moves(States, LogRecords, step)
    BY UndoneIsAFold
<1>2. \A e \in LogRecords, x \in States : step[e][x] = UndoOperation(t, e, x)
    BY DEF UndoStep
<1> HIDE DEF step
<1>3. \A q \in Seq(LogRecords), x \in States : F[q][x] = RightFold(step, q, x)
    OBVIOUS
<1>4. /\ <<>> \in Seq(LogRecords)
      /\ \A q \in Seq(LogRecords), e \in LogRecords : Append(q, e) \in Seq(LogRecords)
    OBVIOUS
<1> HIDE DEF F
<1>5. \A x \in States : F[<<>>][x] = x
    <2> TAKE x \in States
    <2>1. RightFold(step, <<>>, x) = x
        BY <1>1, <1>4, RightFoldLaws
    <2> QED
        BY <1>3, <1>4, <2>1, Zenon
<1>6. \A q \in Seq(LogRecords), x \in States : F[q][x] \in States
    BY <1>1, <1>3, RightFoldLaws
<1>7. ASSUME NEW q \in Seq(LogRecords), NEW e \in LogRecords,
              NEW x \in States, NEW y \in States, y = step[e][x]
       PROVE  F[Append(q, e)][x] = F[q][y]
    <2>1. RightFold(step, Append(q, e), x) = RightFold(step, q, step[e][x])
        BY <1>1, RightFoldLaws
    <2>2. RightFold(step, Append(q, e), x) = RightFold(step, q, y)
        BY <1>7, <2>1, Zenon
    <2>3. F[Append(q, e)][x] = RightFold(step, Append(q, e), x)
        BY <1>3, <1>4
    <2>4. F[q][y] = RightFold(step, q, y)
        BY <1>3
    <2> QED
        BY <2>2, <2>3, <2>4, Zenon
<1>8. <<>> \in S
    <2>1. <<>> \in Seq(LogRecords) /\ ToSet(<<>>) = {}
        BY DEF ToSet
    <2>2. Takes(<<>>)
        BY <1>5, <2>1
    <2> QED
        BY <2>1, <2>2
<1>9. ASSUME NEW q \in S, NEW e \in LogRecords PROVE Append(q, e) \in S
    <2>1. q \in Seq(LogRecords) /\ Takes(q) /\ Append(q, e) \in Seq(LogRecords)
        OBVIOUS
    <2>2. ToSet(Append(q, e)) = ToSet(q) \cup {e}
        BY <2>1, OneMoreElement
    <2>3. Takes(Append(q, e))
        <3> SUFFICES ASSUME NEW x \in States
                     PROVE  /\ F[Append(q, e)][x] \in States
                            /\ \A r \in Tables : F[Append(q, e)][x].rows[r] \subseteq x.rows[r]
                            /\ \A f \in ToSet(Append(q, e)) : f.operation = "INSERT" =>
                                    t \notin F[Append(q, e)][x].rows[f.table_name]
            OBVIOUS
        <3>1. PICK y \in States :
              /\ y = step[e][x]
              /\ \A r \in Tables : y.rows[r] \subseteq x.rows[r]
              /\ e.operation = "INSERT" =>
                    e.table_name \in Tables /\ t \notin y.rows[e.table_name]
            <4>1. step[e][x] = UndoOperation(t, e, x)
                BY <1>2
            <4> QED
                BY <4>1, UndoOperationIs
        <3>2. F[Append(q, e)][x] = F[q][y]
            BY <1>7, <2>1, <3>1
        <3>3. /\ F[q][y] \in States
              /\ \A r \in Tables : F[q][y].rows[r] \subseteq y.rows[r]
              /\ \A f \in ToSet(q) : f.operation = "INSERT" =>
                    t \notin F[q][y].rows[f.table_name]
            BY <2>1, <3>1
        <3>4. ASSUME NEW r \in Tables PROVE F[q][y].rows[r] \subseteq x.rows[r]
            <4>1. F[q][y].rows[r] \subseteq y.rows[r] /\ y.rows[r] \subseteq x.rows[r]
                BY <3>1, <3>3
            <4> QED
                BY <4>1
        <3>5. e.operation = "INSERT" => t \notin F[q][y].rows[e.table_name]
            BY <3>1, <3>3
        <3> QED
            BY <2>2, <3>2, <3>3, <3>4, <3>5
    <2> QED
        BY <2>1, <2>3
<1>10. s \in S
    <2> HIDE DEF S
    <2>1. \A q \in S : \A e \in LogRecords : Append(q, e) \in S
        BY <1>9
    <2>2. S \in SUBSET Seq(LogRecords)
        BY DEF S
    <2> QED
        BY <1>8, <2>1, <2>2, SequenceInduct
<1>11. Takes(s)
    BY <1>10
<1>12. UndoneRecords(t, s, b) = F[s][b]
    BY <1>3, UndoneIsAFold DEF step
<1> QED
    BY <1>11, <1>12

-----------------------------------------------------------------------------
(* The records.                                                            *)

LogsTyped ==
    /\ log_buffer \in [Tids -> Seq(LogRecords)]
    /\ wal \in [Tids -> Seq(LogRecords)]

(* What Typed leaves out of the types.                                     *)
RestTyped ==
    /\ explicit_transaction_started \in [Sessions -> BOOLEAN]
    /\ LogsTyped
    /\ pending_drop_schemas_ \subseteq Tables
    /\ tables \subseteq Tables
    /\ rows \in [Tables -> SUBSET Tids]

Records(t) == ToSet(Entries(t))

(* Only the records of t change, and by e alone.                           *)
Added(t, e) ==
    /\ LogsTyped'
    /\ \A u \in Tids :
        Records(u)' = IF u = t THEN Records(u) \cup {e} ELSE Records(u)

(* Both ways to write a record add it.                                     *)
LEMMA WriteAdds ==
    ASSUME LogsTyped, NEW t \in Tids, NEW e \in LogRecords, write_log(t, e)
    PROVE  Added(t, e)
<1>1. /\ log_buffer' = [log_buffer EXCEPT ![t] = Append(log_buffer[t], e)]
      /\ wal' = wal
    BY DEF write_log
<1>2. \A u \in Tids : log_buffer[u] \in Seq(LogRecords) /\ wal[u] \in Seq(LogRecords)
    BY DEF LogsTyped
<1>3. Append(log_buffer[t], e) \in Seq(LogRecords)
    BY <1>2
<1>4. LogsTyped'
    BY <1>1, <1>3 DEF LogsTyped
<1>5. ASSUME NEW u \in Tids
      PROVE  Records(u)' = IF u = t THEN Records(u) \cup {e} ELSE Records(u)
    <2>1. CASE u = t
        <3>1. Entries(u)' = wal[t] \o Append(log_buffer[t], e)
            BY <1>1, <2>1 DEF Entries, LogsTyped
        <3>2. /\ wal[t] \o log_buffer[t] \in Seq(LogRecords)
              /\ wal[t] \o Append(log_buffer[t], e) = Append(wal[t] \o log_buffer[t], e)
            <4>1. PICK p \in Seq(LogRecords) : p = wal[t]
                BY <1>2
            <4>2. PICK q \in Seq(LogRecords) : q = log_buffer[t]
                BY <1>2
            <4>3. p \o q \in Seq(LogRecords) /\ p \o Append(q, e) = Append(p \o q, e)
                BY JoinAppend
            <4> QED
                BY <4>1, <4>2, <4>3, Zenon
        <3>3. Entries(u)' = Append(Entries(t), e) /\ Entries(t) \in Seq(LogRecords)
            BY <3>1, <3>2 DEF Entries
        <3>4. ToSet(Append(Entries(t), e)) = ToSet(Entries(t)) \cup {e}
            BY <3>3, OneMoreElement
        <3> HIDE DEF Entries
        <3> QED
            BY <2>1, <3>3, <3>4 DEF Records
    <2>2. CASE u # t
        <3>1. Entries(u)' = Entries(u)
            BY <1>1, <2>2 DEF Entries, LogsTyped
        <3> QED
            BY <2>2, <3>1 DEF Records
    <2> QED
        BY <2>1, <2>2
<1> QED
    BY <1>4, <1>5 DEF Added

(* The last record of a transaction is added, and what was buffered stays a*)
(* record of its own transaction.                                          *)
LEMMA WriteLastAdds ==
    ASSUME LogsTyped, NEW t \in Tids, NEW op, Mark(op) \in LogRecords, WriteLast(t, op)
    PROVE  Added(t, Mark(op))
<1>1. /\ wal' = [u \in Tids |-> IF u = t THEN Append(Entries(t), Mark(op)) ELSE Entries(u)]
      /\ log_buffer' = [u \in Tids |-> <<>>]
    BY DEF WriteLast
<1>2. \A u \in Tids : Entries(u) \in Seq(LogRecords)
    BY JoinAppend DEF LogsTyped, Entries
<1>3. Append(Entries(t), Mark(op)) \in Seq(LogRecords)
      /\ ToSet(Append(Entries(t), Mark(op))) = ToSet(Entries(t)) \cup {Mark(op)}
    BY <1>2, OneMoreElement
<1>4. <<>> \in Seq(LogRecords)
    OBVIOUS
<1> DEFINE new(u) == IF u = t THEN Append(Entries(t), Mark(op)) ELSE Entries(u)
<1>5. \A u \in Tids : new(u) \in Seq(LogRecords)
    BY <1>2, <1>3
<1>6. LogsTyped'
    BY <1>1, <1>4, <1>5 DEF LogsTyped
<1>7. ASSUME NEW u \in Tids
      PROVE  Records(u)' = IF u = t THEN Records(u) \cup {Mark(op)} ELSE Records(u)
    <2>1. Entries(u)' = new(u) \o <<>>
        BY <1>1 DEF Entries
    <2>2. Entries(u)' = new(u)
        BY <1>3, <1>5, <2>1, JoinAppend
    <2> HIDE DEF Entries
    <2> QED
        BY <1>3, <2>2 DEF Records
<1> QED
    BY <1>6, <1>7 DEF Added

-----------------------------------------------------------------------------
(* What a step of session s writes to the log: at most one record, of its  *)
(* own transaction.                                                        *)
Recorded(s) ==
    /\ LogsTyped'
    /\ \A u \in Tids : Records(u) \subseteq Records(u)'
    /\ \A u \in Tids : Mark("ABORT") \in Records(u)' =>
            Mark("ABORT") \in Records(u) \/ (u = Tid(s) /\ LogAbort(s))
    /\ pc[s] = "log_change" /\ statement[s].kind = "INSERT" =>
            \A u \in Tids : u = Tid(s) => Entry("INSERT", Table(s), FALSE) \in Records(u)'

(* Without a record written none is lost.                                  *)
LEMMA UnwrittenKeeps ==
    ASSUME LogsTyped, UNCHANGED <<log_buffer, wal>>
    PROVE  LogsTyped' /\ \A u \in Tids : Records(u)' = Records(u)
BY DEF LogsTyped, Records, Entries

(* Every step of a session is of that kind.                                *)
LEMMA LogSteps ==
    ASSUME Inv, LogsTyped, NEW s \in Sessions, Step(s) \/ Request(s)
    PROVE  Recorded(s)
<1>1. Typed /\ Stage(s)
    BY DEF Inv
<1>2. pc[s] # "idle" => Tid(s) \in Tids
    BY <1>1 DEF Typed, Stage, Tid
<1>3. \/ UNCHANGED <<log_buffer, wal>> /\ pc[s] # "log_change"
      \/ LogBegin(s) \/ LogChange(s) \/ CommitLog(s) \/ LogAbort(s)
    BY DEF Step, Request, Begin, ExecuteAlone, ExecuteInside, Commit, Rollback, Disconnect,
       get_table_schema, prepare_ddl_operation, LogObject, AccessAllowed, AccessDenied, Read,
       ChangeTable, EndCommitted, EndAborted, Undo, recovery
<1>4. \A op \in {"BEGIN", "COMMIT", "ABORT"} : Mark(op) \in LogRecords /\ Mark(op).operation = op
    BY DEF Mark, Entry, LogRecords
<1>5. ASSUME NEW e \in LogRecords, Added(Tid(s), e), pc[s] # "idle",
             e.operation = "ABORT" => LogAbort(s),
             pc[s] = "log_change" /\ statement[s].kind = "INSERT" =>
                e = Entry("INSERT", Table(s), FALSE)
      PROVE  Recorded(s)
    <2> HIDE DEF Records, Tid, Table, Entry, Mark
    <2>1. Mark("ABORT") = e => LogAbort(s)
        BY <1>4, <1>5
    <2> QED
        BY <1>2, <1>5, <2>1 DEF Added, Recorded
<1>6. CASE UNCHANGED <<log_buffer, wal>> /\ pc[s] # "log_change"
    BY <1>6, UnwrittenKeeps DEF Recorded
<1>7. CASE LogBegin(s)
    <2>1. pc[s] = "log_begin" /\ write_log(Tid(s), Mark("BEGIN"))
        BY <1>7 DEF LogBegin
    <2>2. Added(Tid(s), Mark("BEGIN"))
        BY <1>2, <1>4, <2>1, WriteAdds
    <2> QED
        BY <1>4, <1>5, <2>1, <2>2
<1>8. CASE LogChange(s)
    <2> DEFINE op == statement[s].kind
               e == Entry(op, Table(s), op = "DROP" /\ Table(s) \in pending_drop_schemas_ \cup tables)
    <2>1. pc[s] = "log_change" /\ write_log(Tid(s), e)
        BY <1>8 DEF LogChange
    <2>2. op \in Changes /\ Table(s) \in Tables
        BY <1>1, <2>1, StatementsAssumption DEF Stage, Typed, Calls, Table, Changes
    <2>3. /\ e \in LogRecords /\ e.operation # "ABORT"
          /\ op = "INSERT" => e = Entry("INSERT", Table(s), FALSE)
        <3> HIDE DEF Table
        <3> QED
            BY <2>2 DEF Entry, LogRecords, Changes
    <2> HIDE DEF e
    <2>4. Added(Tid(s), e)
        BY <1>2, <2>1, <2>3, WriteAdds
    <2> QED
        BY <1>5, <2>1, <2>3, <2>4
<1>9. CASE CommitLog(s)
    <2>1. pc[s] = "commit" /\ WriteLast(Tid(s), "COMMIT")
        BY <1>9 DEF CommitLog
    <2>2. Added(Tid(s), Mark("COMMIT"))
        BY <1>2, <1>4, <2>1, WriteLastAdds
    <2> QED
        BY <1>4, <1>5, <2>1, <2>2
<1>10. CASE LogAbort(s)
    <2>1. pc[s] = "log_abort" /\ WriteLast(Tid(s), "ABORT")
        BY <1>10 DEF LogAbort
    <2>2. Added(Tid(s), Mark("ABORT"))
        BY <1>2, <1>4, <2>1, WriteLastAdds
    <2> QED
        BY <1>4, <1>5, <1>10, <2>1, <2>2
<1> QED
    BY <1>3, <1>6, <1>7, <1>8, <1>9, <1>10

Writing(s, r) == pc[s] = "log_change" /\ statement[s].kind = "INSERT" /\ Table(s) = r

(* What a step of session s does to what is stored: the only row that may  *)
(* come is its own, whose record it writes next, and a rollback leaves it  *)
(* none.                                                                   *)
Stored(s) ==
    /\ tables' \subseteq Tables
    /\ rows' \in [Tables -> SUBSET Tids]
    /\ \A r \in Tables : rows'[r] \subseteq rows[r] \cup {Tid(s)}
    /\ \A r \in Tables : Tid(s) \in rows'[r] =>
            Tid(s) \in rows[r] \/ (Tid(s)' = Tid(s) /\ Writing(s, r)')

(* The rows of a transaction have a record, or are about to have one; none *)
(* is left when the rollback has looked for the records, and then nobody   *)
(* holds the transaction any more.                                         *)
RowsLogged ==
    /\ \A t \in Tids, r \in Tables : t \in rows[r] =>
            \/ Entry("INSERT", r, FALSE) \in Records(t)
            \/ \E s \in Sessions : Tid(s) = t /\ Writing(s, r)
    /\ \A s \in Sessions : pc[s] = "log_abort" => \A r \in Tables : Tid(s) \notin rows[r]
    /\ \A t \in Tids : Mark("ABORT") \in Records(t) =>
            /\ t <= last_transaction_id
            /\ \A s \in Sessions : Tid(s) # t
            /\ \A r \in Tables : t \notin rows[r]

(* A step that leaves the storage alone is of that kind.                   *)
LEMMA UntouchedKeeps ==
    ASSUME RestTyped, NEW s, UNCHANGED storage
    PROVE  Stored(s)
BY DEF RestTyped, Stored, storage

(* The change a statement makes is of that kind.                           *)
LEMMA ChangeStores ==
    ASSUME Inv, RestTyped, NEW s \in Sessions, ChangeTable(s)
    PROVE  Stored(s)
<1> DEFINE r == Table(s)
<1>1. /\ pc[s] = "access" /\ pc \in [Sessions -> Places] /\ Tid(s)' = Tid(s)
      /\ Tid(s) \in Tids /\ r \in Tables
    BY DEF ChangeTable, Inv, Typed, Stage, Calls, Tid, Table
<1>2. rows \in [Tables -> SUBSET Tids] /\ tables \subseteq Tables
    BY DEF RestTyped
<1>3. ASSUME NEW there \in SUBSET Tables, Change(s, r, there, {}) PROVE Stored(s)
    <2>1. tables' = there /\ rows' = [rows EXCEPT ![r] = {}]
        BY <1>3 DEF Change
    <2> HIDE DEF Tid, r
    <2> QED
        BY <1>1, <1>2, <2>1 DEF Stored
<1>4. ASSUME statement[s].kind = "INSERT", Change(s, r, tables, rows[r] \cup {Tid(s)})
      PROVE  Stored(s)
    <2>1. tables' = tables /\ rows' = [rows EXCEPT ![r] = rows[r] \cup {Tid(s)}]
        BY <1>4 DEF Change
    <2>5. \A q \in Tables : q = r => Writing(s, q)'
        BY <1>1, <1>4 DEF Change, Goto, Writing, Table
    <2> HIDE DEF Tid, r, Writing
    <2>3. rows' \in [Tables -> SUBSET Tids]
        BY <1>1, <1>2, <2>1
    <2>4. \A q \in Tables : rows'[q] = IF q = r THEN rows[r] \cup {Tid(s)} ELSE rows[q]
        BY <1>1, <1>2, <2>1
    <2> QED
        BY <1>1, <1>2, <2>1, <2>3, <2>4, <2>5 DEF Stored
<1>5. \/ UNCHANGED storage
      \/ statement[s].kind = "INSERT" /\ Change(s, r, tables, rows[r] \cup {Tid(s)})
      \/ \E there \in SUBSET Tables : Change(s, r, there, {})
    <2>1. tables \cup {r} \in SUBSET Tables /\ tables \ {r} \in SUBSET Tables
        BY <1>1, <1>2
    <2> HIDE DEF r, Tid, storage
    <2> QED
        BY <2>1 DEF ChangeTable, InsertRow, CreateTable, DropTable, r
<1> HIDE DEF r
<1> QED
    BY <1>3, <1>4, <1>5, UntouchedKeeps

(* The rollback leaves no row that has a record.                           *)
LEMMA UndoStores ==
    ASSUME Inv, RestTyped, RowsLogged, NEW s \in Sessions, Undo(s)
    PROVE  /\ Stored(s)
           /\ Tid(s)' = Tid(s)
           /\ \A r \in Tables : Tid(s) \notin rows'[r]
<1> DEFINE t == Tid(s)
           b == [tables |-> tables, rows |-> rows]
<1>1. t \in Tids /\ pc[s] = "undo" /\ t \in active_transactions_cache /\ Owned
    BY DEF Undo, Inv, Typed, Stage, Tid
<1>2. /\ t' = t
      /\ IF has_data_modifications(t)
         THEN tables' = Undone(t).tables /\ rows' = Undone(t).rows
         ELSE UNCHANGED storage
    BY <1>1 DEF Undo, Tid
<1>3. b \in States /\ b.rows = rows
    BY DEF RestTyped, States
<1>4. Entries(t) \in Seq(LogRecords)
    BY <1>1, JoinAppend DEF Entries, RestTyped, LogsTyped
<1>5. Undone(t) = UndoneRecords(t, Entries(t), b)
    BY DEF Undone, UndoneRecords
<1>6. /\ Undone(t) \in States
      /\ \A r \in Tables : Undone(t).rows[r] \subseteq rows[r]
      /\ \A e \in Records(t) : e.operation = "INSERT" => t \notin Undone(t).rows[e.table_name]
    <2> HIDE DEF b, t
    <2>1. PICK u : u = t
        OBVIOUS
    <2>2. PICK q \in Seq(LogRecords) : q = Entries(t)
        BY <1>4
    <2>3. PICK x \in States : x = b
        BY <1>3
    <2>4. PICK y : y = UndoneRecords(u, q, x)
        OBVIOUS
    <2>5. y = Undone(t)
        BY <1>5, <2>1, <2>2, <2>3, <2>4, Zenon
    <2>6. /\ y \in States
          /\ \A r \in Tables : y.rows[r] \subseteq x.rows[r]
          /\ \A e \in ToSet(q) : e.operation = "INSERT" => u \notin y.rows[e.table_name]
        BY <2>4, UndoneTakesRows
    <2>7. x.rows = rows /\ ToSet(q) = Records(t)
        BY <1>3, <2>2, <2>3 DEF Records
    <2> HIDE DEF Undone, Records
    <2> QED
        BY <2>1, <2>5, <2>6, <2>7
<1>7. \A r \in Tables : t \in rows[r] => Entry("INSERT", r, FALSE) \in Records(t)
    <2>1. \A z \in Sessions : Tid(z) = t => pc[z] # "log_change"
        <3>1. t # NoTid
            BY <1>1 DEF NoTid, Tids
        <3>2. \A z \in Sessions : Tid(z) = t => z = s
            BY <1>1, <3>1 DEF Owned
        <3> QED
            BY <1>1, <3>2
    <2> HIDE DEF Tid, Records, Entry
    <2> QED
        BY <1>1, <2>1 DEF RowsLogged, Writing
<1>8. \A r \in Tables : /\ Entry("INSERT", r, FALSE).operation = "INSERT"
                        /\ Entry("INSERT", r, FALSE).table_name = r
    BY DEF Entry
<1>9. has_data_modifications(t) <=> \E e \in Records(t) : e.operation = "INSERT"
    BY DEF has_data_modifications, DataOperations, Records
<1> HIDE DEF Tid, t, b, Undone, Entry, Records
<1>10. CASE has_data_modifications(t)
    <2>1. tables' = Undone(t).tables /\ rows' = Undone(t).rows
        BY <1>2, <1>10
    <2>2. tables' \subseteq Tables /\ rows' \in [Tables -> SUBSET Tids]
        BY <1>6, <2>1 DEF States
    <2>3. \A r \in Tables : rows'[r] \subseteq rows[r]
        BY <1>6, <2>1
    <2>4. \A r \in Tables : t \notin rows'[r]
        BY <1>6, <1>7, <1>8, <2>1, <2>3
    <2> QED
        BY <1>2, <2>2, <2>3, <2>4 DEF Stored, t
<1>11. CASE ~has_data_modifications(t)
    <2>1. UNCHANGED storage
        BY <1>2, <1>11
    <2>2. \A r \in Tables : t \notin rows[r]
        <3> SUFFICES ASSUME NEW r \in Tables, t \in rows[r] PROVE FALSE
            BY Zenon
        <3>1. PICK e : e = Entry("INSERT", r, FALSE)
            OBVIOUS
        <3>2. e \in Records(t) /\ e.operation = "INSERT"
            BY <1>7, <1>8, <3>1
        <3> QED
            BY <1>9, <1>11, <3>2, Zenon
    <2> QED
        BY <1>2, <2>1, <2>2, UntouchedKeeps DEF storage, t
<1> QED
    BY <1>10, <1>11

(* What a step does besides to what is stored and logged.                  *)
LEMMA StorageSteps ==
    ASSUME Inv, RestTyped, RowsLogged, NEW s \in Sessions, Step(s) \/ Request(s)
    PROVE  /\ Stored(s)
           /\ pc'[s] = "log_abort" => Undo(s)
           /\ \A r \in Tables : Writing(s, r) => LogChange(s)
           /\ LogAbort(s) => UNCHANGED storage
<1>1. UNCHANGED storage \/ ChangeTable(s) \/ Undo(s)
    BY DEF Step, Request, Begin, ExecuteAlone, ExecuteInside, Commit, Rollback, Disconnect,
       LogBegin, get_table_schema, prepare_ddl_operation, LogObject, AccessAllowed,
       AccessDenied, Read, LogChange, CommitLog, EndCommitted, EndAborted, LogAbort
<1>2. Stored(s)
    BY <1>1, UntouchedKeeps, ChangeStores, UndoStores
<1>3. pc'[s] = "log_abort" => Undo(s)
    <2>1. \A q \in Statements : FirstCall(q) # "log_abort"
        BY FirstCallIsCall DEF Calls
    <2>2. Typed
        BY DEF Inv
    <2> USE DEF Typed, Goto, Hold, Answered, Take, Finish
    <2>3. ASSUME NEW q \in Statements, ExecuteAlone(s, q) \/ ExecuteInside(s, q)
          PROVE  pc'[s] # "log_abort"
        BY <2>1, <2>2, <2>3 DEF ExecuteAlone, ExecuteInside
    <2>4. CASE Begin(s) \/ Commit(s) \/ Rollback(s)
        BY <2>2, <2>4 DEF Begin, Commit, Rollback
    <2>5. CASE Disconnect(s)
        BY <2>2, <2>5 DEF Disconnect
    <2>6. CASE LogBegin(s)
        BY <2>1, <2>2, <2>6 DEF LogBegin
    <2>7. CASE get_table_schema(s) \/ prepare_ddl_operation(s) \/ LogObject(s)
               \/ AccessAllowed(s) \/ AccessDenied(s)
        BY <2>2, <2>7 DEF get_table_schema, prepare_ddl_operation, LogObject, AccessAllowed,
                          AccessDenied
    <2>8. CASE Read(s) \/ LogChange(s)
        BY <2>2, <2>8 DEF Read, LogChange
    <2>9. CASE ChangeTable(s)
        BY <2>2, <2>9 DEF ChangeTable, InsertRow, CreateTable, DropTable, Change
    <2>10. CASE CommitLog(s) \/ EndCommitted(s) \/ EndAborted(s) \/ LogAbort(s)
        BY <2>2, <2>10 DEF CommitLog, EndCommitted, EndAborted, LogAbort
    <2> QED
        BY <2>3, <2>4, <2>5, <2>6, <2>7, <2>8, <2>9, <2>10 DEF Step, Request
<1>4. pc[s] = "log_change" => LogChange(s)
    BY DEF Step, Request, Begin, ExecuteAlone, ExecuteInside, Commit, Rollback, Disconnect,
       LogBegin, get_table_schema, prepare_ddl_operation, LogObject, AccessAllowed,
       AccessDenied, Read, ChangeTable, CommitLog, EndCommitted, EndAborted, Undo, LogAbort
<1>5. LogAbort(s) => UNCHANGED storage
    BY DEF LogAbort
<1> QED
    BY <1>2, <1>3, <1>4, <1>5 DEF Writing

(* The counter only grows, and a session takes no id but a new one.        *)
LEMMA IdsGrow ==
    ASSUME Inv, NEW s \in Sessions, Step(s) \/ Request(s)
    PROVE  /\ last_transaction_id \in Nat /\ last_transaction_id' \in Nat
           /\ last_transaction_id' >= last_transaction_id
           /\ Tid(s)' \in {Tid(s), NoTid} \/ Tid(s)' > last_transaction_id
<1>1. CCTyped /\ Typed /\ Stage(s) /\ last_transaction_id \in Nat
    BY MaxTransactionsAssumption DEF Inv, CCTyped
<1>2. CASE cc_begin_transaction
    <2>1. last_transaction_id' = last_transaction_id + 1
        BY <1>1, <1>2, BeginOpens
    <2>2. \/ Tid(s)' \in {Tid(s), NoTid}
          \/ Tid(s)' = last_transaction_id'
        BY <1>1 DEF Step, Request, Begin, ExecuteAlone, ExecuteInside, Commit, Rollback,
           Disconnect, LogBegin, get_table_schema, prepare_ddl_operation, LogObject,
           AccessAllowed, AccessDenied, Read, ChangeTable, LogChange, CommitLog, EndCommitted,
           EndAborted, Undo, LogAbort, Hold, Typed, Tid
    <2> QED
        BY <1>1, <2>1, <2>2
<1>3. CASE ~cc_begin_transaction
    <2>1. Tid(s)' \in {Tid(s), NoTid}
        BY <1>1, <1>3 DEF Step, Request, Begin, ExecuteAlone, ExecuteInside, Commit, Rollback,
           Disconnect, LogBegin, get_table_schema, prepare_ddl_operation, LogObject,
           AccessAllowed, AccessDenied, Read, ChangeTable, LogChange, CommitLog, EndCommitted,
           EndAborted, Undo, LogAbort, Hold, Typed, Tid
    <2>2. last_transaction_id' = last_transaction_id
        <3>1. \/ UNCHANGED ccm
              \/ Tid(s) # NoTid /\ cc_end_transaction(Tid(s))
              \/ pc[s] = "log_object" /\ log_object(Tid(s), Table(s))
              \/ pc[s] = "validate" /\ (Allowed(Tid(s), Table(s), Action(s))
                                        \/ Denied(Tid(s), Table(s), Action(s)))
            <4> HIDE DEF ccm, Tid, Table, Action
            <4> QED
                BY <1>1, <1>3 DEF Step, Request, Begin, ExecuteAlone, ExecuteInside, Commit,
                   Rollback, Disconnect, LogBegin, get_table_schema, prepare_ddl_operation,
                   LogObject, AccessAllowed, AccessDenied, Read, ChangeTable, LogChange,
                   CommitLog, EndCommitted, EndAborted, Undo, LogAbort, Stage
        <3>2. /\ Tid(s) # NoTid => Tid(s) \in Tids
              /\ pc[s] \in Calls => Tid(s) # NoTid /\ Table(s) \in Tables
            BY <1>1 DEF Typed, Stage, Tid, Table, Calls
        <3>3. UNCHANGED ccm => last_transaction_id' = last_transaction_id
            BY DEF ccm
        <3> HIDE DEF ccm, Tid, Table, Action
        <3>4. CASE Tid(s) # NoTid /\ cc_end_transaction(Tid(s))
            BY <1>1, <3>2, <3>4, EndCloses
        <3>5. CASE pc[s] = "log_object" /\ log_object(Tid(s), Table(s))
            BY <1>1, <3>2, <3>5, AllowedKeeps DEF Calls
        <3>6. CASE pc[s] = "validate" /\ Allowed(Tid(s), Table(s), Action(s))
            BY <1>1, <3>2, <3>6, AllowedKeeps DEF Calls
        <3>7. CASE pc[s] = "validate" /\ Denied(Tid(s), Table(s), Action(s))
            BY <1>1, <3>2, <3>7, DeniedKeeps DEF Calls
        <3> QED
            BY <3>1, <3>3, <3>4, <3>5, <3>6, <3>7
    <2> QED
        BY <1>1, <2>1, <2>2
<1> QED
    BY <1>2, <1>3

(* The types that are left hold at the start and are kept.                 *)
LEMMA RestTypedSteps ==
    ASSUME Inv, RestTyped, RowsLogged, NEW s \in Sessions, Step(s) \/ Request(s)
    PROVE  RestTyped'
<1>1. LogsTyped'
    BY LogSteps DEF RestTyped, Recorded
<1>2. tables' \subseteq Tables /\ rows' \in [Tables -> SUBSET Tids]
    BY StorageSteps DEF Stored
<1>3. explicit_transaction_started' \in [Sessions -> BOOLEAN]
    <2>1. \/ explicit_transaction_started' = explicit_transaction_started
          \/ \E explicit \in BOOLEAN : Hold(s, last_transaction_id', explicit)
          \/ Hold(s, NoTid, FALSE)
        BY DEF Step, Request, Begin, ExecuteAlone, ExecuteInside, Commit, Rollback, Disconnect,
           LogBegin, get_table_schema, prepare_ddl_operation, LogObject, AccessAllowed,
           AccessDenied, Read, ChangeTable, LogChange, CommitLog, EndCommitted, EndAborted,
           Undo, LogAbort
    <2> QED
        BY <2>1 DEF RestTyped, Hold
<1>4. pending_drop_schemas_' \subseteq Tables
    <2>1. pending_drop_schemas_' \subseteq pending_drop_schemas_ \cup tables
        BY DEF Step, Request, Begin, ExecuteAlone, ExecuteInside, Commit, Rollback, Disconnect,
           LogBegin, get_table_schema, prepare_ddl_operation, LogObject, AccessAllowed,
           AccessDenied, Read, ChangeTable, LogChange, CommitLog, EndCommitted, EndAborted,
           Undo, LogAbort, recovery, WriteLast
    <2> QED
        BY <2>1 DEF RestTyped
<1> QED
    BY <1>1, <1>2, <1>3, <1>4 DEF RestTyped

(* Every step keeps the rows and their records in step.                    *)
LEMMA RowsLoggedSteps ==
    ASSUME Inv, RestTyped, RowsLogged, NEW s \in Sessions, Step(s) \/ Request(s)
    PROVE  RowsLogged'
<1>1. Recorded(s) /\ Stored(s)
    BY LogSteps, StorageSteps DEF RestTyped
<1>2. /\ last_transaction_id \in Nat /\ last_transaction_id' \in Nat
      /\ last_transaction_id' >= last_transaction_id
      /\ Tid(s)' \in {Tid(s), NoTid} \/ Tid(s)' > last_transaction_id
    BY IdsGrow
<1>3. \A z \in Sessions \ {s} :
          /\ Tid(z)' = Tid(z) /\ pc'[z] = pc[z]
          /\ \A r \in Tables : Writing(z, r)' <=> Writing(z, r)
    BY OneMoves DEF Tid, Writing, Table
<1>4. NoTid \notin Tids /\ Tids \subseteq Nat
    BY DEF NoTid, Tids
<1>5. Typed /\ Owned /\ \A z \in Sessions : Stage(z)
    BY DEF Inv
<1>6. \A z \in Sessions : Tid(z) \in Tids \cup {NoTid}
    BY <1>5 DEF Typed, Tid
<1> HIDE DEF Tid, Writing, Records, Tids, NoTid, Mark, Entry, Table
<1>7. \A z \in Sessions, t \in Tids : Tid(z) = t /\ Tid(s) = t => z = s
    BY <1>4, <1>5 DEF Owned
<1>8. ASSUME NEW t \in Tids, NEW r \in Tables, t \in rows'[r]
      PROVE  \/ Entry("INSERT", r, FALSE) \in Records(t)'
             \/ \E z \in Sessions : Tid(z)' = t /\ Writing(z, r)'
    <2>1. CASE t \notin rows[r]
        <3>1. t = Tid(s) /\ Tid(s)' = Tid(s) /\ Writing(s, r)'
            BY <1>1, <1>8, <2>1 DEF Stored
        <3> QED
            BY <3>1
    <2>2. CASE Entry("INSERT", r, FALSE) \in Records(t)
        BY <1>1, <2>2 DEF Recorded
    <2>3. ASSUME NEW z \in Sessions, Tid(z) = t, Writing(z, r)
          PROVE  \/ Entry("INSERT", r, FALSE) \in Records(t)'
                 \/ \E y \in Sessions : Tid(y)' = t /\ Writing(y, r)'
        <3>1. CASE z = s
            <4>1. pc[s] = "log_change" /\ statement[s].kind = "INSERT" /\ Table(s) = r
                BY <2>3, <3>1 DEF Writing
            <4> QED
                BY <1>1, <2>3, <3>1, <4>1 DEF Recorded
        <3>2. CASE z # s
            BY <1>3, <2>3, <3>2
        <3> QED
            BY <3>1, <3>2
    <2> QED
        BY <2>1, <2>2, <2>3 DEF RowsLogged
<1>9. ASSUME NEW z \in Sessions, pc'[z] = "log_abort", NEW r \in Tables
      PROVE  Tid(z)' \notin rows'[r]
    <2>1. CASE z = s
        <3>1. Undo(s)
            BY <1>9, <2>1, StorageSteps
        <3> QED
            BY <2>1, <3>1, UndoStores
    <2>2. CASE z # s
        <3>1. pc[z] = "log_abort" /\ Tid(z)' = Tid(z)
            BY <1>3, <1>9, <2>2
        <3>2. Tid(z) \notin rows[r]
            BY <3>1 DEF RowsLogged
        <3>3. Tid(z) \in Tids
            BY <1>5, <1>6, <3>1 DEF Stage
        <3>4. Tid(z) # Tid(s)
            BY <1>7, <2>2, <3>3
        <3> QED
            BY <1>1, <3>1, <3>2, <3>4 DEF Stored
    <2> QED
        BY <2>1, <2>2
<1>10. ASSUME NEW t \in Tids, Mark("ABORT") \in Records(t)'
       PROVE  /\ t <= last_transaction_id'
              /\ \A z \in Sessions : Tid(z)' # t
              /\ \A r \in Tables : t \notin rows'[r]
    <2>1. CASE Mark("ABORT") \in Records(t)
        <3>1. /\ t <= last_transaction_id
              /\ \A z \in Sessions : Tid(z) # t
              /\ \A r \in Tables : t \notin rows[r]
            BY <2>1 DEF RowsLogged
        <3>2. t \in Nat /\ t # NoTid
            BY <1>4
        <3>3. t <= last_transaction_id'
            BY <1>2, <3>1, <3>2
        <3>4. Tid(s)' # t
            <4>1. Tid(s)' > last_transaction_id => Tid(s)' # t
                BY <1>2, <3>1, <3>2
            <4> QED
                BY <1>2, <3>1, <3>2, <4>1
        <3>5. \A r \in Tables : t \notin rows'[r]
            BY <1>1, <3>1 DEF Stored
        <3> QED
            BY <1>3, <3>1, <3>3, <3>4, <3>5
    <2>2. CASE t = Tid(s) /\ LogAbort(s)
        <3>1. pc[s] = "log_abort" /\ rows' = rows
            BY <2>2, StorageSteps DEF LogAbort, storage
        <3>2. Tid(s)' = NoTid
            BY <1>5, <2>2 DEF LogAbort, Hold, Typed, Tid
        <3>3. t <= last_transaction_id
            BY <1>5, <2>2 DEF Stage
        <3>4. t <= last_transaction_id'
            <4>1. t \in Nat
                BY <1>4
            <4> QED
                BY <1>2, <3>3, <4>1
        <3>5. \A z \in Sessions : Tid(z)' # t
            BY <1>3, <1>4, <1>7, <2>2, <3>2
        <3>6. \A r \in Tables : t \notin rows[r]
            BY <2>2, <3>1 DEF RowsLogged
        <3> QED
            BY <3>1, <3>4, <3>5, <3>6
    <2> QED
        BY <1>1, <1>10, <2>1, <2>2 DEF Recorded
<1> QED
    BY <1>8, <1>9, <1>10 DEF RowsLogged

(* The invariant of the rows and their records.                            *)
RowsInv == RestTyped /\ RowsLogged

(* The invariant holds when there are neither rows nor records.            *)
LEMMA RowsInvInit == Init => RowsInv
<1> SUFFICES ASSUME Init PROVE RowsInv
    OBVIOUS
<1>1. RestTyped
    <2>1. <<>> \in Seq(LogRecords)
        OBVIOUS
    <2>2. tables \subseteq Tables
        BY DatabasesAssumption DEF Init
    <2> QED
        BY <2>1, <2>2 DEF Init, RestTyped, LogsTyped
<1>2. \A t \in Tids : Records(t) = {}
    <2> TAKE t \in Tids
    <2>1. Entries(t) = <<>> \o <<>>
        BY DEF Init, Entries
    <2>2. Entries(t) = <<>>
        BY <2>1
    <2>3. DOMAIN Entries(t) = {}
        BY <2>2
    <2> QED
        BY <2>3 DEF Records, ToSet
<1>3. \A s \in Sessions : pc[s] = "idle"
    BY DEF Init
<1>4. \A r \in Tables : rows[r] = {}
    <2>1. rows = [r \in Tables |-> {}]
        BY DEF Init
    <2> QED
        BY <2>1, Zenon
<1> HIDE DEF Records
<1>5. RowsLogged
    BY <1>2, <1>3, <1>4 DEF RowsLogged
<1> QED
    BY <1>1, <1>5 DEF RowsInv

(* Every step of the system keeps it.                                      *)
LEMMA RowsInvNext == Inv /\ RowsInv /\ [Next]_vars => RowsInv'
<1> SUFFICES ASSUME Inv, RowsInv, [Next]_vars PROVE RowsInv'
    OBVIOUS
<1>1. CASE UNCHANGED vars
    <2>1. UNCHANGED <<current_transaction_id, explicit_transaction_started, pc, statement, todo,
                      log_buffer, wal, pending_drop_schemas_, tables, rows, last_transaction_id>>
        BY <1>1 DEF vars, query_processor, recovery, storage, ccm
    <2>2. RestTyped'
        BY <2>1 DEF RowsInv, RestTyped, LogsTyped
    <2>3. /\ \A s \in Sessions : Tid(s)' = Tid(s)
          /\ \A s \in Sessions, r \in Tables : Writing(s, r)' <=> Writing(s, r)
          /\ \A t \in Tids : Records(t)' = Records(t)
        BY <2>1 DEF Tid, Writing, Table, Records, Entries
    <2>4. RowsLogged
        BY DEF RowsInv
    <2> HIDE DEF Tid, Writing, Records, Entry, Mark
    <2>5. ASSUME NEW t \in Tids, NEW r \in Tables, t \in rows'[r]
          PROVE  \/ Entry("INSERT", r, FALSE) \in Records(t)'
                 \/ \E s \in Sessions : Tid(s)' = t /\ Writing(s, r)'
        <3>1. CASE Entry("INSERT", r, FALSE) \in Records(t)
            BY <2>3, <3>1
        <3>2. ASSUME NEW s \in Sessions, Tid(s) = t, Writing(s, r)
              PROVE  Tid(s)' = t /\ Writing(s, r)'
            BY <2>3, <3>2
        <3> QED
            BY <2>1, <2>4, <2>5, <3>1, <3>2 DEF RowsLogged
    <2>6. \A s \in Sessions : pc'[s] = "log_abort" => \A r \in Tables : Tid(s)' \notin rows'[r]
        BY <2>1, <2>3, <2>4 DEF RowsLogged
    <2>7. \A t \in Tids : Mark("ABORT") \in Records(t)' =>
            /\ t <= last_transaction_id'
            /\ \A s \in Sessions : Tid(s)' # t
            /\ \A r \in Tables : t \notin rows'[r]
        BY <2>1, <2>3, <2>4 DEF RowsLogged
    <2>8. RowsLogged'
        BY <2>5, <2>6, <2>7 DEF RowsLogged
    <2> QED
        BY <2>2, <2>8 DEF RowsInv
<1>2. ASSUME NEW s \in Sessions, Step(s) \/ Request(s) PROVE RowsInv'
    BY <1>2, RestTypedSteps, RowsLoggedSteps DEF RowsInv
<1> QED
    BY <1>1, <1>2 DEF Next

(* It holds all along.                                                     *)
LEMMA RowsInvHolds == Spec => []RowsInv
BY RowsInvInit, RowsInvNext, InvHolds, PTL DEF Spec

(* The members of the sessions, the transactions both managers know of and *)
(* what is stored keep their types, also through the rollback of every     *)
(* record of a transaction.                                                *)
THEOREM SessionsTyped == Spec => []TypeOK
<1>1. Inv /\ RowsInv => TypeOK
    BY DEF Inv, Typed, RowsInv, RestTyped, TypeOK
<1> QED
    BY <1>1, InvHolds, RowsInvHolds, PTL

(* Nothing a transaction inserted is left once its ABORT record is         *)
(* written, for whatever statements the sessions ran meanwhile and however *)
(* many records the rollback had to look through.                          *)
THEOREM RolledBackNeverLeaveRow == Spec => []RolledBackLeaveNoRow
<1>1. RowsInv => RolledBackLeaveNoRow
    <2> SUFFICES ASSUME RowsInv, NEW t \in Tids, Ended(t, "ABORT"), NEW r \in Tables
                 PROVE  t \notin rows[r]
        BY DEF RolledBackLeaveNoRow
    <2>1. PICK i \in 1..Len(Entries(t)) : Entries(t)[i] = Mark("ABORT")
        BY DEF Ended, Contains
    <2>2. Entries(t) \in Seq(LogRecords)
        BY JoinAppend DEF RowsInv, RestTyped, LogsTyped, Entries
    <2>3. i \in DOMAIN Entries(t)
        BY <2>1, <2>2
    <2>4. Mark("ABORT") \in Records(t)
        BY <2>1, <2>3 DEF Records, ToSet
    <2> QED
        BY <2>4 DEF RowsInv, RowsLogged
<1> QED
    BY <1>1, RowsInvHolds, PTL

=============================================================================
