------------------------ MODULE FailureRecoveryProofs ------------------------
(***************************************************************************)
(* Proofs about the log, the cache of active transactions and the rows.    *)
(* What is said of the log and the cache holds for any bounds, any number  *)
(* of lives and crashes and all mishaps, and so do the types.  What is     *)
(* said of the rows, at the end, needs the hypotheses named there.         *)
(***************************************************************************)
EXTENDS FailureRecovery, DataLemmas, FunctionTheorems, TLAPS

-----------------------------------------------------------------------------
(* Sequences of log records.                                               *)

(* In the records of a log from number from on, t has begun and not ended. *)
Begun(records, from, t) ==
    \E i \in from..Len(records) :
        /\ records[i].transaction_id = t /\ records[i].operation = "BEGIN"
        /\ \A j \in i..Len(records) :
            records[j].transaction_id = t => records[j].operation \notin EndOperations

(* The ids of the records grow along the log.                              *)
Numbered(records) ==
    \A i, j \in 1..Len(records) : i < j => records[i].log_id < records[j].log_id

Below(records, id) == \A i \in 1..Len(records) : records[i].log_id < id

(* A record at the end of a log decides about its own transaction only,    *)
(* and only if it begins or ends it.                                       *)
LEMMA LastRecordDecides ==
    ASSUME NEW records \in Seq(LogEntry), NEW e \in LogEntry, NEW from \in Nat \ {0},
           from <= Len(records) + 1, NEW t
    PROVE  Begun(Append(records, e), from, t) <=>
               IF e.transaction_id = t /\ e.operation = "BEGIN" THEN TRUE
               ELSE IF e.transaction_id = t /\ e.operation \in EndOperations THEN FALSE
               ELSE Begun(records, from, t)
<1> DEFINE longer == Append(records, e)
           n == Len(records)
<1>1. n \in Nat /\ Len(longer) = n + 1 /\ longer[n + 1] = e
    OBVIOUS
<1>2. \A i \in 1..n : longer[i] = records[i]
    OBVIOUS
<1>3. CASE e.transaction_id = t /\ e.operation = "BEGIN"
    <2>1. n + 1 \in from..(n + 1)
        BY <1>1
    <2>2. \A j \in (n + 1)..(n + 1) : longer[j].operation \notin EndOperations
        BY <1>1, <1>3 DEF EndOperations
    <2> QED
        BY <1>1, <1>3, <2>1, <2>2 DEF Begun
<1>4. CASE e.transaction_id = t /\ e.operation \in EndOperations
    <2>1. e.operation # "BEGIN"
        BY <1>4 DEF EndOperations
    <2>2. \A i \in from..(n + 1) : n + 1 \in i..(n + 1)
        BY <1>1
    <2> QED
        BY <1>1, <1>4, <2>1, <2>2 DEF Begun
<1>5. CASE ~(e.transaction_id = t /\ e.operation \in EndOperations \cup {"BEGIN"})
    <2>1. ASSUME NEW i \in from..n
          PROVE  (\A j \in i..n : records[j].transaction_id = t =>
                      records[j].operation \notin EndOperations)
                 <=> (\A j \in i..(n + 1) : longer[j].transaction_id = t =>
                      longer[j].operation \notin EndOperations)
        BY <1>1, <1>2, <1>5
    <2>2. ASSUME NEW i \in from..(n + 1), longer[i].transaction_id = t,
                 longer[i].operation = "BEGIN"
          PROVE  i \in from..n
        BY <1>1, <1>5, <2>2
    <2> HIDE DEF longer, n
    <2>3. Begun(longer, from, t) => Begun(records, from, t)
        BY <1>1, <1>2, <2>1, <2>2 DEF Begun, n
    <2>4. Begun(records, from, t) => Begun(longer, from, t)
        BY <1>1, <1>2, <2>1 DEF Begun, n
    <2> QED
        BY <1>5, <2>3, <2>4 DEF longer
<1> QED
    BY <1>3, <1>4, <1>5

LEMMA IdsAreNumbers ==
    ASSUME NEW records \in Seq(LogEntry)
    PROVE  \A i \in 1..Len(records) : records[i].log_id \in Nat
<1>1. \A i \in 1..Len(records) : records[i] \in LogEntry
    OBVIOUS
<1>2. \A e \in LogEntry : e.log_id \in Nat
    BY DEF LogEntry
<1> QED
    BY <1>1, <1>2

(* A higher id goes to the end.                                            *)
LEMMA NextRecordIsNumbered ==
    ASSUME NEW records \in Seq(LogEntry), NEW e \in LogEntry,
           Numbered(records), Below(records, e.log_id)
    PROVE  /\ Numbered(Append(records, e))
           /\ Below(Append(records, e), e.log_id + 1)
<1> DEFINE longer == Append(records, e)
           n == Len(records)
<1>1. /\ n \in Nat /\ Len(longer) = n + 1 /\ longer[n + 1] = e
      /\ \A i \in 1..n : longer[i] = records[i]
    OBVIOUS
<1>2. e.log_id \in Nat /\ \A i \in 1..n : records[i].log_id \in Nat
    <2>1. e.log_id \in Nat
        BY DEF LogEntry
    <2> QED
        BY <2>1, IdsAreNumbers
<1>3. \A i \in 1..n : records[i].log_id < e.log_id
    BY DEF Below
<1>4. \A i, j \in 1..n : i < j => records[i].log_id < records[j].log_id
    BY DEF Numbered
<1>5. \A i \in 1..(n + 1) : i \in 1..n \/ i = n + 1
    BY <1>1
<1> HIDE DEF longer, n
<1>6. \A i, j \in 1..(n + 1) : i < j => longer[i].log_id < longer[j].log_id
    <2> SUFFICES ASSUME NEW i \in 1..(n + 1), NEW j \in 1..(n + 1), i < j
                 PROVE  longer[i].log_id < longer[j].log_id
        OBVIOUS
    <2>1. i \in 1..n
        BY <1>1
    <2> QED
        BY <1>1, <1>3, <1>4, <1>5, <2>1
<1>7. \A i \in 1..(n + 1) : longer[i].log_id < e.log_id + 1
    BY <1>1, <1>2, <1>3, <1>5
<1> QED
    BY <1>1, <1>6, <1>7 DEF Numbered, Below, longer

(* The id behind the last one is above all.                                *)
LEMMA LastIsTheHighest ==
    ASSUME NEW records \in Seq(LogEntry), records # <<>>, Numbered(records)
    PROVE  Last(records).log_id \in Nat /\ Below(records, Last(records).log_id + 1)
<1>1. Len(records) \in 1..Len(records) /\ Last(records) = records[Len(records)]
    BY DEF Last
<1>2. \A i \in 1..Len(records) : records[i].log_id \in Nat
    BY IdsAreNumbers
<1> DEFINE n == Len(records)
           last == records[n].log_id
<1>3. last \in Nat /\ \A i \in 1..n : i < n \/ i = n
    BY <1>1, <1>2
<1>4. \A i \in 1..n : i < n => records[i].log_id < last
    BY <1>1 DEF Numbered
<1>5. \A i \in 1..n : records[i].log_id < last + 1
    <2> SUFFICES ASSUME NEW i \in 1..n
                 PROVE  records[i].log_id < last + 1
        OBVIOUS
    <2>1. records[i].log_id \in Nat
        BY <1>2
    <2>2. i < n \/ i = n
        BY <1>3
    <2> HIDE DEF n
    <2>3. records[i].log_id <= last
        BY <1>3, <1>4, <2>1, <2>2
    <2> HIDE DEF last
    <2> QED
        BY <1>3, <2>1, <2>3
<1> QED
    BY <1>1, <1>3, <1>5 DEF Below

-----------------------------------------------------------------------------
(* The log in its two parts.                                               *)

LogTyped ==
    /\ log_buffer \in Seq(LogEntry) /\ wal \in Seq(LogEntry)
    /\ next_log_id \in Nat

(* A record goes to the end of the log, in the buffer or in the file.      *)
LEMMA RecordsAreAppended ==
    ASSUME LogTyped, NEW e \in LogEntry, Push(e) \/ AppendAndFlush(e)
    PROVE  /\ LogTyped'
           /\ EverLogged' = Append(EverLogged, e)
           /\ next_log_id' = next_log_id + 1
<1>1. CASE AppendAndFlush(e)
    BY <1>1 DEF AppendAndFlush, LogTyped, EverLogged
<1>2. CASE Push(e) /\ ~AppendAndFlush(e)
    <2>1. /\ log_buffer' = Append(log_buffer, e) /\ wal' = wal
          /\ next_log_id' = next_log_id + 1
        BY <1>2 DEF Push
    <2>2. wal \o Append(log_buffer, e) = Append(wal \o log_buffer, e)
        BY DEF LogTyped
    <2> QED
        BY <2>1, <2>2 DEF LogTyped, EverLogged
<1> QED
    BY <1>1, <1>2

LEMMA FlushKeepsTheLog ==
    ASSUME LogTyped, flush_buffer
    PROVE  LogTyped' /\ EverLogged' = EverLogged /\ next_log_id' = next_log_id
BY DEF flush_buffer, LogTyped, EverLogged

LEMMA FileIsNumbered ==
    ASSUME NEW file \in Seq(LogEntry), NEW buffer \in Seq(LogEntry), Numbered(file \o buffer)
    PROVE  Numbered(file)
<1>1. /\ Len(file \o buffer) = Len(file) + Len(buffer)
      /\ \A i \in 1..Len(file) : (file \o buffer)[i] = file[i]
    OBVIOUS
<1>2. \A i \in 1..Len(file) : i \in 1..Len(file \o buffer)
    BY <1>1
<1> QED
    BY <1>1, <1>2 DEF Numbered

-----------------------------------------------------------------------------
(* The inductive invariant.                                                *)

Changes ==
    [operation : DataOperations, old_value : Row \cup {NoRow}, new_value : Row \cup {NoRow}]

Places ==
    {"none", "open", "writing", "committing", "undoing", "undone", "closing", "ended"}

Typed ==
    /\ LogTyped
    /\ active_transactions_cache \subseteq Tids
    /\ process \in {"starting", "recovered", "up", "exiting", "exited"}
    /\ session \in [Tids -> Places]
    /\ unlogged \in [Tids -> SUBSET Changes]
    /\ birth \in Nat

(* Between the COMMIT record and the data, the mutex is the transaction's. *)
CommitsAlone ==
    \A t \in Tids : session[t] = "committing" =>
        /\ mtx = "commit" /\ process = "up"
        /\ \A u \in Tids : session[u] = "committing" => u = t

(* Listed as active, and without a COMMIT record yet.                      *)
Open(t) == t \in active_transactions_cache /\ session[t] # "committing"

(* The log of a running process.                                           *)
Kept ==
    /\ Numbered(EverLogged) /\ Below(EverLogged, next_log_id)
    /\ birth <= Len(EverLogged)
    /\ \A t \in Tids : Begun(EverLogged, birth + 1, t) <=> Open(t)

InUse == process \in {"up", "exiting"}

(* Only the file is left where no process runs.                            *)
AtRest ==
    /\ log_buffer = <<>> /\ active_transactions_cache = {}
    /\ \A t \in Tids : session[t] = "none"

Inv ==
    /\ Typed
    /\ CommitsAlone
    /\ Numbered(wal)
    /\ InUse => Kept
    /\ process \in {"starting", "recovered"} => AtRest

(* A step that writes a record keeps the log, if the cache follows.        *)
LEMMA AppendKeeps ==
    ASSUME Inv, InUse, NEW e \in LogEntry, e.log_id = next_log_id,
           Push(e) \/ AppendAndFlush(e), birth' = birth,
           \A t \in Tids : Open(t)' <=>
               IF e.transaction_id = t /\ e.operation = "BEGIN" THEN TRUE
               ELSE IF e.transaction_id = t /\ e.operation \in EndOperations THEN FALSE
               ELSE Open(t)
    PROVE  LogTyped' /\ Kept' /\ Numbered(wal)'
<1>1. Kept /\ LogTyped /\ birth \in Nat
    BY DEF Inv, Typed
<1>2. LogTyped' /\ EverLogged' = Append(EverLogged, e) /\ next_log_id' = next_log_id + 1
    BY <1>1, RecordsAreAppended
<1>3. EverLogged \in Seq(LogEntry) /\ Len(EverLogged) \in Nat
    BY <1>1 DEF LogTyped, EverLogged
<1>4. Len(EverLogged') = Len(EverLogged) + 1
    BY <1>2, <1>3
<1>5. Numbered(EverLogged') /\ Below(EverLogged', next_log_id')
    BY <1>1, <1>2, <1>3, NextRecordIsNumbered DEF Kept
<1>6. \A t \in Tids : Begun(EverLogged', birth' + 1, t) <=> Open(t)'
    BY <1>1, <1>2, <1>3, LastRecordDecides DEF Kept
<1>7. Kept'
    BY <1>1, <1>2, <1>3, <1>4, <1>5, <1>6 DEF Kept
<1>8. Numbered(wal)'
    BY <1>2, <1>5, FileIsNumbered DEF LogTyped, EverLogged
<1> QED
    BY <1>2, <1>7, <1>8

(* So does one that at most moves the buffer into the file.                *)
LEMMA FlushKeeps ==
    ASSUME Inv, InUse, flush_buffer \/ UNCHANGED log, birth' = birth,
           \A t \in Tids : Open(t)' <=> Open(t)
    PROVE  LogTyped' /\ Kept' /\ Numbered(wal)'
<1>1. Kept /\ LogTyped
    BY DEF Inv, Typed
<1>2. LogTyped' /\ EverLogged' = EverLogged /\ next_log_id' = next_log_id
    BY <1>1, FlushKeepsTheLog DEF log, LogTyped, EverLogged
<1>3. Kept'
    BY <1>1, <1>2 DEF Kept
<1>4. Numbered(wal)'
    BY <1>2, <1>3, FileIsNumbered DEF LogTyped, EverLogged, Kept
<1> QED
    BY <1>2, <1>3, <1>4

(* An id is taken for no record.                                           *)
Skips == next_log_id' = next_log_id + 1 /\ UNCHANGED <<log_buffer, wal>>

(* And so does that.                                                       *)
LEMMA SkipKeeps ==
    ASSUME Inv, InUse, Skips,
           birth' = birth, \A t \in Tids : Open(t)' <=> Open(t)
    PROVE  LogTyped' /\ Kept' /\ Numbered(wal)'
<1>1. Kept /\ LogTyped /\ Numbered(wal)
    BY DEF Inv, Typed
<1>2. LogTyped' /\ EverLogged' = EverLogged
    BY <1>1 DEF Skips, LogTyped, EverLogged
<1>3. EverLogged \in Seq(LogEntry) /\ next_log_id \in Nat
    BY <1>1 DEF LogTyped, EverLogged
<1>4. \A i \in 1..Len(EverLogged) : EverLogged[i].log_id \in Nat
    BY <1>3, IdsAreNumbers
<1>5. Below(EverLogged, next_log_id + 1)
    BY <1>1, <1>3, <1>4 DEF Kept, Below
<1>6. Kept'
    BY <1>1, <1>2, <1>5 DEF Skips, Kept
<1> QED
    BY <1>1, <1>2, <1>6 DEF Skips

LEMMA RecordsAreEntries ==
    ASSUME Typed, NEW t \in Tids, NEW op \in DataOperations \cup EndOperations \cup {"BEGIN"},
           NEW old \in Row \cup {NoRow}, NEW new \in Row \cup {NoRow}
    PROVE  /\ Record(t, op, old, new) \in LogEntry
           /\ Record(t, op, old, new).log_id = next_log_id
           /\ Record(t, op, old, new).transaction_id = t
           /\ Record(t, op, old, new).operation = op
BY DEF Record, LogEntry, Typed, LogTyped

LEMMA CheckpointsAreEntries ==
    ASSUME Typed, NEW active \in SUBSET Tids
    PROVE  /\ CheckpointRecord(active) \in LogEntry
           /\ CheckpointRecord(active).log_id = next_log_id
           /\ CheckpointRecord(active).transaction_id \notin Tids
<1>1. CheckpointRecord(active) =
          [log_id |-> next_log_id, transaction_id |-> -1, operation |-> "CHECKPOINT",
           old_value |-> NoRow, new_value |-> NoRow, active |-> active]
    BY DEF CheckpointRecord, Record, SystemTid
<1>2. -1 \notin Tids
    BY BoundsAssumption DEF Tids
<1> QED
    BY <1>1, <1>2 DEF LogEntry, Typed, LogTyped, SystemTid

-----------------------------------------------------------------------------
(* The steps.                                                              *)

(* What the steps of transactions and checkpoints have in common.          *)
LEMMA Enough ==
    ASSUME Inv, InUse', LogTyped', Kept', Numbered(wal)',
           active_transactions_cache' \subseteq Tids,
           process' \in {"up", "exiting"}, session' \in [Tids -> Places],
           unlogged' \in [Tids -> SUBSET Changes], birth' = birth, CommitsAlone'
    PROVE  Inv'
BY DEF Inv, Typed

LEMMA NobodyCommits ==
    ASSUME Inv, mtx # "commit"
    PROVE  \A t \in Tids : session[t] # "committing"
BY DEF Inv, CommitsAlone

(* What write_log does besides the log.                                    *)
LEMMA LogsOnly ==
    ASSUME Inv, NEW t \in Tids, write_log(t)
    PROVE  /\ \A u \in Tids : Open(u)' <=> Open(u)
           /\ active_transactions_cache' \subseteq Tids
           /\ session' \in [Tids -> Places]
           /\ unlogged' \in [Tids -> SUBSET Changes]
           /\ CommitsAlone'
<1>1. Typed /\ mtx = "free"
    BY DEF Inv, write_log, Running
<1>2. \A u \in Tids : session[u] # "committing"
    BY <1>1, NobodyCommits
<1> QED
    BY <1>1, <1>2 DEF write_log, CommitsAlone, Typed, Places, Open

LEMMA DroppedRecords ==
    ASSUME Inv, NEW t \in Tids, write_log(t), Skips
    PROVE  Inv'
<1>1. /\ process = "up" /\ process' = process /\ birth' = birth /\ InUse
    BY DEF write_log, Running, bounds, InUse
<1>2. \A u \in Tids : Open(u)' <=> Open(u)
    BY LogsOnly
<1>3. LogTyped' /\ Kept' /\ Numbered(wal)'
    BY <1>1, <1>2, SkipKeeps
<1> QED
    BY <1>1, <1>3, LogsOnly, Enough DEF InUse

LEMMA TransactionSteps ==
    ASSUME Inv, NEW t \in Tids,
           \/ begin_transaction(t)
           \/ /\ write_log(t)
              /\ \E c \in unlogged[t] : Push(Record(t, c.operation, c.old_value, c.new_value))
           \/ commit_log(t) \/ abort_log(t)
    PROVE  Inv'
<1>1. Typed /\ process = "up" /\ mtx = "free" /\ InUse
    BY DEF Inv, begin_transaction, write_log, commit_log, abort_log, Running, InUse
<1>2. \A u \in Tids : session[u] # "committing"
    BY <1>1, NobodyCommits
<1>3. process' = process /\ birth' = birth
    BY DEF begin_transaction, write_log, commit_log, abort_log, bounds
<1>4. PICK op \in DataOperations \cup EndOperations \cup {"BEGIN"},
           old \in Row \cup {NoRow}, new \in Row \cup {NoRow} :
        /\ Push(Record(t, op, old, new)) \/ AppendAndFlush(Record(t, op, old, new))
        /\ \A u \in Tids : Open(u)' <=>
               IF t = u /\ op = "BEGIN" THEN TRUE
               ELSE IF t = u /\ op \in EndOperations THEN FALSE
               ELSE Open(u)
        /\ active_transactions_cache' \subseteq Tids
        /\ session' \in [Tids -> Places]
        /\ unlogged' \in [Tids -> SUBSET Changes]
        /\ CommitsAlone'
    <2> USE DEF Typed, Places, Open, EndOperations, DataOperations
    <2>1. CASE begin_transaction(t)
        <3>1. Push(Record(t, "BEGIN", NoRow, NoRow))
            BY <2>1 DEF begin_transaction
        <3>2. /\ \A u \in Tids : Open(u)' <=> t = u \/ Open(u)
              /\ active_transactions_cache' \subseteq Tids
              /\ session' \in [Tids -> Places]
              /\ unlogged' \in [Tids -> SUBSET Changes]
              /\ CommitsAlone'
            BY <1>1, <1>2, <2>1 DEF begin_transaction, CommitsAlone
        <3> QED
            BY <3>1, <3>2
    <2>2. CASE /\ write_log(t)
               /\ \E c \in unlogged[t] : Push(Record(t, c.operation, c.old_value, c.new_value))
        <3>1. PICK c \in unlogged[t] : Push(Record(t, c.operation, c.old_value, c.new_value))
            BY <2>2
        <3>2. c \in Changes
            BY <1>1
        <3>3. /\ \A u \in Tids : Open(u)' <=> Open(u)
              /\ active_transactions_cache' \subseteq Tids
              /\ session' \in [Tids -> Places]
              /\ unlogged' \in [Tids -> SUBSET Changes]
              /\ CommitsAlone'
            BY <2>2, LogsOnly
        <3>4. /\ c.operation \in DataOperations
              /\ c.old_value \in Row \cup {NoRow} /\ c.new_value \in Row \cup {NoRow}
              /\ c.operation # "BEGIN" /\ c.operation \notin EndOperations
            BY <3>2 DEF Changes
        <3> QED
            BY <3>1, <3>3, <3>4
    <2>3. CASE commit_log(t)
        <3>1. AppendAndFlush(Record(t, "COMMIT", NoRow, NoRow))
            BY <2>3 DEF commit_log
        <3>2. /\ \A u \in Tids : Open(u)' <=> t # u /\ Open(u)
              /\ active_transactions_cache' \subseteq Tids
              /\ session' \in [Tids -> Places]
              /\ unlogged' \in [Tids -> SUBSET Changes]
              /\ CommitsAlone'
            BY <1>1, <1>2, <2>3 DEF commit_log, CommitsAlone
        <3> QED
            BY <3>1, <3>2
    <2>4. CASE abort_log(t)
        <3>1. AppendAndFlush(Record(t, "ABORT", NoRow, NoRow))
            BY <2>4 DEF abort_log
        <3>2. /\ \A u \in Tids : Open(u)' <=> t # u /\ Open(u)
              /\ active_transactions_cache' \subseteq Tids
              /\ session' \in [Tids -> Places]
              /\ unlogged' \in [Tids -> SUBSET Changes]
              /\ CommitsAlone'
            BY <1>1, <1>2, <2>4 DEF abort_log, CommitsAlone
        <3> QED
            BY <3>1, <3>2
    <2> QED
        BY <2>1, <2>2, <2>3, <2>4
<1>5. LogTyped' /\ Kept' /\ Numbered(wal)'
    <2> DEFINE e == Record(t, op, old, new)
    <2>0. Typed
        BY <1>1
    <2>1. /\ e \in LogEntry /\ e.log_id = next_log_id
          /\ e.transaction_id = t /\ e.operation = op
        BY <2>0, RecordsAreEntries
    <2>2. \A u \in Tids : Open(u)' <=>
               IF e.transaction_id = u /\ e.operation = "BEGIN" THEN TRUE
               ELSE IF e.transaction_id = u /\ e.operation \in EndOperations THEN FALSE
               ELSE Open(u)
        BY <1>4, <2>1
    <2>3. Push(e) \/ AppendAndFlush(e)
        BY <1>4
    <2> HIDE DEF e
    <2> QED
        BY <1>1, <1>3, <2>1, <2>2, <2>3, AppendKeeps
<1> QED
    BY <1>1, <1>3, <1>4, <1>5, Enough DEF InUse

LEMMA LoggingSteps ==
    ASSUME Inv, NEW t \in Tids,
           \/ begin_transaction(t) \/ write_log(t) \/ commit_log(t) \/ abort_log(t)
    PROVE  Inv'
<1>1. CASE write_log(t)
    <2>1. PICK c \in unlogged[t] : LogOrDrop(t, c)
        BY <1>1 DEF write_log
    <2>2. CASE Push(Record(t, c.operation, c.old_value, c.new_value))
        BY <1>1, <2>2, TransactionSteps
    <2>3. CASE Skips
        BY <1>1, <2>3, DroppedRecords
    <2> QED
        BY <2>1, <2>2, <2>3 DEF LogOrDrop, Skips
<1> QED
    BY <1>1, TransactionSteps

(* A step that leaves the log as it is, but for a flush.                   *)
Quietly ==
    /\ InUse /\ InUse' /\ birth' = birth
    /\ flush_buffer \/ UNCHANGED log
    /\ \A u \in Tids : Open(u)' <=> Open(u)
    /\ active_transactions_cache' \subseteq Tids
    /\ session' \in [Tids -> Places]
    /\ unlogged' \in [Tids -> SUBSET Changes]
    /\ CommitsAlone'

LEMMA QuietlyKeeps ==
    ASSUME Inv, Quietly
    PROVE  Inv'
<1>1. LogTyped' /\ Kept' /\ Numbered(wal)'
    BY FlushKeeps DEF Quietly
<1> QED
    BY <1>1, Enough DEF Quietly, InUse

LEMMA ChangesAreQuiet ==
    ASSUME Inv, NEW t \in Tids, NEW op \in DataOperations, NEW K, NEW rows,
           NEW old \in Row \cup {NoRow}, NEW new \in Row \cup {NoRow},
           Change(t, op, K, rows, old, new)
    PROVE  Inv'
<1> DEFINE c == [operation |-> op, old_value |-> old, new_value |-> new]
<1>1. Typed /\ CommitsAlone /\ c \in Changes
    BY DEF Inv, Changes
<1>2. /\ process = "up" /\ process' = process /\ UNCHANGED <<log, active_transactions_cache, mtx, birth>>
      /\ session[t] = "open" /\ session' = [session EXCEPT ![t] = "writing"]
      /\ unlogged' = [unlogged EXCEPT ![t] = {c}]
    BY DEF Change, bounds
<1>3. unlogged' \in [Tids -> SUBSET Changes] /\ session' \in [Tids -> Places]
    BY <1>1, <1>2 DEF Typed, Places
<1>4. \A u \in Tids : session'[u] = "committing" <=> session[u] = "committing"
    BY <1>1, <1>2 DEF Typed
<1> HIDE DEF c
<1>5. Quietly
    BY <1>1, <1>2, <1>3, <1>4 DEF Quietly, InUse, Open, CommitsAlone, Typed
<1> QED
    BY <1>5, QuietlyKeeps

LEMMA StatementSteps ==
    ASSUME Inv, NEW t \in Tids,
           \/ \E row \in Row : execute_insert(t, row) \/ execute_update_unconditional(t, row)
           \/ \E K \in WhereSets : execute_delete(t, K)
                                 \/ \E v \in Values : execute_update(t, K, v)
    PROVE  Inv'
<1> USE DEF DataOperations
<1>1. ASSUME NEW row \in Row, execute_insert(t, row)
      PROVE  Inv'
    <2>1. Change(t, "INSERT", {row.key}, Insert(table, row), NoRow, row)
        BY <1>1 DEF execute_insert
    <2> QED
        BY <2>1, ChangesAreQuiet
<1>2. ASSUME NEW K \in WhereSets, execute_delete(t, K)
      PROVE  Inv'
    <2>1. PICK first \in Row : Change(t, "DELETE", K, Delete(table, K), first, NoRow)
        BY <1>2 DEF execute_delete, RowsOf
    <2> QED
        BY <2>1, ChangesAreQuiet
<1>3. ASSUME NEW K \in WhereSets, NEW v \in Values, execute_update(t, K, v)
      PROVE  Inv'
    <2>1. PICK first \in Row :
            Change(t, "UPDATE", K, SetValue(table, K, v), first, [first EXCEPT !.val = v])
        BY <1>3 DEF execute_update, RowsOf
    <2>2. [first EXCEPT !.val = v] \in Row
        BY DEF Row
    <2> QED
        BY <2>1, <2>2, ChangesAreQuiet
<1>4. ASSUME NEW row \in Row, execute_update_unconditional(t, row)
      PROVE  Inv'
    <2>1. PICK old \in Row \cup {NoRow}, new \in Row \cup {NoRow}, K \in SUBSET Keys :
            Change(t, "UPDATE", K, Insert(table, row), old, new)
        BY <1>4 DEF execute_update_unconditional, RowsOf, Row
    <2> QED
        BY <2>1, ChangesAreQuiet
<1> QED
    BY <1>1, <1>2, <1>3, <1>4

LEMMA EndingSteps ==
    ASSUME Inv, NEW t \in Tids,
           commit_data(t) \/ abort_check(t) \/ recover(t) \/ abort_data(t)
    PROVE  Inv'
<1>1. Typed /\ CommitsAlone
    BY DEF Inv
<1> USE DEF Typed, Places
<1>2. CASE commit_data(t)
    <2>1. /\ process = "up" /\ process' = process /\ birth' = birth /\ UNCHANGED log
          /\ active_transactions_cache' = active_transactions_cache \ {t}
          /\ session[t] = "committing" /\ session' = [session EXCEPT ![t] = "ended"]
          /\ unlogged' = unlogged
        BY <1>2 DEF commit_data, bounds
    <2>2. \A u \in Tids : session'[u] # "committing"
        BY <1>1, <2>1 DEF CommitsAlone
    <2>3. Quietly
        BY <1>1, <2>1, <2>2 DEF Quietly, InUse, Open, CommitsAlone
    <2> QED
        BY <2>3, QuietlyKeeps
<1>3. CASE abort_check(t) \/ recover(t) \/ abort_data(t)
    <2>1. /\ process = "up" /\ process' = process /\ birth' = birth
          /\ flush_buffer \/ UNCHANGED log
          /\ UNCHANGED <<active_transactions_cache, mtx, unlogged>>
          /\ session[t] # "committing"
        <3>1. CASE abort_check(t)
            BY <3>1 DEF abort_check, Running, bounds
        <3>2. CASE recover(t)
            BY <3>2 DEF recover, Running, bounds
        <3>3. CASE abort_data(t)
            BY <3>3 DEF abort_data, bounds
        <3> QED
            BY <1>3, <3>1, <3>2, <3>3
    <2>2. PICK place \in Places \ {"committing"} : session' = [session EXCEPT ![t] = place]
        BY <1>3 DEF abort_check, recover, abort_data
    <2>3. \A u \in Tids : session'[u] = "committing" <=> session[u] = "committing"
        BY <1>1, <2>1, <2>2
    <2>4. session' \in [Tids -> Places]
        BY <1>1, <2>2
    <2>5. Quietly
        BY <1>1, <2>1, <2>3, <2>4 DEF Quietly, InUse, Open, CommitsAlone
    <2> QED
        BY <2>5, QuietlyKeeps
<1> QED
    BY <1>2, <1>3

LEMMA CheckpointSteps ==
    ASSUME Inv,
           \/ checkpoint_begin \/ checkpoint_start \/ checkpoint_data \/ checkpoint_end
           \/ evict_page \/ exit
    PROVE  Inv'
<1>1. Typed /\ CommitsAlone /\ InUse
    BY DEF Inv, checkpoint_begin, checkpoint_start, checkpoint_data, checkpoint_end,
           CheckpointStep, evict_page, exit, Running, InUse
<1>2. CASE checkpoint_begin \/ checkpoint_data
    <2>1. /\ process' = process /\ mtx # "commit"
          /\ flush_buffer \/ UNCHANGED log
          /\ UNCHANGED <<active_transactions_cache, session, unlogged, birth>>
        <3>1. CASE checkpoint_begin
            BY <3>1 DEF checkpoint_begin, CheckpointStep, client, bounds
        <3>2. CASE checkpoint_data
            BY <3>2 DEF checkpoint_data, CheckpointStep, client, bounds
        <3> QED
            BY <1>2, <3>1, <3>2
    <2>2. \A u \in Tids : session'[u] # "committing"
        BY <2>1, NobodyCommits
    <2>3. Quietly
        BY <1>1, <2>1, <2>2 DEF Quietly, InUse, Open, CommitsAlone, Typed
    <2> QED
        BY <2>3, QuietlyKeeps
<1>3. CASE evict_page
    <2>1. UNCHANGED <<process, mtx, log, active_transactions_cache, session, unlogged, birth>>
        BY <1>3 DEF evict_page, client, bounds
    <2>2. Quietly
        BY <1>1, <2>1 DEF Quietly, InUse, Open, CommitsAlone, Typed
    <2> QED
        BY <2>2, QuietlyKeeps
<1>4. CASE exit
    <2>1. /\ process' = "exiting"
          /\ UNCHANGED <<mtx, log, active_transactions_cache, session, unlogged, birth>>
          /\ \A u \in Tids : session[u] # "committing"
        BY <1>4 DEF exit, client, bounds
    <2>2. Quietly
        BY <1>1, <2>1 DEF Quietly, InUse, Open, CommitsAlone, Typed
    <2> QED
        BY <2>2, QuietlyKeeps
<1>5. CASE checkpoint_start \/ checkpoint_end
    <2>1. PICK active \in SUBSET Tids : AppendAndFlush(CheckpointRecord(active))
        BY <1>1, <1>5 DEF checkpoint_start, checkpoint_end, Typed
    <2>2. /\ mtx # "commit"
          /\ UNCHANGED <<active_transactions_cache, session, unlogged, birth>>
          /\ process' \in {"up", "exiting", "exited"}
        BY <1>1, <1>5
        DEF checkpoint_start, checkpoint_end, CheckpointStep, client, bounds, InUse
    <2>3. \A u \in Tids : session'[u] # "committing"
        BY <2>2, NobodyCommits
    <2> DEFINE e == CheckpointRecord(active)
    <2>4. e \in LogEntry /\ e.log_id = next_log_id /\ e.transaction_id \notin Tids
        BY <1>1, CheckpointsAreEntries
    <2>5. \A u \in Tids : e.transaction_id # u /\ (Open(u)' <=> Open(u))
        BY <2>2, <2>4 DEF Open
    <2>6. Push(e) \/ AppendAndFlush(e)
        BY <2>1
    <2> HIDE DEF e
    <2>7. LogTyped' /\ Kept' /\ Numbered(wal)'
        BY <1>1, <2>2, <2>4, <2>5, <2>6, AppendKeeps
    <2>8. Typed' /\ CommitsAlone'
        BY <1>1, <2>2, <2>3, <2>7 DEF Typed, CommitsAlone
    <2> QED
        BY <2>2, <2>7, <2>8 DEF Inv
<1> QED
    BY <1>2, <1>3, <1>4, <1>5

LEMMA LifeSteps ==
    ASSUME Inv, crash \/ restart \/ recover_from_crash \/ remove_marker \/ construct
    PROVE  Inv'
<1>1. Typed /\ CommitsAlone /\ Numbered(wal)
    BY DEF Inv
<1> USE DEF Typed, Places
<1>2. CASE crash \/ restart
    <2>1. Vanish /\ birth' = birth
        BY <1>2 DEF crash, restart, bounds
    <2>2. Typed' /\ CommitsAlone' /\ Numbered(wal)'
        BY <1>1, <2>1 DEF Vanish, LogTyped, CommitsAlone, Changes
    <2>3. AtRest' /\ process' = "starting"
        BY <2>1 DEF Vanish, AtRest
    <2> QED
        BY <2>2, <2>3 DEF Inv, InUse
<1>3. CASE recover_from_crash \/ remove_marker
    <2>1. /\ process \in {"starting", "recovered"} /\ process' \in {"starting", "recovered"}
          /\ UNCHANGED <<log_buffer, wal, next_log_id, active_transactions_cache, session,
                         unlogged, birth>>
        BY <1>3 DEF recover_from_crash, remove_marker, log, client, bounds
    <2>2. AtRest /\ AtRest'
        BY <2>1 DEF Inv, AtRest
    <2>3. Typed' /\ CommitsAlone' /\ Numbered(wal)'
        BY <1>1, <2>1, <2>2 DEF LogTyped, CommitsAlone, AtRest
    <2> QED
        BY <2>1, <2>2, <2>3 DEF Inv, InUse
<1>4. CASE construct
    <2>1. /\ process = "starting" /\ process' = "up" /\ birth' = Len(wal)
          /\ next_log_id' = IF wal = <<>> THEN 1 ELSE Last(wal).log_id + 1
          /\ UNCHANGED <<log_buffer, wal, active_transactions_cache, session, unlogged>>
        BY <1>4 DEF construct, client
    <2>2. AtRest /\ wal \in Seq(LogEntry) /\ Len(wal) \in Nat
        BY <1>1, <2>1 DEF Inv, LogTyped
    <2>3. EverLogged' = wal
        BY <2>1, <2>2 DEF EverLogged, AtRest
    <2>4. next_log_id' \in Nat /\ Below(wal, next_log_id')
        <3>1. CASE wal = <<>>
            BY <2>1, <3>1 DEF Below
        <3>2. CASE wal # <<>>
            BY <1>1, <2>1, <2>2, <3>2, LastIsTheHighest
        <3> QED
            BY <3>1, <3>2
    <2>5. \A t \in Tids : ~Begun(wal, Len(wal) + 1, t)
        BY <2>2 DEF Begun
    <2>6. \A t \in Tids : ~Open(t)'
        BY <2>1, <2>2 DEF Open, AtRest
    <2>7. Kept'
        BY <1>1, <2>1, <2>2, <2>3, <2>4, <2>5, <2>6 DEF Kept
    <2>8. Typed' /\ CommitsAlone' /\ Numbered(wal)'
        BY <1>1, <2>1, <2>2, <2>4 DEF LogTyped, CommitsAlone, AtRest
    <2> QED
        BY <2>1, <2>7, <2>8 DEF Inv, InUse
<1> QED
    BY <1>2, <1>3, <1>4

LEMMA InitKeeps == Init => Inv
<1> SUFFICES ASSUME Init
             PROVE  Inv
    OBVIOUS
<1>1. Typed /\ CommitsAlone /\ Numbered(wal) /\ AtRest
    BY DEF Init, Typed, LogTyped, Places, Changes, CommitsAlone, Numbered, AtRest
<1> QED
    BY <1>1 DEF Inv, InUse, Init

LEMMA NextKeeps == Inv /\ [Next]_vars => Inv'
<1> SUFFICES ASSUME Inv, [Next]_vars
             PROVE  Inv'
    OBVIOUS
<1>1. ASSUME NEW t \in Tids,
             \/ begin_transaction(t)
             \/ \E row \in Row : execute_insert(t, row) \/ execute_update_unconditional(t, row)
             \/ \E K \in WhereSets :
                    execute_delete(t, K) \/ \E v \in Values : execute_update(t, K, v)
             \/ write_log(t) \/ commit_log(t) \/ commit_data(t)
             \/ abort_check(t) \/ recover(t) \/ abort_data(t) \/ abort_log(t)
      PROVE  Inv'
    BY <1>1, LoggingSteps, StatementSteps, EndingSteps
<1>2. CASE \/ checkpoint_begin \/ checkpoint_start \/ checkpoint_data \/ checkpoint_end
           \/ evict_page \/ exit
    BY <1>2, CheckpointSteps
<1>3. CASE crash \/ restart \/ recover_from_crash \/ remove_marker \/ construct
    BY <1>3, LifeSteps
<1>4. CASE UNCHANGED vars
    BY <1>4 DEF vars, Inv, Typed, LogTyped, CommitsAlone, InUse, Kept, EverLogged, Open,
                AtRest
<1> QED
    BY <1>1, <1>2, <1>3, <1>4 DEF Next

LEMMA InvAlways == Spec => []Inv
BY InitKeeps, NextKeeps, PTL DEF Spec

-----------------------------------------------------------------------------
(* The theorems.                                                           *)

(* The ids of the log grow along it and stay below the next one, over any  *)
(* number of lives, crashes and recoveries and whatever ids write_log took *)
(* without writing a record: what write_log, save_checkpoint and the       *)
(* constructor's scan of data/wal.bin do to next_log_id.                   *)
THEOREM LogIdsAlwaysIncrease == Spec => []LogIdsIncrease
<1>1. Inv => LogIdsIncrease
    <2> SUFFICES ASSUME Inv, InUse
                 PROVE  \A i \in DOMAIN EverLogged :
                            /\ EverLogged[i].log_id < next_log_id
                            /\ \A j \in DOMAIN EverLogged :
                                i < j => EverLogged[i].log_id < EverLogged[j].log_id
        BY DEF LogIdsIncrease, InUse
    <2>1. EverLogged \in Seq(LogEntry)
        BY DEF Inv, Typed, LogTyped, EverLogged
    <2>2. DOMAIN EverLogged = 1..Len(EverLogged)
        BY <2>1
    <2> QED
        BY <2>2 DEF Inv, Kept, Numbered, Below
<1> QED
    BY <1>1, InvAlways, PTL

(* active_transactions_cache holds the transactions that the log shows as  *)
(* begun and not ended since the process started, at every step of begin,  *)
(* commit and abort but the one between the COMMIT record and the data: a  *)
(* checkpoint lists the right ones.                                        *)
THEOREM CacheAlwaysMatchesLog == Spec => []CacheMatchesLog
<1>1. Inv => CacheMatchesLog
    <2> SUFFICES ASSUME Inv, InUse, mtx # "commit"
                 PROVE  active_transactions_cache =
                            {t \in Tids : Begun(EverLogged, birth + 1, t)}
        BY DEF CacheMatchesLog, InUse, Begun
    <2>1. \A t \in Tids : Begun(EverLogged, birth + 1, t) <=> t \in active_transactions_cache
        BY NobodyCommits DEF Inv, Kept, Open
    <2> QED
        BY <2>1 DEF Inv, Typed
<1> QED
    BY <1>1, InvAlways, PTL

-----------------------------------------------------------------------------
Tables == [Row -> Nat]

(* The rows of S with key k.                                               *)
At(S, k) == S \cap WithKey({k})

(* There are finitely many rows with one key, because there are finitely   *)
(* many values.                                                            *)
LEMMA RowsWithAKeyAreFinite ==
    ASSUME NEW k
    PROVE  IsFiniteSet(WithKey({k}))
<1> DEFINE f == [r \in WithKey({k}) |-> r.val]
<1>1. f \in Injection(WithKey({k}), Values)
    BY DEF Injection, IsInjective, WithKey, Row
<1> HIDE DEF f
<1> QED
    BY <1>1, FS_Injection, ValuesAssumption

(* The copies of the rows with a key are a natural number, positive when   *)
(* one of them is in the table.                                            *)
LEMMA CopiesCount ==
    ASSUME NEW t \in Tables, NEW k
    PROVE  /\ Copies(t, {k}) \in Nat
           /\ Copies(t, {k}) > 0 <=> At(RowsOf(t), k) # {}
<1> DEFINE S == WithKey({k})
           f == [r \in S |-> t[r]]
<1>1. f \in [S -> Nat] /\ \A r \in S : f[r] = t[r]
    BY DEF Tables, WithKey
<1>2. Copies(t, {k}) = SumOf(f, S)
    BY DEF Copies, SumOf, MapThenSumSet, MapThenFoldSet
<1>3. IsFiniteSet(S)
    BY RowsWithAKeyAreFinite
<1>4. \A r \in S : r \in Row /\ t[r] \in Nat
    BY DEF Tables, WithKey
<1> HIDE DEF f, S
<1>5. SumOf(f, S) \in Nat /\ (SumOf(f, S) = 0 <=> \A x \in S : f[x] = 0)
    BY <1>1, <1>3, SumIsPositive
<1>6. At(RowsOf(t), k) # {} <=> \E r \in S : t[r] > 0
    BY <1>4 DEF At, RowsOf, S
<1> QED
    BY <1>1, <1>2, <1>4, <1>5, <1>6

-----------------------------------------------------------------------------
(* The primary key a change is about.                                      *)
KeyOf(e) == IF e.operation = "INSERT" THEN e.new_value.key ELSE e.old_value.key

(* A change as the query processor logs it.                                *)
Shaped(e) ==
    \/ e.operation = "INSERT" /\ e.new_value \in Row
    \/ e.operation = "DELETE" /\ e.old_value \in Row
    \/ /\ e.operation = "UPDATE"
       /\ e.old_value \in Row /\ e.new_value \in Row
       /\ e.old_value.key = e.new_value.key

(* Insert adds its row.                                                    *)
LEMMA InsertIs ==
    ASSUME NEW t \in Tables, NEW row
    PROVE  /\ Insert(t, row) \in Tables
           /\ row \in Row => RowsOf(Insert(t, row)) = RowsOf(t) \cup {row}
<1> DEFINE u == [t EXCEPT ![row] = @ + 1]
<1>1. DOMAIN t = Row /\ \A r \in Row : t[r] \in Nat
    BY DEF Tables
<1>2. \A r \in Row : u[r] = IF r = row THEN t[r] + 1 ELSE t[r]
    BY <1>1
<1>3. u \in [Row -> Nat]
    <2>1. DOMAIN u = Row /\ u = [r \in Row |-> u[r]]
        BY <1>1
    <2>2. \A r \in Row : u[r] \in Nat
        BY <1>1, <1>2
    <2> HIDE DEF u
    <2> QED
        BY <2>1, <2>2
<1> HIDE DEF u
<1>4. row \in Row => {r \in Row : u[r] > 0} = {r \in Row : t[r] > 0} \cup {row}
    BY <1>1, <1>2
<1> QED
    BY <1>3, <1>4 DEF Insert, Tables, RowsOf, u

(* Delete takes the rows with the keys of K.                               *)
LEMMA DeleteIs ==
    ASSUME NEW t \in Tables, NEW K
    PROVE  /\ Delete(t, K) \in Tables
           /\ RowsOf(Delete(t, K)) = RowsOf(t) \ WithKey(K)
BY DEF Delete, Tables, RowsOf, WithKey

(* Replace puts a row of key k in the place of those with key k, if there  *)
(* are any.                                                                *)
LEMMA ReplaceIs ==
    ASSUME NEW t \in Tables, NEW k, NEW row
    PROVE  /\ Replace(t, k, row) \in Tables
           /\ row \in Row /\ row.key = k =>
                \A r : r \in RowsOf(Replace(t, k, row)) <=>
                    \/ r \in RowsOf(t) /\ r.key # k
                    \/ r = row /\ At(RowsOf(t), k) # {}
<1> DEFINE n == Copies(t, {k})
           d == Delete(t, {k})
<1>1. n \in Nat /\ (n > 0 <=> At(RowsOf(t), k) # {})
    BY CopiesCount
<1>2. d \in Tables /\ RowsOf(d) = RowsOf(t) \ WithKey({k})
    BY DeleteIs
<1>3. Replace(t, k, row) = [d EXCEPT ![row] = @ + n]
    BY DEF Replace
<1>4. row \in Row /\ row.key = k => d[row] = 0
    BY DEF Delete
<1> HIDE DEF n, d
<1> DEFINE u == [d EXCEPT ![row] = @ + n]
<1>5. DOMAIN d = Row /\ \A r \in Row : d[r] \in Nat
    BY <1>2 DEF Tables
<1>6. \A r \in Row : u[r] = IF r = row THEN d[r] + n ELSE d[r]
    BY <1>5
<1>7. u \in [Row -> Nat]
    <2>1. DOMAIN u = Row /\ u = [r \in Row |-> u[r]]
        BY <1>5
    <2>2. \A r \in Row : u[r] \in Nat
        BY <1>1, <1>5, <1>6
    <2> HIDE DEF u
    <2> QED
        BY <2>1, <2>2
<1> HIDE DEF u
<1>8. ASSUME row \in Row, row.key = k
      PROVE  \A r : r \in Row /\ u[r] > 0 <=>
                       \/ r \in RowsOf(d)
                       \/ r = row /\ At(RowsOf(t), k) # {}
    BY <1>1, <1>4, <1>5, <1>6, <1>8 DEF RowsOf
<1> QED
    BY <1>2, <1>3, <1>7, <1>8 DEF Tables, RowsOf, u, WithKey

(* SetValue leaves the one row of key k with value v, if there was a row   *)
(* with key k.                                                             *)
LEMMA SetValueIs ==
    ASSUME NEW t \in Tables, NEW k, NEW v \in Values
    PROVE  /\ SetValue(t, {k}, v) \in Tables
           /\ At(RowsOf(t), k) # {} =>
                RowsOf(SetValue(t, {k}, v)) =
                    (RowsOf(t) \ WithKey({k})) \cup {r \in Row : r.key = k /\ r.val = v}
<1> DEFINE n == Copies(t, {k})
           u == SetValue(t, {k}, v)
<1>1. n \in Nat /\ (n > 0 <=> At(RowsOf(t), k) # {})
    BY CopiesCount
<1>2. u = [r \in Row |-> IF r.key # k THEN t[r] ELSE IF r.val = v THEN n ELSE 0]
    <2>1. \A r \in Row : r.key = k => Copies(t, {r.key}) = n
        OBVIOUS
    <2> HIDE DEF n
    <2> QED
        BY <2>1 DEF SetValue
<1> HIDE DEF n, u
<1>3. u \in Tables
    BY <1>1, <1>2 DEF Tables
<1>4. ASSUME At(RowsOf(t), k) # {}
      PROVE  RowsOf(u) = (RowsOf(t) \ WithKey({k})) \cup {r \in Row : r.key = k /\ r.val = v}
    <2>1. n > 0
        BY <1>1, <1>4
    <2> QED
        BY <1>1, <1>2, <2>1 DEF RowsOf, WithKey
<1> QED
    BY <1>3, <1>4 DEF u

(* What undo_operation does to the rows of each key.                       *)
LEMMA UndoIs ==
    ASSUME NEW t \in Tables, NEW e, IsData(e)
    PROVE  /\ undo_operation(t, e) \in Tables
           /\ Shaped(e) => \A k \in Keys :
                At(RowsOf(undo_operation(t, e)), k) =
                    IF KeyOf(e) # k THEN At(RowsOf(t), k)
                    ELSE IF e.operation = "INSERT" THEN {}
                    ELSE IF e.operation = "DELETE" THEN At(RowsOf(t), k) \cup {e.old_value}
                    ELSE IF At(RowsOf(t), k) = {} THEN {} ELSE {e.old_value}
<1>1. CASE e.operation = "INSERT"
    <2>1. undo_operation(t, e) = Delete(t, {e.new_value.key})
        BY <1>1 DEF undo_operation
    <2>2. /\ Delete(t, {e.new_value.key}) \in Tables
          /\ RowsOf(Delete(t, {e.new_value.key})) = RowsOf(t) \ WithKey({e.new_value.key})
        BY DeleteIs
    <2> QED
        BY <1>1, <2>1, <2>2 DEF At, WithKey, KeyOf
<1>2. CASE e.operation = "DELETE"
    <2>1. undo_operation(t, e) = Insert(t, e.old_value)
        BY <1>2 DEF undo_operation
    <2>2. /\ Insert(t, e.old_value) \in Tables
          /\ e.old_value \in Row => RowsOf(Insert(t, e.old_value)) = RowsOf(t) \cup {e.old_value}
        BY InsertIs
    <2>3. Shaped(e) => e.old_value \in Row
        BY <1>2 DEF Shaped
    <2> QED
        BY <1>2, <2>1, <2>2, <2>3 DEF At, WithKey, KeyOf
<1>3. CASE e.operation = "UPDATE"
    <2> DEFINE j == e.new_value.key
               row == e.old_value
    <2>1. undo_operation(t, e) = Replace(t, j, row)
        BY <1>3 DEF undo_operation
    <2>3. Shaped(e) => row \in Row /\ row.key = j /\ KeyOf(e) = j
        BY <1>3 DEF Shaped, KeyOf
    <2> HIDE DEF j, row
    <2>2. /\ Replace(t, j, row) \in Tables
          /\ row \in Row /\ row.key = j =>
                \A r : r \in RowsOf(Replace(t, j, row)) <=>
                    \/ r \in RowsOf(t) /\ r.key # j
                    \/ r = row /\ At(RowsOf(t), j) # {}
        BY ReplaceIs
    <2> QED
        BY <1>3, <2>1, <2>2, <2>3 DEF At, WithKey, row
<1> QED
    BY <1>1, <1>2, <1>3 DEF IsData, DataOperations

(* What redo_operation does to the rows of each key.                       *)
LEMMA RedoIs ==
    ASSUME NEW t \in Tables, NEW e, IsData(e)
    PROVE  /\ redo_operation(t, e) \in Tables
           /\ Shaped(e) => \A k \in Keys :
                At(RowsOf(redo_operation(t, e)), k) =
                    IF KeyOf(e) # k THEN At(RowsOf(t), k)
                    ELSE IF e.operation = "INSERT" THEN At(RowsOf(t), k) \cup {e.new_value}
                    ELSE IF e.operation = "DELETE" THEN {}
                    ELSE IF At(RowsOf(t), k) = {} THEN {} ELSE {e.new_value}
<1>1. CASE e.operation = "INSERT"
    <2>1. redo_operation(t, e) = Insert(t, e.new_value)
        BY <1>1 DEF redo_operation
    <2>2. /\ Insert(t, e.new_value) \in Tables
          /\ e.new_value \in Row => RowsOf(Insert(t, e.new_value)) = RowsOf(t) \cup {e.new_value}
        BY InsertIs
    <2>3. Shaped(e) => e.new_value \in Row
        BY <1>1 DEF Shaped
    <2> QED
        BY <1>1, <2>1, <2>2, <2>3 DEF At, WithKey, KeyOf
<1>2. CASE e.operation = "DELETE"
    <2>1. redo_operation(t, e) = Delete(t, {e.old_value.key})
        BY <1>2 DEF redo_operation
    <2>2. /\ Delete(t, {e.old_value.key}) \in Tables
          /\ RowsOf(Delete(t, {e.old_value.key})) = RowsOf(t) \ WithKey({e.old_value.key})
        BY DeleteIs
    <2> QED
        BY <1>2, <2>1, <2>2 DEF At, WithKey, KeyOf
<1>3. CASE e.operation = "UPDATE"
    <2> DEFINE j == e.new_value.key
    <2>1. redo_operation(t, e) = Replace(t, j, e.new_value)
        BY <1>3 DEF redo_operation
    <2>2. /\ Replace(t, j, e.new_value) \in Tables
          /\ e.new_value \in Row /\ e.new_value.key = j =>
                \A r : r \in RowsOf(Replace(t, j, e.new_value)) <=>
                    \/ r \in RowsOf(t) /\ r.key # j
                    \/ r = e.new_value /\ At(RowsOf(t), j) # {}
        BY ReplaceIs
    <2>3. Shaped(e) => e.new_value \in Row /\ KeyOf(e) = j
        BY <1>3 DEF Shaped, KeyOf
    <2> QED
        BY <1>3, <2>1, <2>2, <2>3 DEF At, WithKey
<1> QED
    BY <1>1, <1>2, <1>3 DEF IsData, DataOperations

-----------------------------------------------------------------------------
(* What an entry of the log does in the folds of the recovery.             *)
RedoStep(tids) ==
    [e \in LogEntry |-> [t \in Tables |->
        IF e.transaction_id \in tids /\ IsData(e) THEN redo_operation(t, e) ELSE t]]

(* The redo of a log is a fold whose steps map tables to tables.           *)
LEMMA RedoneIsAFold ==
    ASSUME NEW s \in Seq(LogEntry), NEW b \in Tables, NEW tids
    PROVE  /\ Moves(Tables, LogEntry, RedoStep(tids))
           /\ Redone(s, b, tids) = LeftFold(RedoStep(tids), b, s)
<1> DEFINE step == RedoStep(tids)
           N == Len(s)
           Takes(e) == e.transaction_id \in tids /\ IsData(e)
           Fits(f) == f = [i \in SUBSET (DOMAIN s) |->
                              IF i = {} THEN b
                              ELSE IF s[Max(i)].transaction_id \in tids /\ IsData(s[Max(i)])
                                   THEN redo_operation(f[i \ {Max(i)}], s[Max(i)])
                                   ELSE f[i \ {Max(i)}]]
           c == CHOOSE f : Fits(f)
<1>1. /\ Moves(Tables, LogEntry, step)
      /\ \A e \in LogEntry, t \in Tables :
            step[e][t] = IF e.transaction_id \in tids /\ IsData(e)
                         THEN redo_operation(t, e) ELSE t
    <2>1. \A e \in LogEntry, t \in Tables :
            (IF e.transaction_id \in tids /\ IsData(e) THEN redo_operation(t, e) ELSE t) \in Tables
        BY RedoIs
    <2> QED
        BY <2>1 DEF Moves, RedoStep
<1> HIDE DEF step
<1>2. N \in Nat /\ DOMAIN s = 1..N /\ \A n \in 1..N : s[n] \in LogEntry
    OBVIOUS
<1>3. Redone(s, b, tids) = c[DOMAIN s]
    BY DEF Redone, FoldLeft, MapThenFoldSet
<1> HIDE DEF N
<1>4. \E f : Fits(f)
    <2>1. PICK f : LeftValues(Tables, LogEntry, step, b, s, f)
        BY <1>1, LeftFoldHas
    <2>2. Fits(f)
        BY <1>1, <1>2, <2>1 DEF LeftValues, N
    <2> QED
        BY <2>2
<1>5. c = [i \in SUBSET (1..N) |->
              IF i = {} THEN b
              ELSE IF s[Max(i)].transaction_id \in tids /\ IsData(s[Max(i)])
                   THEN redo_operation(c[i \ {Max(i)}], s[Max(i)])
                   ELSE c[i \ {Max(i)}]]
    <2> HIDE DEF Fits
    <2>1. Fits(c)
        BY <1>4
    <2> QED
        BY <1>2, <2>1 DEF Fits
<1> HIDE DEF c
<1>6. c[{}] = b
    BY <1>5
<1>7. ASSUME NEW n \in 1..N, c[1..(n - 1)] \in Tables
      PROVE  c[1..n] = step[s[n]][c[1..(n - 1)]]
    <2>1. n \in Nat /\ n # 0 /\ 1..n \in SUBSET (1..N) /\ s[n] \in LogEntry
        BY <1>2
    <2>2. Max(1..n) = n /\ (1..n) \ {n} = 1..(n - 1) /\ 1..n # {}
        BY <2>1, InitialPart
    <2>3. c[1..n] = IF s[n].transaction_id \in tids /\ IsData(s[n])
                    THEN redo_operation(c[1..(n - 1)], s[n]) ELSE c[1..(n - 1)]
        BY <1>5, <2>1, <2>2
    <2> QED
        BY <1>1, <1>7, <2>1, <2>3
<1>8. c[DOMAIN s] = LeftFold(step, b, s)
    BY <1>1, <1>6, <1>7, LeftFoldFrom DEF N
<1> QED
    BY <1>1, <1>3, <1>8 DEF step

(* The redo of a log with one more record redoes that record last.         *)
LEMMA RedoneLaws ==
    ASSUME NEW s \in Seq(LogEntry), NEW b \in Tables, NEW tids
    PROVE  /\ Redone(s, b, tids) \in Tables
           /\ Redone(<<>>, b, tids) = b
           /\ \A e \in LogEntry :
                Redone(Append(s, e), b, tids) =
                    IF e.transaction_id \in tids /\ IsData(e)
                    THEN redo_operation(Redone(s, b, tids), e) ELSE Redone(s, b, tids)
<1> DEFINE step == RedoStep(tids)
<1>1. Moves(Tables, LogEntry, step)
    BY RedoneIsAFold
<1>2. \A r \in Seq(LogEntry) : Redone(r, b, tids) = LeftFold(step, b, r)
    BY RedoneIsAFold
<1>3. \A e \in LogEntry, t \in Tables :
            step[e][t] = IF e.transaction_id \in tids /\ IsData(e)
                         THEN redo_operation(t, e) ELSE t
    BY DEF RedoStep
<1> HIDE DEF step
<1>4. /\ LeftFold(step, b, s) \in Tables
      /\ LeftFold(step, b, <<>>) = b
      /\ \A e \in LogEntry : LeftFold(step, b, Append(s, e)) = step[e][LeftFold(step, b, s)]
    BY <1>1, LeftFoldLaws
<1>5. <<>> \in Seq(LogEntry) /\ \A e \in LogEntry : Append(s, e) \in Seq(LogEntry)
    OBVIOUS
<1>6. Redone(<<>>, b, tids) = b
    BY <1>2, <1>4, <1>5, Zenon
<1>7. Redone(s, b, tids) \in Tables
    BY <1>2, <1>4
<1>8. ASSUME NEW e \in LogEntry
      PROVE  Redone(Append(s, e), b, tids) = step[e][Redone(s, b, tids)]
    BY <1>2, <1>4, <1>5, Zenon
<1> QED
    BY <1>3, <1>6, <1>7, <1>8

-----------------------------------------------------------------------------
UndoStep(tid) ==
    [e \in LogEntry |-> [t \in Tables |->
        IF e.transaction_id = tid /\ IsData(e) THEN undo_operation(t, e) ELSE t]]

(* The undo of a log is a fold whose steps map tables to tables.           *)
LEMMA UndoneIsAFold ==
    ASSUME NEW s \in Seq(LogEntry), NEW b \in Tables, NEW tid
    PROVE  /\ Moves(Tables, LogEntry, UndoStep(tid))
           /\ Undone(s, b, tid) = RightFold(UndoStep(tid), s, b)
<1> DEFINE step == UndoStep(tid)
           N == Len(s)
           Fits(f) == f = [i \in SUBSET (DOMAIN s) |->
                              IF i = {} THEN b
                              ELSE IF s[Min(i)].transaction_id = tid /\ IsData(s[Min(i)])
                                   THEN undo_operation(f[i \ {Min(i)}], s[Min(i)])
                                   ELSE f[i \ {Min(i)}]]
           c == CHOOSE f : Fits(f)
<1>1. /\ Moves(Tables, LogEntry, step)
      /\ \A e \in LogEntry, t \in Tables :
            step[e][t] = IF e.transaction_id = tid /\ IsData(e)
                         THEN undo_operation(t, e) ELSE t
    <2>1. \A e \in LogEntry, t \in Tables :
            (IF e.transaction_id = tid /\ IsData(e) THEN undo_operation(t, e) ELSE t) \in Tables
        BY UndoIs
    <2> QED
        BY <2>1 DEF Moves, UndoStep
<1> HIDE DEF step
<1>2. N \in Nat /\ DOMAIN s = 1..N /\ \A n \in 1..N : s[n] \in LogEntry
    OBVIOUS
<1>3. Undone(s, b, tid) = c[DOMAIN s]
    BY DEF Undone, FoldRight, MapThenFoldSet
<1> HIDE DEF N
<1>4. \E f : Fits(f)
    <2>1. PICK f : RightValues(Tables, LogEntry, step, b, s, f)
        BY <1>1, RightFoldHas
    <2>2. Fits(f)
        BY <1>1, <1>2, <2>1 DEF RightValues, N
    <2> QED
        BY <2>2
<1>5. c = [i \in SUBSET (1..N) |->
              IF i = {} THEN b
              ELSE IF s[Min(i)].transaction_id = tid /\ IsData(s[Min(i)])
                   THEN undo_operation(c[i \ {Min(i)}], s[Min(i)])
                   ELSE c[i \ {Min(i)}]]
    <2> HIDE DEF Fits
    <2>1. Fits(c)
        BY <1>4
    <2> QED
        BY <1>2, <2>1 DEF Fits
<1> HIDE DEF c
<1>6. c[{}] = b
    BY <1>5
<1>7. ASSUME NEW n \in 1..N, c[(n + 1)..N] \in Tables
      PROVE  c[n..N] = step[s[n]][c[(n + 1)..N]]
    <2>1. n..N \in SUBSET (1..N) /\ s[n] \in LogEntry
        BY <1>2
    <2>2. Min(n..N) = n /\ (n..N) \ {n} = (n + 1)..N /\ n..N # {}
        BY <1>2, FinalPart
    <2>3. c[n..N] = IF s[n].transaction_id = tid /\ IsData(s[n])
                    THEN undo_operation(c[(n + 1)..N], s[n]) ELSE c[(n + 1)..N]
        BY <1>5, <2>1, <2>2
    <2> QED
        BY <1>1, <1>7, <2>1, <2>3
<1>8. c[DOMAIN s] = RightFold(step, s, b)
    BY <1>1, <1>6, <1>7, RightFoldFrom DEF N
<1> QED
    BY <1>1, <1>3, <1>8 DEF step

(* The undo of a log with one more record undoes that record first.        *)
LEMMA UndoneLaws ==
    ASSUME NEW s \in Seq(LogEntry), NEW b \in Tables, NEW tid
    PROVE  /\ Undone(s, b, tid) \in Tables
           /\ Undone(<<>>, b, tid) = b
           /\ \A e \in LogEntry :
                Undone(Append(s, e), b, tid) =
                    IF e.transaction_id = tid /\ IsData(e)
                    THEN Undone(s, undo_operation(b, e), tid) ELSE Undone(s, b, tid)
<1> DEFINE step == UndoStep(tid)
<1>1. Moves(Tables, LogEntry, step)
    BY UndoneIsAFold
<1>2. \A r \in Seq(LogEntry), t \in Tables : Undone(r, t, tid) = RightFold(step, r, t)
    BY UndoneIsAFold
<1>3. \A e \in LogEntry :
            /\ step[e][b] = IF e.transaction_id = tid /\ IsData(e) THEN undo_operation(b, e) ELSE b
            /\ step[e][b] \in Tables
    <2>1. \A e \in LogEntry : IsData(e) => undo_operation(b, e) \in Tables
        BY UndoIs
    <2> QED
        BY <2>1 DEF UndoStep
<1> HIDE DEF step
<1>4. /\ RightFold(step, s, b) \in Tables
      /\ RightFold(step, <<>>, b) = b
      /\ \A e \in LogEntry : RightFold(step, Append(s, e), b) = RightFold(step, s, step[e][b])
    BY <1>1, RightFoldLaws
<1>5. <<>> \in Seq(LogEntry) /\ \A e \in LogEntry : Append(s, e) \in Seq(LogEntry)
    OBVIOUS
<1>6. Undone(<<>>, b, tid) = b
    BY <1>2, <1>4, <1>5, Zenon
<1>7. Undone(s, b, tid) \in Tables
    BY <1>2, <1>4
<1>8. ASSUME NEW e \in LogEntry
      PROVE  Undone(Append(s, e), b, tid) = Undone(s, step[e][b], tid)
    BY <1>2, <1>3, <1>4, <1>5, Zenon
<1> QED
    BY <1>3, <1>6, <1>7, <1>8

-----------------------------------------------------------------------------
Who == Tids \cup {SystemTid}
Scans == [todo : SUBSET Who, table : Tables]

ScanStep == [e \in LogEntry |-> [x \in Scans |-> UndoUnlessBegun(e, x)]]

(* What the backward scan of recover_from_crash does with each kind of     *)
(* record.                                                                 *)
LEMMA ScanStepIs ==
    ASSUME NEW e \in LogEntry, NEW U \in SUBSET Who, NEW t \in Tables
    PROVE  /\ UndoUnlessBegun(e, [todo |-> U, table |-> t]) \in Scans
           /\ e.transaction_id \notin U =>
                UndoUnlessBegun(e, [todo |-> U, table |-> t]) = [todo |-> U, table |-> t]
           /\ e.transaction_id \in U /\ e.operation = "BEGIN" =>
                UndoUnlessBegun(e, [todo |-> U, table |-> t])
                    = [todo |-> U \ {e.transaction_id}, table |-> t]
           /\ e.transaction_id \in U /\ IsData(e) =>
                UndoUnlessBegun(e, [todo |-> U, table |-> t])
                    = [todo |-> U, table |-> undo_operation(t, e)]
           /\ e.operation # "BEGIN" /\ ~IsData(e) =>
                UndoUnlessBegun(e, [todo |-> U, table |-> t]) = [todo |-> U, table |-> t]
<1> DEFINE x == [todo |-> U, table |-> t]
           u == undo_operation(t, e)
<1>1. x \in Scans /\ x.todo = U /\ x.table = t
      /\ [x EXCEPT !.todo = @ \ {e.transaction_id}] = [todo |-> U \ {e.transaction_id}, table |-> t]
      /\ [x EXCEPT !.table = undo_operation(@, e)] = [todo |-> U, table |-> u]
    BY DEF Scans
<1>2. IsData(e) => u \in Tables
    BY UndoIs
<1>3. IsData(e) => e.operation # "BEGIN"
    BY DEF IsData, DataOperations
<1>4. [todo |-> U \ {e.transaction_id}, table |-> t] \in Scans
      /\ (IsData(e) => [todo |-> U, table |-> u] \in Scans)
    BY <1>2 DEF Scans
<1>5. UndoUnlessBegun(e, x) =
        IF e.transaction_id \notin x.todo THEN x
        ELSE CASE e.operation = "BEGIN" -> [x EXCEPT !.todo = @ \ {e.transaction_id}]
               [] IsData(e)             -> [x EXCEPT !.table = undo_operation(@, e)]
               [] OTHER                 -> x
    BY DEF UndoUnlessBegun
<1> HIDE DEF x, u
<1> QED
    BY <1>1, <1>3, <1>4, <1>5 DEF x, u

(* The backward scan is a fold whose steps map scans to scans.             *)
LEMMA ScanIsAFold ==
    ASSUME NEW s \in Seq(LogEntry), NEW b \in Scans
    PROVE  /\ Moves(Scans, LogEntry, ScanStep)
           /\ FoldRight(UndoUnlessBegun, s, b) = RightFold(ScanStep, s, b)
<1> DEFINE step == ScanStep
           N == Len(s)
           Fits(f) == f = [i \in SUBSET (DOMAIN s) |->
                              IF i = {} THEN b
                              ELSE UndoUnlessBegun(s[Min(i)], f[i \ {Min(i)}])]
           c == CHOOSE f : Fits(f)
<1>1. /\ Moves(Scans, LogEntry, step)
      /\ \A e \in LogEntry, x \in Scans : step[e][x] = UndoUnlessBegun(e, x)
    <2>1. ASSUME NEW e \in LogEntry, NEW x \in Scans PROVE UndoUnlessBegun(e, x) \in Scans
        <3>1. x = [todo |-> x.todo, table |-> x.table] /\ x.todo \in SUBSET Who /\ x.table \in Tables
            BY DEF Scans
        <3> DEFINE U == x.todo
                   t == x.table
        <3>2. x = [todo |-> U, table |-> t] /\ U \in SUBSET Who /\ t \in Tables
            BY <3>1
        <3> HIDE DEF U, t
        <3> QED
            BY <3>2, ScanStepIs
    <2> QED
        BY <2>1 DEF Moves, ScanStep
<1>a. Moves(Scans, LogEntry, step)
    BY <1>1
<1> HIDE DEF step
<1>2. N \in Nat /\ DOMAIN s = 1..N /\ \A n \in 1..N : s[n] \in LogEntry
    OBVIOUS
<1>3. FoldRight(UndoUnlessBegun, s, b) = c[DOMAIN s]
    BY DEF FoldRight, MapThenFoldSet
<1> HIDE DEF N
<1>4. \E f : Fits(f)
    <2>1. PICK f : RightValues(Scans, LogEntry, step, b, s, f)
        BY <1>1, RightFoldHas
    <2>2. Fits(f)
        BY <1>1, <1>2, <2>1 DEF RightValues, N
    <2> QED
        BY <2>2
<1>5. c = [i \in SUBSET (1..N) |->
              IF i = {} THEN b
              ELSE UndoUnlessBegun(s[Min(i)], c[i \ {Min(i)}])]
    <2> HIDE DEF Fits
    <2>1. Fits(c)
        BY <1>4
    <2> QED
        BY <1>2, <2>1 DEF Fits
<1> HIDE DEF c
<1>6. c[{}] = b
    BY <1>5
<1>7. ASSUME NEW n \in 1..N, c[(n + 1)..N] \in Scans
      PROVE  c[n..N] = step[s[n]][c[(n + 1)..N]]
    <2>1. n..N \in SUBSET (1..N) /\ s[n] \in LogEntry
        BY <1>2
    <2>2. Min(n..N) = n /\ (n..N) \ {n} = (n + 1)..N /\ n..N # {}
        BY <1>2, FinalPart
    <2>3. c[n..N] = UndoUnlessBegun(s[n], c[(n + 1)..N])
        BY <1>5, <2>1, <2>2
    <2> QED
        BY <1>1, <1>7, <2>1, <2>3
<1>8. c[DOMAIN s] = RightFold(step, s, b)
    BY <1>1, <1>6, <1>7, RightFoldFrom DEF N
<1> QED
    BY <1>1, <1>3, <1>8 DEF step

(* The backward scan of a log with one more record meets that record       *)
(* first.                                                                  *)
LEMMA UndoneToBeginLaws ==
    ASSUME NEW s \in Seq(LogEntry), NEW b \in Tables, NEW U \in SUBSET Who
    PROVE  /\ UndoneToBegin(s, b, U) \in Tables
           /\ UndoneToBegin(<<>>, b, U) = b
           /\ \A e \in LogEntry :
                /\ e.transaction_id \notin U \/ (e.operation # "BEGIN" /\ ~IsData(e)) =>
                     UndoneToBegin(Append(s, e), b, U) = UndoneToBegin(s, b, U)
                /\ e.transaction_id \in U /\ e.operation = "BEGIN" =>
                     UndoneToBegin(Append(s, e), b, U)
                        = UndoneToBegin(s, b, U \ {e.transaction_id})
                /\ e.transaction_id \in U /\ IsData(e) =>
                     UndoneToBegin(Append(s, e), b, U)
                        = UndoneToBegin(s, undo_operation(b, e), U)
<1> DEFINE Scan(r, t, V) == RightFold(ScanStep, r, [todo |-> V, table |-> t])
           x == [todo |-> U, table |-> b]
<1>0. \A V \in SUBSET Who, t \in Tables : [todo |-> V, table |-> t] \in Scans
    BY DEF Scans
<1>1. x \in Scans /\ Moves(Scans, LogEntry, ScanStep) /\ x.table = b
    BY <1>0, ScanIsAFold
<1>2. \A r \in Seq(LogEntry), t \in Tables, V \in SUBSET Who :
          UndoneToBegin(r, t, V) = Scan(r, t, V).table
    <2> TAKE r \in Seq(LogEntry), t \in Tables, V \in SUBSET Who
    <2> DEFINE y == [todo |-> V, table |-> t]
    <2>1. y \in Scans
        BY <1>0
    <2>2. UndoneToBegin(r, t, V) = FoldRight(UndoUnlessBegun, r, y).table
        BY DEF UndoneToBegin
    <2> HIDE DEF y
    <2>3. FoldRight(UndoUnlessBegun, r, y) = RightFold(ScanStep, r, y)
        BY <2>1, ScanIsAFold
    <2> QED
        BY <2>2, <2>3 DEF y
<1>3. /\ RightFold(ScanStep, s, x) \in Scans
      /\ RightFold(ScanStep, <<>>, x) = x
      /\ \A e \in LogEntry :
            RightFold(ScanStep, Append(s, e), x) = RightFold(ScanStep, s, ScanStep[e][x])
    <2> HIDE DEF x
    <2> QED
        BY <1>1, RightFoldLaws
<1>4. <<>> \in Seq(LogEntry) /\ \A e \in LogEntry : Append(s, e) \in Seq(LogEntry)
    OBVIOUS
<1>5. \A e \in LogEntry : ScanStep[e][x] = UndoUnlessBegun(e, x)
    BY <1>1 DEF ScanStep
<1>6. UndoneToBegin(<<>>, b, U) = b
    BY <1>1, <1>2, <1>3, <1>4, Zenon
<1>7. UndoneToBegin(s, b, U) \in Tables
    <2>1. RightFold(ScanStep, s, x).table \in Tables
        BY <1>3 DEF Scans
    <2> QED
        BY <1>2, <2>1
<1>8. \A e \in LogEntry :
          UndoneToBegin(Append(s, e), b, U) = RightFold(ScanStep, s, UndoUnlessBegun(e, x)).table
    <2> TAKE e \in LogEntry
    <2>1. UndoneToBegin(Append(s, e), b, U) = RightFold(ScanStep, Append(s, e), x).table
        BY <1>2, <1>4
    <2>2. RightFold(ScanStep, Append(s, e), x) = RightFold(ScanStep, s, UndoUnlessBegun(e, x))
        BY <1>3, <1>5
    <2> QED
        BY <2>1, <2>2
<1>9. ASSUME NEW e \in LogEntry, e.transaction_id \notin U \/ (e.operation # "BEGIN" /\ ~IsData(e))
      PROVE  UndoneToBegin(Append(s, e), b, U) = UndoneToBegin(s, b, U)
    <2>1. UndoUnlessBegun(e, x) = x
        BY <1>9, ScanStepIs
    <2> QED
        BY <1>2, <1>8, <2>1, Zenon
<1>10. ASSUME NEW e \in LogEntry, e.transaction_id \in U, e.operation = "BEGIN"
      PROVE  UndoneToBegin(Append(s, e), b, U) = UndoneToBegin(s, b, U \ {e.transaction_id})
    <2>1. UndoUnlessBegun(e, x) = [todo |-> U \ {e.transaction_id}, table |-> b]
        BY <1>10, ScanStepIs
    <2>2. U \ {e.transaction_id} \in SUBSET Who
        OBVIOUS
    <2> QED
        BY <1>2, <1>8, <2>1, <2>2, Zenon
<1>11. ASSUME NEW e \in LogEntry, e.transaction_id \in U, IsData(e)
      PROVE  UndoneToBegin(Append(s, e), b, U) = UndoneToBegin(s, undo_operation(b, e), U)
    <2>1. UndoUnlessBegun(e, x) = [todo |-> U, table |-> undo_operation(b, e)]
        BY <1>11, ScanStepIs
    <2>2. undo_operation(b, e) \in Tables
        BY <1>11, UndoIs
    <2> QED
        BY <1>2, <1>8, <2>1, <2>2, Zenon
<1> QED
    BY <1>6, <1>7, <1>9, <1>10, <1>11

LEMMA UndoneToBeginAt ==
    ASSUME NEW s \in Seq(LogEntry), NEW b \in Tables, NEW U \in SUBSET Who, NEW e \in LogEntry,
           e.transaction_id \in U, IsData(e)
    PROVE  UndoneToBegin(Append(s, e), b, U) = UndoneToBegin(s, undo_operation(b, e), U)
BY UndoneToBeginLaws, ZenonT(60)

-----------------------------------------------------------------------------
IsCheckpoint(e) == e.operation = "CHECKPOINT"

Checkpoints(s) == {0} \cup {i \in 1..Len(s) : IsCheckpoint(s[i])}

(* LastCheckpoint is the place of the last checkpoint record, 0 without    *)
(* one.                                                                    *)
LEMMA LastCheckpointIs ==
    ASSUME NEW s \in Seq(LogEntry)
    PROVE  /\ LastCheckpoint(s) = Max(Checkpoints(s))
           /\ LastCheckpoint(s) \in 0..Len(s) /\ LastCheckpoint(s) \in Checkpoints(s)
           /\ \A i \in Checkpoints(s) : i <= LastCheckpoint(s)
<1>1. LastCheckpoint(s) = Max(Checkpoints(s))
    BY DEF LastCheckpoint, Checkpoints, IsCheckpoint
<1>2. Len(s) \in Nat /\ Checkpoints(s) \in SUBSET (0..Len(s)) /\ Checkpoints(s) # {}
    BY DEF Checkpoints
<1>3. \E m \in Checkpoints(s) : \A k \in Checkpoints(s) : k =< m
    BY <1>2, GreatestBelow
<1>4. \E m \in Checkpoints(s) : \A k \in Checkpoints(s) : m >= k
    BY <1>2, <1>3
<1>5. Max(Checkpoints(s)) \in Checkpoints(s)
      /\ \A k \in Checkpoints(s) : Max(Checkpoints(s)) >= k
    BY <1>4 DEF Max
<1> QED
    BY <1>1, <1>2, <1>5

(* A checkpoint record at the end becomes the last checkpoint; any other   *)
(* leaves it where it was.                                                 *)
LEMMA LastCheckpointLaws ==
    ASSUME NEW s \in Seq(LogEntry), NEW e \in LogEntry
    PROVE  /\ IsCheckpoint(e) => LastCheckpoint(Append(s, e)) = Len(s) + 1
           /\ ~IsCheckpoint(e) => LastCheckpoint(Append(s, e)) = LastCheckpoint(s)
<1> DEFINE r == Append(s, e)
           N == Len(s)
<1>1. r \in Seq(LogEntry) /\ N \in Nat /\ Len(r) = N + 1 /\ r[N + 1] = e
      /\ \A i \in 1..N : r[i] = s[i]
    OBVIOUS
<1>2. Checkpoints(r) = Checkpoints(s) \cup (IF IsCheckpoint(e) THEN {N + 1} ELSE {})
    BY <1>1 DEF Checkpoints
<1>3. /\ LastCheckpoint(r) \in 0..(N + 1) /\ LastCheckpoint(r) \in Checkpoints(r)
      /\ \A i \in Checkpoints(r) : i <= LastCheckpoint(r)
    BY <1>1, LastCheckpointIs
<1>4. /\ LastCheckpoint(s) \in 0..N /\ LastCheckpoint(s) \in Checkpoints(s)
      /\ \A i \in Checkpoints(s) : i <= LastCheckpoint(s)
    BY LastCheckpointIs
<1> HIDE DEF r, N
<1>5. CASE IsCheckpoint(e)
    <2>1. N + 1 \in Checkpoints(r)
        BY <1>2, <1>5
    <2>2. LastCheckpoint(r) = N + 1
        BY <1>1, <1>3, <2>1
    <2> QED
        BY <1>5, <2>2 DEF r, N
<1>6. CASE ~IsCheckpoint(e)
    <2>1. Checkpoints(r) = Checkpoints(s)
        BY <1>2, <1>6
    <2>2. LastCheckpoint(r) = LastCheckpoint(s)
        BY <1>1, <1>3, <1>4, <2>1
    <2> QED
        BY <1>6, <2>2 DEF r
<1> QED
    BY <1>5, <1>6

(* q is what s has after its first c elements.                             *)
IsAfter(s, c, q) ==
    /\ q \in Seq(LogEntry) /\ Len(q) = Len(s) - c
    /\ \A i \in 1..(Len(s) - c) : q[i] = s[c + i]

(* SinceCheckpoint is the part of the log after the last checkpoint.       *)
LEMMA SinceCheckpointIs ==
    ASSUME NEW s \in Seq(LogEntry)
    PROVE  IsAfter(s, LastCheckpoint(s), SinceCheckpoint(s))
<1> DEFINE c == LastCheckpoint(s)
           q == SubSeq(s, c + 1, Len(s))
<1>1. SinceCheckpoint(s) = q
    BY DEF SinceCheckpoint
<1>2. c \in 0..Len(s)
    BY LastCheckpointIs
<1> HIDE DEF c
<1>3. q \in Seq(LogEntry) /\ Len(q) = Len(s) - c /\ \A i \in 1..(Len(s) - c) : q[i] = s[c + i]
    BY <1>2
<1> QED
    BY <1>1, <1>3 DEF c, IsAfter

(* One more record extends that part, or empties it if it is a             *)
(* checkpoint.                                                             *)
LEMMA SinceCheckpointLaws ==
    ASSUME NEW s \in Seq(LogEntry)
    PROVE  /\ SinceCheckpoint(s) \in Seq(LogEntry)
           /\ SinceCheckpoint(<<>>) = <<>>
           /\ \A e \in LogEntry :
                SinceCheckpoint(Append(s, e)) =
                    IF IsCheckpoint(e) THEN <<>> ELSE Append(SinceCheckpoint(s), e)
<1>1. SinceCheckpoint(s) \in Seq(LogEntry)
    BY SinceCheckpointIs DEF IsAfter
<1>2. SinceCheckpoint(<<>>) = <<>>
    <2>1. ASSUME NEW r \in Seq(LogEntry), Len(r) = 0
          PROVE  Len(SinceCheckpoint(r)) = 0 /\ SinceCheckpoint(r) \in Seq(LogEntry)
        <3>1. IsAfter(r, LastCheckpoint(r), SinceCheckpoint(r)) /\ LastCheckpoint(r) \in 0..Len(r)
            BY SinceCheckpointIs, LastCheckpointIs
        <3> QED
            BY <2>1, <3>1 DEF IsAfter
    <2>2. <<>> \in Seq(LogEntry) /\ Len(<<>>) = 0
        OBVIOUS
    <2>3. Len(SinceCheckpoint(<<>>)) = 0 /\ SinceCheckpoint(<<>>) \in Seq(LogEntry)
        BY <2>1, <2>2, Zenon
    <2> QED
        BY <2>3
<1>3. ASSUME NEW e \in LogEntry
      PROVE  SinceCheckpoint(Append(s, e)) =
                 IF IsCheckpoint(e) THEN <<>> ELSE Append(SinceCheckpoint(s), e)
    <2> DEFINE r == Append(s, e)
               N == Len(s)
               c == LastCheckpoint(s)
    <2>1. r \in Seq(LogEntry) /\ N \in Nat /\ Len(r) = N + 1 /\ r[N + 1] = e
          /\ \A i \in 1..N : r[i] = s[i]
        OBVIOUS
    <2>2. /\ SinceCheckpoint(s) \in Seq(LogEntry) /\ Len(SinceCheckpoint(s)) = N - c /\ c \in 0..N
          /\ \A i \in 1..(N - c) : SinceCheckpoint(s)[i] = s[c + i]
        BY SinceCheckpointIs, LastCheckpointIs DEF IsAfter
    <2>4. LastCheckpoint(r) = IF IsCheckpoint(e) THEN N + 1 ELSE c
        BY LastCheckpointLaws
    <2> HIDE DEF r, c, N
    <2>3. /\ SinceCheckpoint(r) \in Seq(LogEntry)
          /\ Len(SinceCheckpoint(r)) = N + 1 - LastCheckpoint(r)
          /\ \A i \in 1..(N + 1 - LastCheckpoint(r)) : SinceCheckpoint(r)[i] = r[LastCheckpoint(r) + i]
        <3>1. IsAfter(r, LastCheckpoint(r), SinceCheckpoint(r))
            BY <2>1, SinceCheckpointIs
        <3>2. LastCheckpoint(r) \in Int
            BY <2>1, <2>2, <2>4
        <3> QED
            BY <2>1, <3>1, <3>2 DEF IsAfter
    <2>5. CASE IsCheckpoint(e)
        BY <2>1, <2>3, <2>4, <2>5 DEF r
    <2>6. CASE ~IsCheckpoint(e)
        <3> DEFINE o == SinceCheckpoint(s)
                   p == Append(o, e)
                   q == SinceCheckpoint(r)
        <3>1. /\ p \in Seq(LogEntry) /\ Len(p) = N - c + 1 /\ p[N - c + 1] = e
              /\ \A i \in 1..(N - c) : p[i] = o[i]
            <4>1. o \in Seq(LogEntry) /\ Len(o) = N - c
                BY <2>2
            <4> HIDE DEF o
            <4> QED
                BY <4>1
        <3>2. /\ q \in Seq(LogEntry) /\ Len(q) = N - c + 1
              /\ \A i \in 1..(N - c + 1) : q[i] = r[c + i]
            BY <2>1, <2>2, <2>3, <2>4, <2>6
        <3>a. \A i \in 1..(N - c) : o[i] = s[c + i]
            BY <2>2
        <3> HIDE DEF p, q, o
        <3>3. \A i \in 1..(N - c + 1) : p[i] = q[i]
            <4> TAKE i \in 1..(N - c + 1)
            <4>1. CASE i \in 1..(N - c)
                <5>1. c + i \in 1..N
                    BY <2>1, <2>2, <4>1
                <5> QED
                    BY <2>1, <2>2, <3>a, <3>1, <3>2, <4>1, <5>1
            <4>2. CASE i = N - c + 1
                <5>1. c + i = N + 1
                    BY <2>1, <2>2, <4>2
                <5> QED
                    BY <2>1, <3>1, <3>2, <4>2, <5>1
            <4> QED
                BY <2>1, <2>2, <4>1, <4>2
        <3>4. p = q
            BY <3>1, <3>2, <3>3
        <3> QED
            BY <2>6, <3>4 DEF p, q, r, o
    <2> QED
        BY <2>5, <2>6
<1> QED
    BY <1>1, <1>2, <1>3

(* The records of a log with one more record.                              *)
LEMMA MembersOfLonger ==
    ASSUME NEW s \in Seq(LogEntry), NEW e \in LogEntry
    PROVE  ToSet(Append(s, e)) = ToSet(s) \cup {e}
<1> DEFINE r == Append(s, e)
           N == Len(s)
<1>1. N \in Nat /\ DOMAIN s = 1..N /\ DOMAIN r = 1..(N + 1) /\ r[N + 1] = e
      /\ \A i \in 1..N : r[i] = s[i]
    OBVIOUS
<1> HIDE DEF r, N
<1>2. \A x : x \in {r[i] : i \in 1..(N + 1)} <=> x \in {s[i] : i \in 1..N} \cup {e}
    <2> TAKE x
    <2>1. \A i \in 1..(N + 1) : i \in 1..N \/ i = N + 1
        BY <1>1
    <2>2. \A i \in 1..N : i \in 1..(N + 1)
        BY <1>1
    <2>3. N + 1 \in 1..(N + 1)
        BY <1>1
    <2> QED
        BY <1>1, <2>1, <2>2, <2>3
<1>3. ToSet(r) = {r[i] : i \in 1..(N + 1)} /\ ToSet(s) = {s[i] : i \in 1..N}
    BY <1>1 DEF ToSet
<1> QED
    BY <1>2, <1>3 DEF r

(* The empty log has no records.                                           *)
LEMMA MembersOfNone == ToSet(<<>>) = {}
BY DEF ToSet

(* The committed transactions since the last checkpoint, as the log grows  *)
(* by a record.                                                            *)
LEMMA CommittedLaws ==
    ASSUME NEW s \in Seq(LogEntry)
    PROVE  /\ committed_txs(s) \subseteq Who
           /\ committed_txs(<<>>) = {}
           /\ \A e \in LogEntry :
                committed_txs(Append(s, e)) =
                    IF IsCheckpoint(e) THEN {}
                    ELSE IF e.operation = "COMMIT" THEN committed_txs(s) \cup {e.transaction_id}
                    ELSE committed_txs(s)
<1>1. SinceCheckpoint(s) \in Seq(LogEntry)
    BY SinceCheckpointLaws
<1>2. ToSet(SinceCheckpoint(s)) \subseteq LogEntry
    BY <1>1 DEF ToSet
<1>3. committed_txs(s) \subseteq Who
    BY <1>2 DEF committed_txs, LogEntry, Who
<1>4. committed_txs(<<>>) = {}
    BY SinceCheckpointLaws, MembersOfNone DEF committed_txs
<1>5. ASSUME NEW e \in LogEntry
      PROVE  committed_txs(Append(s, e)) =
                    IF IsCheckpoint(e) THEN {}
                    ELSE IF e.operation = "COMMIT" THEN committed_txs(s) \cup {e.transaction_id}
                    ELSE committed_txs(s)
    <2>1. ToSet(SinceCheckpoint(Append(s, e))) =
              IF IsCheckpoint(e) THEN {} ELSE ToSet(SinceCheckpoint(s)) \cup {e}
        BY <1>1, SinceCheckpointLaws, MembersOfLonger, MembersOfNone
    <2> QED
        BY <2>1 DEF committed_txs
<1> QED
    BY <1>3, <1>4, <1>5

(* A transaction has changes in a longer log if it had or the new record   *)
(* is one.                                                                 *)
LEMMA HasChangesLaws ==
    ASSUME NEW s \in Seq(LogEntry), NEW tid
    PROVE  /\ ~HasChanges(<<>>, tid)
           /\ \A e \in LogEntry :
                HasChanges(Append(s, e), tid) <=>
                    HasChanges(s, tid) \/ (e.transaction_id = tid /\ IsData(e))
<1>1. ~HasChanges(<<>>, tid)
    BY MembersOfNone DEF HasChanges
<1>2. ASSUME NEW e \in LogEntry
      PROVE  HasChanges(Append(s, e), tid) <=>
                    HasChanges(s, tid) \/ (e.transaction_id = tid /\ IsData(e))
    BY MembersOfLonger DEF HasChanges
<1> QED
    BY <1>1, <1>2

-----------------------------------------------------------------------------
(* What an entry makes of the transactions to undo.                        *)
Listed(e, U) ==
    CASE e.operation = "BEGIN" -> U \cup {e.transaction_id}
      [] e.operation \in EndOperations -> U \ {e.transaction_id}
      [] OTHER -> U

ListStep == [e \in LogEntry |-> [U \in SUBSET Who |-> Listed(e, U)]]

Listing(s, b) ==
    FoldLeft(LAMBDA tids, e :
                 CASE e.operation = "BEGIN" -> tids \cup {e.transaction_id}
                   [] e.operation \in EndOperations -> tids \ {e.transaction_id}
                   [] OTHER -> tids,
             b, s)

(* The scan for the undo list is a fold whose steps map sets of ids to     *)
(* sets of ids.                                                            *)
LEMMA ListingIsAFold ==
    ASSUME NEW s \in Seq(LogEntry), NEW b \in SUBSET Who
    PROVE  /\ Moves(SUBSET Who, LogEntry, ListStep)
           /\ Listing(s, b) = LeftFold(ListStep, b, s)
<1> DEFINE step == ListStep
           X == SUBSET Who
           N == Len(s)
           Fits(f) == f = [i \in SUBSET (DOMAIN s) |->
                              IF i = {} THEN b
                              ELSE Listed(s[Max(i)], f[i \ {Max(i)}])]
           c == CHOOSE f : Fits(f)
<1>1. /\ Moves(X, LogEntry, step)
      /\ \A e \in LogEntry, U \in X : step[e][U] = Listed(e, U)
    <2>1. \A e \in LogEntry, U \in X : Listed(e, U) \in X
        <3> TAKE e \in LogEntry, U \in X
        <3>1. e.transaction_id \in Who
            BY DEF LogEntry, Who
        <3> QED
            BY <3>1 DEF Listed
    <2> QED
        BY <2>1 DEF Moves, ListStep
<1>a. Moves(X, LogEntry, step) /\ b \in X
    BY <1>1
<1> HIDE DEF step, X
<1>2. N \in Nat /\ DOMAIN s = 1..N /\ \A n \in 1..N : s[n] \in LogEntry
    OBVIOUS
<1>3. Listing(s, b) = c[DOMAIN s]
    BY DEF Listing, FoldLeft, MapThenFoldSet, Listed
<1> HIDE DEF N
<1>4. \E f : Fits(f)
    <2>1. PICK f : LeftValues(X, LogEntry, step, b, s, f)
        BY <1>a, LeftFoldHas
    <2>2. Fits(f)
        BY <1>1, <1>2, <2>1 DEF LeftValues, N
    <2> QED
        BY <2>2
<1>5. c = [i \in SUBSET (1..N) |->
              IF i = {} THEN b ELSE Listed(s[Max(i)], c[i \ {Max(i)}])]
    <2> HIDE DEF Fits
    <2>1. Fits(c)
        BY <1>4
    <2> QED
        BY <1>2, <2>1 DEF Fits
<1> HIDE DEF c
<1>6. c[{}] = b
    BY <1>5
<1>7. ASSUME NEW n \in 1..N, c[1..(n - 1)] \in X
      PROVE  c[1..n] = step[s[n]][c[1..(n - 1)]]
    <2>1. n \in Nat /\ n # 0 /\ 1..n \in SUBSET (1..N) /\ s[n] \in LogEntry
        BY <1>2
    <2>2. Max(1..n) = n /\ (1..n) \ {n} = 1..(n - 1) /\ 1..n # {}
        BY <2>1, InitialPart
    <2>3. c[1..n] = Listed(s[n], c[1..(n - 1)])
        BY <1>5, <2>1, <2>2
    <2> QED
        BY <1>1, <1>7, <2>1, <2>3
<1>8. c[DOMAIN s] = LeftFold(step, b, s)
    BY <1>a, <1>6, <1>7, LeftFoldFrom DEF N
<1> QED
    BY <1>1, <1>3, <1>8 DEF step, X

(* The scan for the undo list meets one more record last.                  *)
LEMMA ListingLaws ==
    ASSUME NEW s \in Seq(LogEntry), NEW b \in SUBSET Who
    PROVE  /\ Listing(s, b) \in SUBSET Who
           /\ Listing(<<>>, b) = b
           /\ \A e \in LogEntry : Listing(Append(s, e), b) = Listed(e, Listing(s, b))
<1> DEFINE step == ListStep
           X == SUBSET Who
<1>1. Moves(X, LogEntry, step) /\ b \in X
    BY ListingIsAFold
<1>2. \A r \in Seq(LogEntry) : Listing(r, b) = LeftFold(step, b, r)
    BY ListingIsAFold
<1>3. \A e \in LogEntry, U \in X : step[e][U] = Listed(e, U)
    BY DEF ListStep
<1> HIDE DEF step, X
<1>4. /\ LeftFold(step, b, s) \in X
      /\ LeftFold(step, b, <<>>) = b
      /\ \A e \in LogEntry : LeftFold(step, b, Append(s, e)) = step[e][LeftFold(step, b, s)]
    BY <1>1, LeftFoldLaws
<1>5. <<>> \in Seq(LogEntry) /\ \A e \in LogEntry : Append(s, e) \in Seq(LogEntry)
    OBVIOUS
<1>6. Listing(<<>>, b) = b
    BY <1>2, <1>4, <1>5, Zenon
<1>7. Listing(s, b) \in X
    BY <1>2, <1>4
<1>8. ASSUME NEW e \in LogEntry
      PROVE  Listing(Append(s, e), b) = step[e][Listing(s, b)]
    BY <1>2, <1>4, <1>5, Zenon
<1> QED
    BY <1>3, <1>6, <1>7, <1>8 DEF X

(* The transactions the last checkpoint record lists.                      *)
ListedFirst(s) == IF LastCheckpoint(s) = 0 THEN {} ELSE s[LastCheckpoint(s)].active

(* The scan starts from the transactions the last checkpoint names.        *)
LEMMA ListedFirstLaws ==
    ASSUME NEW s \in Seq(LogEntry)
    PROVE  /\ ListedFirst(s) \in SUBSET Who
           /\ ListedFirst(<<>>) = {}
           /\ \A e \in LogEntry : ListedFirst(Append(s, e)) =
                  IF IsCheckpoint(e) THEN e.active ELSE ListedFirst(s)
<1>1. LastCheckpoint(s) \in 0..Len(s) /\ Len(s) \in Nat
    BY LastCheckpointIs
<1>2. ListedFirst(s) \in SUBSET Who
    <2>1. LastCheckpoint(s) # 0 => s[LastCheckpoint(s)] \in LogEntry
        BY <1>1
    <2> QED
        BY <2>1 DEF ListedFirst, LogEntry, Who
<1>3. ListedFirst(<<>>) = {}
    <2>1. ASSUME NEW r \in Seq(LogEntry), Len(r) = 0 PROVE ListedFirst(r) = {}
        <3>1. LastCheckpoint(r) \in 0..Len(r)
            BY LastCheckpointIs
        <3> QED
            BY <2>1, <3>1 DEF ListedFirst
    <2>2. <<>> \in Seq(LogEntry) /\ Len(<<>>) = 0
        OBVIOUS
    <2> QED
        BY <2>1, <2>2, Zenon
<1>4. ASSUME NEW e \in LogEntry
      PROVE  ListedFirst(Append(s, e)) = IF IsCheckpoint(e) THEN e.active ELSE ListedFirst(s)
    <2>1. LastCheckpoint(Append(s, e)) =
              IF IsCheckpoint(e) THEN Len(s) + 1 ELSE LastCheckpoint(s)
        BY LastCheckpointLaws
    <2> DEFINE r == Append(s, e)
    <2>2. r[Len(s) + 1] = e /\ \A i \in 1..Len(s) : r[i] = s[i]
        OBVIOUS
    <2> HIDE DEF r
    <2>3. ListedFirst(r) = IF LastCheckpoint(r) = 0 THEN {} ELSE r[LastCheckpoint(r)].active
        BY DEF ListedFirst
    <2>4. LastCheckpoint(r) = IF IsCheckpoint(e) THEN Len(s) + 1 ELSE LastCheckpoint(s)
        BY <2>1 DEF r
    <2>5. ListedFirst(r) = IF IsCheckpoint(e) THEN e.active ELSE ListedFirst(s)
        BY <1>1, <2>2, <2>3, <2>4 DEF ListedFirst
    <2> QED
        BY <2>5 DEF r
<1> QED
    BY <1>2, <1>3, <1>4

(* The undo list as the log grows by a record.                             *)
LEMMA UndoListLaws ==
    ASSUME NEW s \in Seq(LogEntry)
    PROVE  /\ undo_list(s) \in SUBSET Who
           /\ undo_list(<<>>) = {}
           /\ \A e \in LogEntry : undo_list(Append(s, e)) =
                  IF IsCheckpoint(e) THEN e.active ELSE Listed(e, undo_list(s))
<1>1. \A r : undo_list(r) = Listing(SinceCheckpoint(r), ListedFirst(r))
    BY DEF undo_list, Listing, ListedFirst
<1>2. SinceCheckpoint(s) \in Seq(LogEntry) /\ ListedFirst(s) \in SUBSET Who
    BY SinceCheckpointLaws, ListedFirstLaws
<1>3. undo_list(s) \in SUBSET Who
    BY <1>1, <1>2, ListingLaws
<1>4. \A b \in SUBSET Who : Listing(<<>>, b) = b
    BY <1>2, ListingLaws
<1>5. undo_list(<<>>) = {}
    <2>1. SinceCheckpoint(<<>>) = <<>> /\ ListedFirst(<<>>) = {}
        BY SinceCheckpointLaws, ListedFirstLaws
    <2>2. {} \in SUBSET Who
        OBVIOUS
    <2> QED
        BY <1>1, <1>4, <2>1, <2>2
<1>6. ASSUME NEW e \in LogEntry
      PROVE  undo_list(Append(s, e)) =
                 IF IsCheckpoint(e) THEN e.active ELSE Listed(e, undo_list(s))
    <2>1. CASE IsCheckpoint(e)
        <3>1. SinceCheckpoint(Append(s, e)) = <<>> /\ ListedFirst(Append(s, e)) = e.active
            BY <2>1, SinceCheckpointLaws, ListedFirstLaws
        <3>2. e.active \in SUBSET Who
            BY DEF LogEntry, Who
        <3> QED
            BY <1>1, <1>4, <2>1, <3>1, <3>2
    <2>2. CASE ~IsCheckpoint(e)
        <3>1. /\ SinceCheckpoint(Append(s, e)) = Append(SinceCheckpoint(s), e)
              /\ ListedFirst(Append(s, e)) = ListedFirst(s)
            BY <2>2, SinceCheckpointLaws, ListedFirstLaws
        <3>2. Listing(Append(SinceCheckpoint(s), e), ListedFirst(s)) =
                  Listed(e, Listing(SinceCheckpoint(s), ListedFirst(s)))
            BY <1>2, ListingLaws
        <3> QED
            BY <1>1, <2>2, <3>1, <3>2
    <2> QED
        BY <2>1, <2>2
<1> QED
    BY <1>3, <1>5, <1>6

-----------------------------------------------------------------------------
(* Induction over logs by their last record, for a property given as a     *)
(* set.                                                                    *)
LEMMA LogInduction ==
    ASSUME NEW S, <<>> \in S,
           \A s \in Seq(LogEntry), e \in LogEntry : s \in S => Append(s, e) \in S
    PROVE  \A s \in Seq(LogEntry) : s \in S
<1> DEFINE T == {n \in Nat : \A s \in Seq(LogEntry) : Len(s) = n => s \in S}
<1>1. 0 \in T
    OBVIOUS
<1>2. ASSUME NEW n \in Nat, n \in T PROVE n + 1 \in T
    <2> SUFFICES ASSUME NEW s \in Seq(LogEntry), Len(s) = n + 1
                 PROVE  s \in S
        OBVIOUS
    <2> DEFINE r == SubSeq(s, 1, n)
               e == s[n + 1]
    <2>1. r \in Seq(LogEntry) /\ Len(r) = n /\ e \in LogEntry /\ s = Append(r, e)
        OBVIOUS
    <2>2. r \in S
        BY <1>2, <2>1
    <2> HIDE DEF r, e
    <2> QED
        BY <2>1, <2>2
<1>3. \A n \in Nat : n \in T
    <2> HIDE DEF T
    <2> QED
        BY <1>1, <1>2, NatInduct
<1> QED
    BY <1>3

(* The rollback of a transaction without logged changes does nothing.      *)
LEMMA NothingToUndo ==
    ASSUME NEW L \in Seq(LogEntry), NEW t \in Tables, NEW w, ~HasChanges(L, w)
    PROVE  Undone(L, t, w) = t
<1> DEFINE S == {s \in Seq(LogEntry) : ~HasChanges(s, w) => Undone(s, t, w) = t}
<1>1. <<>> \in S
    BY UndoneLaws
<1>2. ASSUME NEW s \in Seq(LogEntry), NEW e \in LogEntry, s \in S PROVE Append(s, e) \in S
    <2>1. HasChanges(Append(s, e), w) <=> HasChanges(s, w) \/ (e.transaction_id = w /\ IsData(e))
        BY HasChangesLaws
    <2>2. ~HasChanges(Append(s, e), w) => Undone(Append(s, e), t, w) = Undone(s, t, w)
        BY <2>1, UndoneLaws
    <2>3. Append(s, e) \in Seq(LogEntry)
        OBVIOUS
    <2> QED
        BY <1>2, <2>1, <2>2, <2>3
<1>3. \A s \in Seq(LogEntry) : s \in S
    <2> HIDE DEF S
    <2> QED
        BY <1>1, <1>2, LogInduction
<1> QED
    BY <1>3

(* The backward scan for transactions without logged changes does          *)
(* nothing.                                                                *)
LEMMA NothingToScan ==
    ASSUME NEW L \in Seq(LogEntry), NEW t \in Tables, NEW U \in SUBSET Who,
           \A u \in U : ~HasChanges(L, u)
    PROVE  UndoneToBegin(L, t, U) = t
<1> DEFINE S == {s \in Seq(LogEntry) : \A V \in SUBSET Who :
                    (\A u \in V : ~HasChanges(s, u)) => UndoneToBegin(s, t, V) = t}
<1>1. <<>> \in S
    BY UndoneToBeginLaws
<1>2. ASSUME NEW s \in Seq(LogEntry), NEW e \in LogEntry, s \in S PROVE Append(s, e) \in S
    <2>1. \A u : HasChanges(Append(s, e), u) <=> HasChanges(s, u) \/ (e.transaction_id = u /\ IsData(e))
        BY HasChangesLaws
    <2>2. ASSUME NEW V \in SUBSET Who, \A u \in V : ~HasChanges(Append(s, e), u)
          PROVE  UndoneToBegin(Append(s, e), t, V) = t
        <3>1. \A u \in V : ~HasChanges(s, u) /\ (e.transaction_id = u => ~IsData(e))
            BY <2>1, <2>2
        <3>2. \/ UndoneToBegin(Append(s, e), t, V) = UndoneToBegin(s, t, V)
              \/ UndoneToBegin(Append(s, e), t, V) = UndoneToBegin(s, t, V \ {e.transaction_id})
            BY <3>1, UndoneToBeginLaws
        <3>3. UndoneToBegin(s, t, V) = t /\ UndoneToBegin(s, t, V \ {e.transaction_id}) = t
            BY <1>2, <3>1
        <3> QED
            BY <3>2, <3>3
    <2>3. Append(s, e) \in Seq(LogEntry)
        OBVIOUS
    <2> QED
        BY <2>2, <2>3
<1>3. \A s \in Seq(LogEntry) : s \in S
    <2> HIDE DEF S
    <2> QED
        BY <1>1, <1>2, LogInduction
<1> QED
    BY <1>3

(* What the changes of a transaction that has none make of a redo.         *)
LEMMA NothingToRedo ==
    ASSUME NEW L \in Seq(LogEntry), NEW t \in Tables, NEW tids, NEW u, ~HasChanges(L, u)
    PROVE  Redone(SinceCheckpoint(L), t, tids \cup {u}) = Redone(SinceCheckpoint(L), t, tids)
<1> DEFINE more == tids \cup {u}
           S == {s \in Seq(LogEntry) : ~HasChanges(s, u) =>
                    Redone(SinceCheckpoint(s), t, more) = Redone(SinceCheckpoint(s), t, tids)}
<1>1. <<>> \in S
    <2>1. SinceCheckpoint(<<>>) = <<>>
        BY SinceCheckpointLaws
    <2>2. Redone(<<>>, t, more) = t /\ Redone(<<>>, t, tids) = t
        BY RedoneLaws
    <2> QED
        BY <2>1, <2>2
<1>2. ASSUME NEW s \in Seq(LogEntry), NEW e \in LogEntry, s \in S PROVE Append(s, e) \in S
    <2>1. HasChanges(Append(s, e), u) <=> HasChanges(s, u) \/ (e.transaction_id = u /\ IsData(e))
        BY HasChangesLaws
    <2>2. SinceCheckpoint(s) \in Seq(LogEntry)
        BY SinceCheckpointLaws
    <2>3. CASE IsCheckpoint(e)
        <3>1. SinceCheckpoint(Append(s, e)) = <<>>
            BY <2>3, SinceCheckpointLaws
        <3>2. Redone(<<>>, t, more) = t /\ Redone(<<>>, t, tids) = t
            BY RedoneLaws
        <3> QED
            BY <3>1, <3>2
    <2>4. CASE ~IsCheckpoint(e)
        <3>1. SinceCheckpoint(Append(s, e)) = Append(SinceCheckpoint(s), e)
            BY <2>4, SinceCheckpointLaws
        <3>2. \A T : Redone(Append(SinceCheckpoint(s), e), t, T) =
                 IF e.transaction_id \in T /\ IsData(e)
                 THEN redo_operation(Redone(SinceCheckpoint(s), t, T), e)
                 ELSE Redone(SinceCheckpoint(s), t, T)
            BY <2>2, RedoneLaws
        <3>3. ~HasChanges(Append(s, e), u) =>
                 (e.transaction_id \in more /\ IsData(e) <=> e.transaction_id \in tids /\ IsData(e))
            BY <2>1
        <3>4. ~HasChanges(Append(s, e), u) =>
                 Redone(SinceCheckpoint(s), t, more) = Redone(SinceCheckpoint(s), t, tids)
            BY <1>2, <2>1
        <3>5. Append(s, e) \in Seq(LogEntry)
            OBVIOUS
        <3> HIDE DEF more
        <3> QED
            BY <3>1, <3>2, <3>3, <3>4, <3>5
    <2> QED
        BY <2>3, <2>4
<1>3. \A s \in Seq(LogEntry) : s \in S
    <2> HIDE DEF S
    <2> QED
        BY <1>1, <1>2, LogInduction
<1> QED
    BY <1>3

-----------------------------------------------------------------------------
(* What a redo makes of the rows S that a table has with a key, where the  *)
(* transactions redone are to leave the rows target with it:               *)
(* nothing; the one row is changed; a row is added; whatever there is is   *)
(* replaced.                                                               *)
RedoModes == {"keep", "update", "insert", "fixed"}

RedoTo(r, target, S) ==
    CASE r = "keep"   -> S
      [] r = "update" -> IF S = {} THEN {} ELSE target
      [] r = "insert" -> S \cup target
      [] r = "fixed"  -> target

(* What the rows with a key may be for an undo to make c of them: c; some  *)
(* row, as c is one; nothing or c; anything.                               *)
UndoModes == {"same", "updated", "deleted", "free"}

Fits(m, c, S) ==
    CASE m = "same"    -> S = c
      [] m = "updated" -> S # {} /\ c # {}
      [] m = "deleted" -> S \subseteq c
      [] m = "free"    -> TRUE

(* What the transaction that is to be undone has made of c so far.         *)
Leaves(m, c, n) ==
    CASE m = "same"    -> n = c
      [] m = "updated" -> n # {} /\ c # {}
      [] m = "deleted" -> n = {} /\ c # {}
      [] m = "free"    -> TRUE

(* In the log L: the analysis and redo with the transactions tids,         *)
RedoneFrom(L, t, tids) == Redone(SinceCheckpoint(L), t, tids)

RedoGives(L, tids, k, r, target) ==
    /\ \A t \in Tables : At(RowsOf(RedoneFrom(L, t, tids)), k) = RedoTo(r, target, At(RowsOf(t), k))
    /\ r \in {"update", "insert"} => target # {}

(* and the undo of w, in a rollback or in a recovery.                      *)
OnlyChanger(L, w, U) == w \in U /\ \A u \in U \ {w} : ~HasChanges(L, u)

UndoGives(L, w, k, m, c) ==
    \A t \in Tables : Fits(m, c, At(RowsOf(t), k)) =>
        /\ At(RowsOf(Undone(L, t, w)), k) = c
        /\ \A U \in SUBSET Who : OnlyChanger(L, w, U) => At(RowsOf(UndoneToBegin(L, t, U)), k) = c

(* Of the rows d that the file has with key k, a recovery makes c if it    *)
(* has nothing to undo;                                                    *)
Clear(L, k, c, d) ==
    \E r \in RedoModes : RedoGives(L, committed_txs(L), k, r, c) /\ RedoTo(r, c, d) = c

(* if it has to undo w;                                                    *)
Curable(L, w, k, c, d) ==
    \E r \in RedoModes, m \in UndoModes :
        /\ RedoGives(L, committed_txs(L), k, r, c)
        /\ UndoGives(L, w, k, m, c)
        /\ Fits(m, c, RedoTo(r, c, d))

(* and so does a rollback, of the rows n that w has left.                  *)
Undoable(L, w, k, c, d, n) ==
    \E r \in RedoModes, m \in UndoModes :
        /\ RedoGives(L, committed_txs(L), k, r, c)
        /\ UndoGives(L, w, k, m, c)
        /\ Fits(m, c, RedoTo(r, c, d))
        /\ Leaves(m, c, n)

(* Once w has committed, a recovery makes n of d.                          *)
Redoable(L, w, k, d, n) ==
    \E r \in RedoModes :
        RedoGives(L, committed_txs(L) \cup {w}, k, r, n) /\ RedoTo(r, n, d) = n

-----------------------------------------------------------------------------
(* The redo since the last checkpoint, as the log grows by a record.       *)
LEMMA RedoneLonger ==
    ASSUME NEW L \in Seq(LogEntry), NEW e \in LogEntry, NEW t \in Tables, NEW tids
    PROVE  /\ RedoneFrom(L, t, tids) \in Tables
           /\ IsCheckpoint(e) => RedoneFrom(Append(L, e), t, tids) = t
           /\ ~IsCheckpoint(e) /\ e.transaction_id \in tids /\ IsData(e) =>
                RedoneFrom(Append(L, e), t, tids) = redo_operation(RedoneFrom(L, t, tids), e)
           /\ ~IsCheckpoint(e) /\ ~(e.transaction_id \in tids /\ IsData(e)) =>
                RedoneFrom(Append(L, e), t, tids) = RedoneFrom(L, t, tids)
<1>1. SinceCheckpoint(L) \in Seq(LogEntry)
    BY SinceCheckpointLaws
<1>2. SinceCheckpoint(Append(L, e)) =
          IF IsCheckpoint(e) THEN <<>> ELSE Append(SinceCheckpoint(L), e)
    BY SinceCheckpointLaws
<1> DEFINE s == SinceCheckpoint(L)
<1> HIDE DEF s
<1>3. s \in Seq(LogEntry)
    BY <1>1 DEF s
<1>4. /\ Redone(s, t, tids) \in Tables
      /\ Redone(<<>>, t, tids) = t
      /\ Redone(Append(s, e), t, tids) =
            IF e.transaction_id \in tids /\ IsData(e)
            THEN redo_operation(Redone(s, t, tids), e) ELSE Redone(s, t, tids)
    BY <1>3, RedoneLaws
<1> QED
    BY <1>2, <1>4 DEF RedoneFrom, s

(* A redo is not changed by a record of a transaction it passes over.      *)
LEMMA RedoPassesOver ==
    ASSUME NEW L \in Seq(LogEntry), NEW e \in LogEntry, ~IsCheckpoint(e),
           NEW tids, ~(e.transaction_id \in tids /\ IsData(e)), NEW k, NEW r, NEW target,
           RedoGives(L, tids, k, r, target)
    PROVE  RedoGives(Append(L, e), tids, k, r, target)
<1>1. \A t \in Tables : RedoneFrom(Append(L, e), t, tids) = RedoneFrom(L, t, tids)
    BY RedoneLonger
<1> QED
    BY <1>1 DEF RedoGives

(* Nor by a transaction without changes.                                   *)
LEMMA RedoWithIdlers ==
    ASSUME NEW L \in Seq(LogEntry), NEW u, ~HasChanges(L, u), NEW tids, NEW k, NEW r, NEW target,
           RedoGives(L, tids, k, r, target)
    PROVE  RedoGives(L, tids \cup {u}, k, r, target)
<1>1. \A t \in Tables : RedoneFrom(L, t, tids \cup {u}) = RedoneFrom(L, t, tids)
    BY NothingToRedo DEF RedoneFrom
<1> QED
    BY <1>1 DEF RedoGives

(* After a checkpoint record there is nothing to redo.                     *)
LEMMA RedoStartsAgain ==
    ASSUME NEW L \in Seq(LogEntry), NEW e \in LogEntry, IsCheckpoint(e), NEW tids, NEW k, NEW target
    PROVE  RedoGives(Append(L, e), tids, k, "keep", target)
BY RedoneLonger DEF RedoGives, RedoTo

(* The rows with the key that an undo and a redo of a change leave.        *)
UndoneRows(e, S) ==
    CASE e.operation = "INSERT" -> {}
      [] e.operation = "DELETE" -> S \cup {e.old_value}
      [] e.operation = "UPDATE" -> IF S = {} THEN {} ELSE {e.old_value}

RedoneRows(e, S) ==
    CASE e.operation = "INSERT" -> S \cup {e.new_value}
      [] e.operation = "DELETE" -> {}
      [] e.operation = "UPDATE" -> IF S = {} THEN {} ELSE {e.new_value}

(* undo_operation changes the rows of the key of its record only.          *)
LEMMA RowsUndone ==
    ASSUME NEW t \in Tables, NEW e, IsData(e), Shaped(e), NEW k \in Keys
    PROVE  /\ undo_operation(t, e) \in Tables
           /\ KeyOf(e) = k => At(RowsOf(undo_operation(t, e)), k) = UndoneRows(e, At(RowsOf(t), k))
           /\ KeyOf(e) # k => At(RowsOf(undo_operation(t, e)), k) = At(RowsOf(t), k)
<1>1. e.operation \in {"INSERT", "DELETE", "UPDATE"}
    BY DEF IsData, DataOperations
<1>2. /\ undo_operation(t, e) \in Tables
      /\ At(RowsOf(undo_operation(t, e)), k) =
                    IF KeyOf(e) # k THEN At(RowsOf(t), k)
                    ELSE IF e.operation = "INSERT" THEN {}
                    ELSE IF e.operation = "DELETE" THEN At(RowsOf(t), k) \cup {e.old_value}
                    ELSE IF At(RowsOf(t), k) = {} THEN {} ELSE {e.old_value}
    BY UndoIs
<1> QED
    BY <1>1, <1>2 DEF UndoneRows

(* redo_operation changes the rows of the key of its record only.          *)
LEMMA RowsRedone ==
    ASSUME NEW t \in Tables, NEW e, IsData(e), Shaped(e), NEW k \in Keys
    PROVE  /\ redo_operation(t, e) \in Tables
           /\ KeyOf(e) = k => At(RowsOf(redo_operation(t, e)), k) = RedoneRows(e, At(RowsOf(t), k))
           /\ KeyOf(e) # k => At(RowsOf(redo_operation(t, e)), k) = At(RowsOf(t), k)
<1>1. e.operation \in {"INSERT", "DELETE", "UPDATE"}
    BY DEF IsData, DataOperations
<1>2. /\ redo_operation(t, e) \in Tables
      /\ At(RowsOf(redo_operation(t, e)), k) =
                    IF KeyOf(e) # k THEN At(RowsOf(t), k)
                    ELSE IF e.operation = "INSERT" THEN At(RowsOf(t), k) \cup {e.new_value}
                    ELSE IF e.operation = "DELETE" THEN {}
                    ELSE IF At(RowsOf(t), k) = {} THEN {} ELSE {e.new_value}
    BY RedoIs
<1> QED
    BY <1>1, <1>2 DEF RedoneRows

-----------------------------------------------------------------------------
(* The lists that the analysis makes, for a record more.                   *)

(* The committed transactions after a record that is no checkpoint.        *)
LEMMA CommittedUnless ==
    ASSUME NEW L \in Seq(LogEntry), NEW e \in LogEntry, ~IsCheckpoint(e)
    PROVE  /\ e.operation # "COMMIT" => committed_txs(Append(L, e)) = committed_txs(L)
           /\ e.operation = "COMMIT" =>
                committed_txs(Append(L, e)) = committed_txs(L) \cup {e.transaction_id}
BY CommittedLaws

(* The first change of a transaction finds everything in order.            *)
LEMMA FirstChange ==
    ASSUME NEW L \in Seq(LogEntry), NEW w \in Who, ~HasChanges(L, w), NEW k, NEW c, NEW d,
           Clear(L, k, c, d)
    PROVE  Undoable(L, w, k, c, d, c) /\ Redoable(L, w, k, d, c)
<1>1. PICK r \in RedoModes : RedoGives(L, committed_txs(L), k, r, c) /\ RedoTo(r, c, d) = c
    BY DEF Clear
<1>2. UndoGives(L, w, k, "same", c)
    <2> SUFFICES ASSUME NEW t \in Tables, At(RowsOf(t), k) = c
                 PROVE  /\ At(RowsOf(Undone(L, t, w)), k) = c
                        /\ \A U \in SUBSET Who : OnlyChanger(L, w, U) =>
                               At(RowsOf(UndoneToBegin(L, t, U)), k) = c
        BY DEF UndoGives, Fits
    <2>1. Undone(L, t, w) = t
        BY NothingToUndo
    <2>2. ASSUME NEW U \in SUBSET Who, OnlyChanger(L, w, U) PROVE UndoneToBegin(L, t, U) = t
        <3>1. \A u \in U : ~HasChanges(L, u)
            BY <2>2 DEF OnlyChanger
        <3> QED
            BY <3>1, NothingToScan
    <2> QED
        BY <2>1, <2>2
<1>3. "same" \in UndoModes /\ Fits("same", c, RedoTo(r, c, d)) /\ Leaves("same", c, c)
    BY <1>1 DEF UndoModes, Fits, Leaves
<1>4. Undoable(L, w, k, c, d, c)
    BY <1>1, <1>2, <1>3 DEF Undoable
<1>5. RedoGives(L, committed_txs(L) \cup {w}, k, r, c)
    BY <1>1, RedoWithIdlers
<1>6. Redoable(L, w, k, d, c)
    BY <1>1, <1>5 DEF Redoable
<1> QED
    BY <1>4, <1>6

-----------------------------------------------------------------------------
(* A change of key k, of the rows n, leaves the rows next.                 *)
TurnsInto(e, k, n, next) ==
    /\ IsData(e) /\ Shaped(e) /\ KeyOf(e) = k
    /\ e.operation = "INSERT" => n = {} /\ next = {e.new_value}
    /\ e.operation = "DELETE" => n = {e.old_value} /\ next = {}
    /\ e.operation = "UPDATE" => n = {e.old_value} /\ next = {e.new_value}

NextUndoMode(m, e) ==
    IF m = "same" /\ e.operation = "DELETE" THEN "deleted"
    ELSE IF m \in {"same", "updated"} /\ e.operation = "UPDATE" THEN "updated"
    ELSE "free"

(* How the undo mode of a key moves on with one more change of that key.   *)
LEMMA UndoModeOfNext ==
    ASSUME NEW e, NEW k, NEW n, NEW next, TurnsInto(e, k, n, next),
           NEW m \in UndoModes, NEW c, Leaves(m, c, n)
    PROVE  /\ NextUndoMode(m, e) \in UndoModes
           /\ Leaves(NextUndoMode(m, e), c, next)
           /\ \A S : Fits(m, c, S) => Fits(NextUndoMode(m, e), c, S)
           /\ \A S : Fits(NextUndoMode(m, e), c, S) => Fits(m, c, UndoneRows(e, S))
<1>1. e.operation \in {"INSERT", "DELETE", "UPDATE"}
    BY DEF TurnsInto, IsData, DataOperations
<1> USE DEF UndoModes, NextUndoMode, Leaves, Fits, UndoneRows
<1>2. CASE e.operation = "INSERT"
    BY <1>2 DEF TurnsInto
<1>3. CASE e.operation = "DELETE"
    BY <1>3 DEF TurnsInto
<1>4. CASE e.operation = "UPDATE"
    BY <1>4 DEF TurnsInto
<1> QED
    BY <1>1, <1>2, <1>3, <1>4

NextRedoMode(r, e) ==
    IF r = "keep" /\ e.operation = "INSERT" THEN "insert"
    ELSE IF r \in {"keep", "update"} /\ e.operation = "UPDATE" THEN "update"
    ELSE "fixed"

(* How the redo mode of a key moves on with one more change of that key.   *)
LEMMA RedoModeOfNext ==
    ASSUME NEW e, NEW k, NEW n, NEW next, TurnsInto(e, k, n, next),
           NEW r \in RedoModes, r \in {"update", "insert"} => n # {}, NEW d, RedoTo(r, n, d) = n
    PROVE  /\ NextRedoMode(r, e) \in RedoModes
           /\ NextRedoMode(r, e) \in {"update", "insert"} => next # {}
           /\ RedoTo(NextRedoMode(r, e), next, d) = next
           /\ \A S : RedoTo(NextRedoMode(r, e), next, S) = RedoneRows(e, RedoTo(r, n, S))
<1>1. e.operation \in {"INSERT", "DELETE", "UPDATE"}
    BY DEF TurnsInto, IsData, DataOperations
<1> USE DEF RedoModes, NextRedoMode, RedoTo, RedoneRows
<1>2. CASE e.operation = "INSERT"
    BY <1>2 DEF TurnsInto
<1>3. CASE e.operation = "DELETE"
    BY <1>3 DEF TurnsInto
<1>4. CASE e.operation = "UPDATE"
    BY <1>4 DEF TurnsInto
<1> QED
    BY <1>1, <1>2, <1>3, <1>4

(* What the record of a change of w makes of an undo of w: *)
LEMMA UndoGivesOfNext ==
    ASSUME NEW L \in Seq(LogEntry), NEW e \in LogEntry, NEW w \in Who, e.transaction_id = w,
           IsData(e), Shaped(e), NEW k \in Keys, NEW c, NEW m, NEW more,
           UndoGives(L, w, k, m, c),
           \A S : Fits(more, c, S) => Fits(m, c, IF KeyOf(e) = k THEN UndoneRows(e, S) ELSE S)
    PROVE  UndoGives(Append(L, e), w, k, more, c)
<1> SUFFICES ASSUME NEW t \in Tables, Fits(more, c, At(RowsOf(t), k))
             PROVE  /\ At(RowsOf(Undone(Append(L, e), t, w)), k) = c
                    /\ \A U \in SUBSET Who : OnlyChanger(Append(L, e), w, U) =>
                           At(RowsOf(UndoneToBegin(Append(L, e), t, U)), k) = c
    BY DEF UndoGives
<1> DEFINE u == undo_operation(t, e)
<1>1. /\ u \in Tables
      /\ At(RowsOf(u), k) = IF KeyOf(e) = k THEN UndoneRows(e, At(RowsOf(t), k)) ELSE At(RowsOf(t), k)
    BY RowsUndone
<1> HIDE DEF u
<1>2. Fits(m, c, At(RowsOf(u), k))
    BY <1>1
<1>3. Undone(Append(L, e), t, w) = Undone(L, u, w)
    BY UndoneLaws DEF u
<1>4. \A U \in SUBSET Who : w \in U =>
          UndoneToBegin(Append(L, e), t, U) = UndoneToBegin(L, u, U)
    BY UndoneToBeginAt DEF u
<1>5. \A U \in SUBSET Who : OnlyChanger(Append(L, e), w, U) => OnlyChanger(L, w, U) /\ w \in U
    BY HasChangesLaws DEF OnlyChanger
<1> QED
    BY <1>1, <1>2, <1>3, <1>4, <1>5 DEF UndoGives

(* and any other record: none.                                             *)
LEMMA UndoGivesOfOther ==
    ASSUME NEW L \in Seq(LogEntry), NEW e \in LogEntry, ~IsData(e), NEW w \in Who,
           e.transaction_id # w \/ e.operation # "BEGIN",
           NEW k, NEW m, NEW c, UndoGives(L, w, k, m, c)
    PROVE  UndoGives(Append(L, e), w, k, m, c)
<1> SUFFICES ASSUME NEW t \in Tables, Fits(m, c, At(RowsOf(t), k))
             PROVE  /\ At(RowsOf(Undone(Append(L, e), t, w)), k) = c
                    /\ \A U \in SUBSET Who : OnlyChanger(Append(L, e), w, U) =>
                           At(RowsOf(UndoneToBegin(Append(L, e), t, U)), k) = c
    BY DEF UndoGives
<1>1. Undone(Append(L, e), t, w) = Undone(L, t, w)
    BY UndoneLaws
<1>2. ASSUME NEW U \in SUBSET Who, OnlyChanger(Append(L, e), w, U)
      PROVE  \E V \in SUBSET Who : OnlyChanger(L, w, V)
                 /\ UndoneToBegin(Append(L, e), t, U) = UndoneToBegin(L, t, V)
    <2>1. \A u : HasChanges(L, u) => HasChanges(Append(L, e), u)
        BY HasChangesLaws
    <2>2. OnlyChanger(L, w, U)
        BY <1>2, <2>1 DEF OnlyChanger
    <2>3. CASE e.transaction_id \in U /\ e.operation = "BEGIN"
        <3> DEFINE V == U \ {e.transaction_id}
        <3>1. UndoneToBegin(Append(L, e), t, U) = UndoneToBegin(L, t, V)
            BY <2>3, UndoneToBeginLaws
        <3>2. OnlyChanger(L, w, V) /\ V \in SUBSET Who
            BY <2>2, <2>3 DEF OnlyChanger
        <3> QED
            BY <3>1, <3>2
    <2>4. CASE ~(e.transaction_id \in U /\ e.operation = "BEGIN")
        <3>1. e.transaction_id \notin U \/ (e.operation # "BEGIN" /\ ~IsData(e)) =>
                  UndoneToBegin(Append(L, e), t, U) = UndoneToBegin(L, t, U)
            BY UndoneToBeginLaws
        <3> QED
            BY <2>2, <2>4, <3>1
    <2> QED
        BY <2>3, <2>4
<1> QED
    BY <1>1, <1>2 DEF UndoGives

-----------------------------------------------------------------------------
(* The record of a change. *)
LEMMA NextChange ==
    ASSUME NEW L \in Seq(LogEntry), NEW e \in LogEntry, NEW w \in Who, e.transaction_id = w,
           w \notin committed_txs(L), NEW k \in Keys, NEW c, NEW d, NEW n, NEW next,
           TurnsInto(e, k, n, next)
    PROVE  /\ Undoable(L, w, k, c, d, n) => Undoable(Append(L, e), w, k, c, d, next)
           /\ Redoable(L, w, k, d, n) => Redoable(Append(L, e), w, k, d, next)
<1>1. IsData(e) /\ Shaped(e) /\ KeyOf(e) = k /\ ~IsCheckpoint(e) /\ e.operation # "COMMIT"
    BY DEF TurnsInto, IsData, DataOperations, IsCheckpoint
<1>2. committed_txs(Append(L, e)) = committed_txs(L)
    BY <1>1, CommittedUnless
<1>3. ASSUME Undoable(L, w, k, c, d, n)
      PROVE  Undoable(Append(L, e), w, k, c, d, next)
    <2>1. PICK r \in RedoModes, m \in UndoModes :
              /\ RedoGives(L, committed_txs(L), k, r, c)
              /\ UndoGives(L, w, k, m, c)
              /\ Fits(m, c, RedoTo(r, c, d))
              /\ Leaves(m, c, n)
        BY <1>3 DEF Undoable
    <2> DEFINE more == NextUndoMode(m, e)
    <2>2. /\ more \in UndoModes /\ Leaves(more, c, next)
          /\ \A S : Fits(m, c, S) => Fits(more, c, S)
          /\ \A S : Fits(more, c, S) => Fits(m, c, UndoneRows(e, S))
        BY <2>1, UndoModeOfNext
    <2> HIDE DEF more
    <2>3. UndoGives(Append(L, e), w, k, more, c)
        BY <1>1, <2>1, <2>2, UndoGivesOfNext
    <2>4. RedoGives(Append(L, e), committed_txs(L), k, r, c)
        BY <1>1, <2>1, RedoPassesOver
    <2> QED
        BY <1>2, <2>1, <2>2, <2>3, <2>4 DEF Undoable
<1>4. ASSUME Redoable(L, w, k, d, n)
      PROVE  Redoable(Append(L, e), w, k, d, next)
    <2> DEFINE tids == committed_txs(L) \cup {w}
    <2>1. PICK r \in RedoModes : RedoGives(L, tids, k, r, n) /\ RedoTo(r, n, d) = n
        BY <1>4 DEF Redoable
    <2> DEFINE more == NextRedoMode(r, e)
    <2>2. /\ more \in RedoModes /\ RedoTo(more, next, d) = next
          /\ more \in {"update", "insert"} => next # {}
          /\ \A S : RedoTo(more, next, S) = RedoneRows(e, RedoTo(r, n, S))
        BY <2>1, RedoModeOfNext DEF RedoGives
    <2>3. w \in tids
        OBVIOUS
    <2> HIDE DEF more, tids
    <2>4. RedoGives(Append(L, e), tids, k, more, next)
        <3>1. ASSUME NEW t \in Tables
              PROVE  At(RowsOf(RedoneFrom(Append(L, e), t, tids)), k) = RedoTo(more, next, At(RowsOf(t), k))
            <4>1. /\ RedoneFrom(L, t, tids) \in Tables
                  /\ RedoneFrom(Append(L, e), t, tids) = redo_operation(RedoneFrom(L, t, tids), e)
                BY <1>1, <2>3, RedoneLonger
            <4>2. At(RowsOf(RedoneFrom(L, t, tids)), k) = RedoTo(r, n, At(RowsOf(t), k))
                BY <2>1 DEF RedoGives
            <4>3. At(RowsOf(RedoneFrom(Append(L, e), t, tids)), k)
                      = RedoneRows(e, RedoTo(r, n, At(RowsOf(t), k)))
                BY <1>1, <4>1, <4>2, RowsRedone
            <4> QED
                BY <2>2, <4>3
        <3> QED
            BY <2>2, <3>1 DEF RedoGives
    <2> QED
        BY <1>2, <2>2, <2>4 DEF Redoable, tids
<1> QED
    BY <1>3, <1>4

(* It does not matter to the other keys. *)
LEMMA NextChangeElsewhere ==
    ASSUME NEW L \in Seq(LogEntry), NEW e \in LogEntry, NEW w \in Who, e.transaction_id = w,
           w \notin committed_txs(L), NEW k \in Keys, NEW c, NEW d, NEW n,
           IsData(e), Shaped(e), KeyOf(e) # k
    PROVE  /\ Undoable(L, w, k, c, d, n) => Undoable(Append(L, e), w, k, c, d, n)
           /\ Redoable(L, w, k, d, n) => Redoable(Append(L, e), w, k, d, n)
<1>1. ~IsCheckpoint(e) /\ e.operation # "COMMIT"
    BY DEF IsData, DataOperations, IsCheckpoint
<1>2. committed_txs(Append(L, e)) = committed_txs(L)
    BY <1>1, CommittedUnless
<1>3. ASSUME Undoable(L, w, k, c, d, n)
      PROVE  Undoable(Append(L, e), w, k, c, d, n)
    <2>1. PICK r \in RedoModes, m \in UndoModes :
              /\ RedoGives(L, committed_txs(L), k, r, c)
              /\ UndoGives(L, w, k, m, c)
              /\ Fits(m, c, RedoTo(r, c, d))
              /\ Leaves(m, c, n)
        BY <1>3 DEF Undoable
    <2>2. UndoGives(Append(L, e), w, k, m, c)
        BY <2>1, UndoGivesOfNext
    <2>3. RedoGives(Append(L, e), committed_txs(L), k, r, c)
        BY <1>1, <2>1, RedoPassesOver
    <2> QED
        BY <1>2, <2>1, <2>2, <2>3 DEF Undoable
<1>4. ASSUME Redoable(L, w, k, d, n)
      PROVE  Redoable(Append(L, e), w, k, d, n)
    <2> DEFINE tids == committed_txs(L) \cup {w}
    <2>1. PICK r \in RedoModes : RedoGives(L, tids, k, r, n) /\ RedoTo(r, n, d) = n
        BY <1>4 DEF Redoable
    <2>3. w \in tids
        OBVIOUS
    <2> HIDE DEF tids
    <2>4. ASSUME NEW t \in Tables
          PROVE  At(RowsOf(RedoneFrom(Append(L, e), t, tids)), k) = At(RowsOf(RedoneFrom(L, t, tids)), k)
        <3>1. /\ RedoneFrom(L, t, tids) \in Tables
              /\ RedoneFrom(Append(L, e), t, tids) = redo_operation(RedoneFrom(L, t, tids), e)
            BY <1>1, <2>3, RedoneLonger
        <3> QED
            BY <3>1, RowsRedone
    <2>5. RedoGives(Append(L, e), tids, k, r, n)
        BY <2>1, <2>4 DEF RedoGives
    <2> QED
        BY <1>2, <2>1, <2>5 DEF Redoable, tids
<1> QED
    BY <1>3, <1>4

-----------------------------------------------------------------------------
(* A record that is no change, of a transaction that has made none if it   *)
(* has committed.                                                          *)
Idle(L, e) ==
    /\ ~IsData(e) /\ ~IsCheckpoint(e)
    /\ e.operation = "COMMIT" => ~HasChanges(L, e.transaction_id)

(* A record that changes no row and commits nothing changed leaves what    *)
(* redo makes of a key.                                                    *)
LEMMA RedoOfIdle ==
    ASSUME NEW L \in Seq(LogEntry), NEW e \in LogEntry, Idle(L, e), NEW w,
           NEW k, NEW r, NEW target
    PROVE  /\ RedoGives(L, committed_txs(L), k, r, target) =>
                RedoGives(Append(L, e), committed_txs(Append(L, e)), k, r, target)
           /\ RedoGives(L, committed_txs(L) \cup {w}, k, r, target) =>
                RedoGives(Append(L, e), committed_txs(Append(L, e)) \cup {w}, k, r, target)
<1> DEFINE u == e.transaction_id
           T == committed_txs(L)
           T2 == committed_txs(Append(L, e))
<1>1. ~IsCheckpoint(e) /\ ~IsData(e)
    BY DEF Idle
<1>2. \/ T2 = T
      \/ T2 = T \cup {u} /\ ~HasChanges(L, u)
    BY <1>1, CommittedUnless DEF Idle
<1> HIDE DEF u, T, T2
<1>3. ASSUME NEW tids, RedoGives(L, tids, k, r, target)
      PROVE  /\ RedoGives(Append(L, e), tids, k, r, target)
             /\ ~HasChanges(L, u) => RedoGives(Append(L, e), tids \cup {u}, k, r, target)
    <2>1. RedoGives(Append(L, e), tids, k, r, target)
        BY <1>1, <1>3, RedoPassesOver
    <2>2. ASSUME ~HasChanges(L, u)
          PROVE  RedoGives(Append(L, e), tids \cup {u}, k, r, target)
        <3>1. RedoGives(L, tids \cup {u}, k, r, target)
            BY <1>3, <2>2, RedoWithIdlers
        <3> QED
            BY <1>1, <3>1, RedoPassesOver
    <2> QED
        BY <2>1, <2>2
<1>4. (T \cup {u}) \cup {w} = (T \cup {w}) \cup {u}
    OBVIOUS
<1>5. RedoGives(L, T, k, r, target) => RedoGives(Append(L, e), T2, k, r, target)
    BY <1>2, <1>3
<1>6. RedoGives(L, T \cup {w}, k, r, target) => RedoGives(Append(L, e), T2 \cup {w}, k, r, target)
    <2> SUFFICES ASSUME RedoGives(L, T \cup {w}, k, r, target)
                 PROVE  RedoGives(Append(L, e), T2 \cup {w}, k, r, target)
        OBVIOUS
    <2> DEFINE V == T \cup {w}
    <2> HIDE DEF V
    <2>1. RedoGives(L, V, k, r, target)
        BY DEF V
    <2>2. /\ RedoGives(Append(L, e), V, k, r, target)
          /\ ~HasChanges(L, u) => RedoGives(Append(L, e), V \cup {u}, k, r, target)
        BY <1>3, <2>1
    <2>3. T2 \cup {w} = V \/ (T2 \cup {w} = V \cup {u} /\ ~HasChanges(L, u))
        BY <1>2, <1>4 DEF V
    <2> QED
        BY <2>2, <2>3
<1> QED
    BY <1>5, <1>6 DEF T, T2

(* Such a record leaves a key without pending changes so.                  *)
LEMMA ClearWithIdle ==
    ASSUME NEW L \in Seq(LogEntry), NEW e \in LogEntry, Idle(L, e), NEW k, NEW c, NEW d,
           Clear(L, k, c, d)
    PROVE  Clear(Append(L, e), k, c, d)
BY RedoOfIdle DEF Clear

(* Such a record of another transaction leaves what is known of the        *)
(* changes of w.                                                           *)
LEMMA OthersWithIdle ==
    ASSUME NEW L \in Seq(LogEntry), NEW e \in LogEntry, Idle(L, e),
           NEW w \in Who, e.transaction_id # w, NEW k, NEW c, NEW d, NEW n
    PROVE  /\ Curable(L, w, k, c, d) => Curable(Append(L, e), w, k, c, d)
           /\ Undoable(L, w, k, c, d, n) => Undoable(Append(L, e), w, k, c, d, n)
           /\ Redoable(L, w, k, d, n) => Redoable(Append(L, e), w, k, d, n)
<1>1. ~IsData(e)
    BY DEF Idle
<1>2. \A m : UndoGives(L, w, k, m, c) => UndoGives(Append(L, e), w, k, m, c)
    BY <1>1, UndoGivesOfOther
<1>3. \A r : RedoGives(L, committed_txs(L), k, r, c) =>
                RedoGives(Append(L, e), committed_txs(Append(L, e)), k, r, c)
    BY RedoOfIdle
<1>4. \A r : RedoGives(L, committed_txs(L) \cup {w}, k, r, n) =>
                RedoGives(Append(L, e), committed_txs(Append(L, e)) \cup {w}, k, r, n)
    BY RedoOfIdle
<1>5. Curable(L, w, k, c, d) => Curable(Append(L, e), w, k, c, d)
    BY <1>2, <1>3 DEF Curable
<1>6. Undoable(L, w, k, c, d, n) => Undoable(Append(L, e), w, k, c, d, n)
    BY <1>2, <1>3 DEF Undoable
<1>7. Redoable(L, w, k, d, n) => Redoable(Append(L, e), w, k, d, n)
    BY <1>4 DEF Redoable
<1> QED
    BY <1>5, <1>6, <1>7

(* A checkpoint record: from here on the file has to have what the table   *)
(* has.                                                                    *)
LEMMA WithCheckpoint ==
    ASSUME NEW L \in Seq(LogEntry), NEW e \in LogEntry, IsCheckpoint(e), NEW w \in Who,
           e.transaction_id # w, NEW k, NEW c, NEW d, NEW n
    PROVE  /\ Clear(Append(L, e), k, c, c)
           /\ Curable(L, w, k, c, d) => Curable(Append(L, e), w, k, c, c)
           /\ Undoable(L, w, k, c, d, n) => Undoable(Append(L, e), w, k, c, n, n)
           /\ Redoable(Append(L, e), w, k, n, n)
<1> DEFINE r == "keep"
<1>1. \A tids, target : RedoGives(Append(L, e), tids, k, r, target)
    BY RedoStartsAgain
<1>2. r \in RedoModes /\ \A target, S : RedoTo(r, target, S) = S
    BY DEF RedoModes, RedoTo
<1>3. ~IsData(e) /\ e.operation # "BEGIN"
    BY DEF IsCheckpoint, IsData, DataOperations
<1>4. \A m : UndoGives(L, w, k, m, c) => UndoGives(Append(L, e), w, k, m, c)
    BY <1>3, UndoGivesOfOther
<1> HIDE DEF r
<1>5. \A m \in UndoModes : Leaves(m, c, n) => Fits(m, c, n)
    BY DEF UndoModes, Leaves, Fits
<1>6. \A m \in UndoModes : \A S : Fits(m, c, S) => Fits(m, c, c)
    BY DEF UndoModes, Fits
<1>7. Clear(Append(L, e), k, c, c)
    BY <1>1, <1>2 DEF Clear
<1>8. Curable(L, w, k, c, d) => Curable(Append(L, e), w, k, c, c)
    BY <1>1, <1>2, <1>4, <1>6 DEF Curable
<1>9. Undoable(L, w, k, c, d, n) => Undoable(Append(L, e), w, k, c, n, n)
    BY <1>1, <1>2, <1>4, <1>5 DEF Undoable
<1>10. Redoable(Append(L, e), w, k, n, n)
    BY <1>1, <1>2 DEF Redoable
<1> QED
    BY <1>7, <1>8, <1>9, <1>10

(* The rows reach the file: those of the table, or the committed ones.     *)
LEMMA WithFlush ==
    ASSUME NEW L, NEW w, NEW k, NEW c, NEW d, NEW n
    PROVE  /\ Clear(L, k, c, d) => Clear(L, k, c, c)
           /\ Curable(L, w, k, c, d) => Curable(L, w, k, c, c)
           /\ Undoable(L, w, k, c, d, n) => Undoable(L, w, k, c, n, n)
           /\ Redoable(L, w, k, d, n) => Redoable(L, w, k, n, n)
           /\ Curable(L, w, k, c, d) => Clear(L, k, c, c)
<1>1. \A r \in RedoModes : \A S : RedoTo(r, S, S) = S
    BY DEF RedoModes, RedoTo
<1>2. \A m \in UndoModes : \A S : Fits(m, c, S) => Fits(m, c, c)
    BY DEF UndoModes, Fits
<1>3. \A r \in RedoModes, m \in UndoModes :
          Leaves(m, c, n) /\ Fits(m, c, RedoTo(r, c, d)) => Fits(m, c, RedoTo(r, c, n))
    <2> TAKE r \in RedoModes, m \in UndoModes
    <2> USE DEF RedoModes, RedoTo, Leaves, Fits
    <2>1. CASE m = "same"
        BY <2>1
    <2>2. CASE m = "updated"
        BY <2>2
    <2>3. CASE m = "deleted"
        BY <2>3
    <2>4. CASE m = "free"
        BY <2>4
    <2> QED
        BY <2>1, <2>2, <2>3, <2>4 DEF UndoModes
<1>4. Clear(L, k, c, d) => Clear(L, k, c, c)
    BY <1>1 DEF Clear
<1>5. Curable(L, w, k, c, d) => Curable(L, w, k, c, c)
    BY <1>1, <1>2 DEF Curable
<1>6. Undoable(L, w, k, c, d, n) => Undoable(L, w, k, c, n, n)
    BY <1>3 DEF Undoable
<1>7. Redoable(L, w, k, d, n) => Redoable(L, w, k, n, n)
    BY <1>1 DEF Redoable
<1>8. Curable(L, w, k, c, d) => Clear(L, k, c, c)
    BY <1>1 DEF Curable, Clear
<1> QED
    BY <1>4, <1>5, <1>6, <1>7, <1>8

(* A key whose rows the rollback restores is one recovery restores.        *)
LEMMA UndoableIsCurable ==
    ASSUME NEW L, NEW w, NEW k, NEW c, NEW d, NEW n, Undoable(L, w, k, c, d, n)
    PROVE  Curable(L, w, k, c, d)
BY DEF Undoable, Curable

(* COMMIT: what could be redone is to be redone. *)
LEMMA WithCommit ==
    ASSUME NEW L \in Seq(LogEntry), NEW e \in LogEntry, e.operation = "COMMIT",
           NEW k, NEW d, NEW n, Redoable(L, e.transaction_id, k, d, n)
    PROVE  Clear(Append(L, e), k, n, d)
<1> DEFINE tids == committed_txs(L) \cup {e.transaction_id}
<1>1. ~IsCheckpoint(e) /\ ~IsData(e)
    BY DEF IsCheckpoint, IsData, DataOperations
<1>2. committed_txs(Append(L, e)) = tids
    BY <1>1, CommittedUnless
<1>3. PICK r \in RedoModes : RedoGives(L, tids, k, r, n) /\ RedoTo(r, n, d) = n
    BY DEF Redoable
<1> HIDE DEF tids
<1>4. RedoGives(Append(L, e), tids, k, r, n)
    BY <1>1, <1>3, RedoPassesOver
<1> QED
    BY <1>2, <1>3, <1>4 DEF Clear

(* Rollback. *)
LEMMA RollbackGives ==
    ASSUME NEW L, NEW w, NEW k, NEW c, NEW d, NEW t \in Tables,
           Undoable(L, w, k, c, d, At(RowsOf(t), k))
    PROVE  At(RowsOf(Undone(L, t, w)), k) = c
<1>1. PICK m \in UndoModes : UndoGives(L, w, k, m, c) /\ Leaves(m, c, At(RowsOf(t), k))
    BY DEF Undoable
<1>2. Fits(m, c, At(RowsOf(t), k))
    BY <1>1 DEF UndoModes, Leaves, Fits
<1> QED
    BY <1>1, <1>2 DEF UndoGives

(* Recovery. *)
LEMMA RecoveryGives ==
    ASSUME NEW L \in Seq(LogEntry), NEW k, NEW c, NEW t \in Tables,
           \/ /\ \A u \in undo_list(L) : ~HasChanges(L, u)
              /\ Clear(L, k, c, At(RowsOf(t), k))
           \/ \E w \in undo_list(L) :
                /\ \A u \in undo_list(L) \ {w} : ~HasChanges(L, u)
                /\ Curable(L, w, k, c, At(RowsOf(t), k))
    PROVE  At(RowsOf(Recovered(L, t)), k) = c
<1> DEFINE q == RedoneFrom(L, t, committed_txs(L))
           U == undo_list(L)
<1>1. q \in Tables
    <2>1. SinceCheckpoint(L) \in Seq(LogEntry)
        BY SinceCheckpointLaws
    <2> QED
        BY <2>1, RedoneLaws DEF RedoneFrom
<1>2. U \in SUBSET Who
    BY UndoListLaws
<1>3. Recovered(L, t) = UndoneToBegin(L, q, U)
    BY DEF Recovered, RedoneFrom
<1>4. \A r : RedoGives(L, committed_txs(L), k, r, c) =>
                At(RowsOf(q), k) = RedoTo(r, c, At(RowsOf(t), k))
    BY DEF RedoGives
<1> HIDE DEF q
<1>5. CASE (\A u \in U : ~HasChanges(L, u)) /\ Clear(L, k, c, At(RowsOf(t), k))
    <2>1. UndoneToBegin(L, q, U) = q
        BY <1>1, <1>2, <1>5, NothingToScan
    <2> QED
        BY <1>3, <1>4, <1>5, <2>1 DEF Clear
<1>6. ASSUME NEW w \in U, \A u \in U \ {w} : ~HasChanges(L, u),
             Curable(L, w, k, c, At(RowsOf(t), k))
      PROVE  At(RowsOf(Recovered(L, t)), k) = c
    <2>1. PICK r \in RedoModes, m \in UndoModes :
              /\ RedoGives(L, committed_txs(L), k, r, c)
              /\ UndoGives(L, w, k, m, c)
              /\ Fits(m, c, RedoTo(r, c, At(RowsOf(t), k)))
        BY <1>6 DEF Curable
    <2>2. Fits(m, c, At(RowsOf(q), k))
        BY <1>4, <2>1
    <2>3. OnlyChanger(L, w, U)
        BY <1>6 DEF OnlyChanger
    <2> HIDE DEF U
    <2>4. At(RowsOf(UndoneToBegin(L, q, U)), k) = c
        BY <1>1, <1>2, <2>1, <2>2, <2>3 DEF UndoGives
    <2> QED
        BY <1>3, <2>4
<1> QED
    BY <1>5, <1>6

(* Whose changes are not in the file need not be undone. *)
LEMMA CurableWithoutChanges ==
    ASSUME NEW L \in Seq(LogEntry), NEW w, ~HasChanges(L, w), NEW k, NEW c, NEW t \in Tables,
           Curable(L, w, k, c, At(RowsOf(t), k))
    PROVE  Clear(L, k, c, At(RowsOf(t), k))
<1> DEFINE q == RedoneFrom(L, t, committed_txs(L))
<1>1. q \in Tables
    <2>1. SinceCheckpoint(L) \in Seq(LogEntry)
        BY SinceCheckpointLaws
    <2> QED
        BY <2>1, RedoneLaws DEF RedoneFrom
<1>2. PICK r \in RedoModes, m \in UndoModes :
          /\ RedoGives(L, committed_txs(L), k, r, c)
          /\ UndoGives(L, w, k, m, c)
          /\ Fits(m, c, RedoTo(r, c, At(RowsOf(t), k)))
    BY DEF Curable
<1>3. At(RowsOf(q), k) = RedoTo(r, c, At(RowsOf(t), k))
    BY <1>2 DEF RedoGives
<1> HIDE DEF q
<1>4. At(RowsOf(Undone(L, q, w)), k) = c
    BY <1>1, <1>2, <1>3 DEF UndoGives
<1>5. Undone(L, q, w) = q
    BY <1>1, NothingToUndo
<1> QED
    BY <1>2, <1>3, <1>4, <1>5 DEF Clear

(* Nothing logged: what is in the file is what is committed. *)
LEMMA ClearOfNothing ==
    ASSUME NEW k, NEW c, NEW t \in Tables, Clear(<<>>, k, c, At(RowsOf(t), k))
    PROVE  At(RowsOf(t), k) = c
<1>1. \A tids : RedoneFrom(<<>>, t, tids) = t
    <2>1. <<>> \in Seq(LogEntry)
        OBVIOUS
    <2>2. SinceCheckpoint(<<>>) = <<>>
        BY <2>1, SinceCheckpointLaws
    <2>3. \A tids : Redone(<<>>, t, tids) = t
        BY <2>1, RedoneLaws
    <2> QED
        BY <2>2, <2>3 DEF RedoneFrom
<1> QED
    BY <1>1 DEF Clear, RedoGives

-----------------------------------------------------------------------------
(* Types.                                                                  *)

(* What TypeOK says that Inv does not.                                     *)
RestTyped ==
    /\ Len(log_buffer) < MAX_BUFFER_SIZE /\ next_log_id # 0
    /\ mtx \in {"free", "commit", "checkpoint", "started", "flushed"}
    /\ table \in Tables /\ disk \in Tables
    /\ marker \in BOOLEAN
    /\ \A t \in Tids : unlogged[t] # {} <=> session[t] = "writing"
    /\ changed \in [Tids -> SUBSET Keys]
    /\ committed \subseteq Row /\ unrecorded \subseteq Keys
    /\ lives \in Nat /\ crashes \in Nat

(* The invariant and the rest of the types are the type invariant.         *)
LEMMA TypedIsTypeOK == Inv /\ RestTyped => TypeOK
BY DEF Inv, Typed, LogTyped, RestTyped, TypeOK, Places, Changes, Tables

(* Recovery makes a table of a table.                                      *)
LEMMA RecoveredIsTyped ==
    ASSUME NEW L \in Seq(LogEntry), NEW t \in Tables
    PROVE  Recovered(L, t) \in Tables
<1>1. SinceCheckpoint(L) \in Seq(LogEntry) /\ undo_list(L) \in SUBSET Who
    BY SinceCheckpointLaws, UndoListLaws
<1>2. Redone(SinceCheckpoint(L), t, committed_txs(L)) \in Tables
    BY <1>1, RedoneLaws
<1> QED
    BY <1>1, <1>2, UndoneToBeginLaws DEF Recovered

(* The log buffer never stays full, and ids of records are never 0 again.  *)
LEMMA BufferStaysShort ==
    ASSUME LogTyped, RestTyped, NEW e,
           Push(e) \/ AppendAndFlush(e) \/ flush_buffer \/ Skips \/ UNCHANGED log
    PROVE  Len(log_buffer') < MAX_BUFFER_SIZE /\ next_log_id' # 0
<1> USE BoundsAssumption DEF RestTyped, LogTyped
<1>1. CASE AppendAndFlush(e)
    BY <1>1 DEF AppendAndFlush
<1>2. CASE flush_buffer
    BY <1>2 DEF flush_buffer
<1>3. CASE UNCHANGED log
    BY <1>3 DEF log
<1>4. CASE Push(e) /\ ~AppendAndFlush(e)
    BY <1>4 DEF Push
<1>5. CASE Skips
    BY <1>5 DEF Skips
<1> QED
    BY <1>1, <1>2, <1>3, <1>4, <1>5

(* Beginning, logging and ending a transaction keep the types.             *)
LEMMA TypesOfTransactions ==
    ASSUME Inv, RestTyped, NEW t \in Tids,
           \/ begin_transaction(t) \/ write_log(t) \/ commit_log(t) \/ commit_data(t)
           \/ abort_check(t) \/ recover(t) \/ abort_data(t) \/ abort_log(t)
    PROVE  RestTyped'
<1>1. LogTyped /\ Typed
    BY DEF Inv, Typed
<1>2. PICK e : Push(e) \/ AppendAndFlush(e) \/ flush_buffer \/ Skips \/ UNCHANGED log
    BY DEF begin_transaction, write_log, LogOrDrop, Skips, commit_log, commit_data, abort_check,
           recover, abort_data, abort_log
<1>3. Len(log_buffer') < MAX_BUFFER_SIZE /\ next_log_id' # 0
    BY <1>1, <1>2, BufferStaysShort
<1>4. table' \in Tables /\ disk' \in Tables
    <2>1. CASE recover(t)
        <3>1. EverLogged \in Seq(LogEntry)
            BY <1>1 DEF EverLogged, LogTyped
        <3>2. Undone(EverLogged, table, t) \in Tables
            BY <3>1, UndoneLaws DEF RestTyped
        <3> QED
            BY <2>1, <3>2 DEF recover, RestTyped, EverLogged
    <2>2. CASE ~recover(t)
        BY <2>2 DEF RestTyped, begin_transaction, write_log, commit_log, commit_data,
                    abort_check, abort_data, abort_log
    <2> QED
        BY <2>1, <2>2
<1>5. \A u \in Tids : unlogged'[u] # {} <=> session'[u] = "writing"
    BY <1>1 DEF Typed, RestTyped, begin_transaction, write_log, commit_log, commit_data,
                abort_check, recover, abort_data, abort_log
<1>6. changed' \in [Tids -> SUBSET Keys] /\ committed' \subseteq Row
    BY DEF RestTyped, RowsOf, begin_transaction, write_log, commit_log, commit_data,
           abort_check, recover, abort_data, abort_log
<1>7. mtx' \in {"free", "commit", "checkpoint", "started", "flushed"}
      /\ UNCHANGED <<marker, unrecorded, lives, crashes>>
    BY DEF RestTyped, begin_transaction, write_log, commit_log, commit_data,
           abort_check, recover, abort_data, abort_log, bounds
<1> QED
    BY <1>3, <1>4, <1>5, <1>6, <1>7 DEF RestTyped

(* A change of the table keeps the types.                                  *)
LEMMA TypesOfChanges ==
    ASSUME Inv, RestTyped, NEW t \in Tids, NEW op, NEW K \in SUBSET Keys, NEW rows \in Tables,
           NEW old, NEW new, Change(t, op, K, rows, old, new), unrecorded' \subseteq Keys
    PROVE  RestTyped'
<1>1. Typed
    BY DEF Inv
<1>2. \A u \in Tids : unlogged'[u] # {} <=> session'[u] = "writing"
    BY <1>1 DEF Change, Typed, RestTyped
<1>3. changed' \in [Tids -> SUBSET Keys]
    BY DEF Change, RestTyped
<1> QED
    BY <1>2, <1>3 DEF Change, RestTyped, log

(* Setting the values of the rows with keys in K makes a table of a        *)
(* table.                                                                  *)
LEMMA ManyValuesSet ==
    ASSUME NEW t \in Tables, NEW K, NEW v
    PROVE  SetValue(t, K, v) \in Tables
<1>1. \A k : Copies(t, {k}) \in Nat
    BY CopiesCount
<1> QED
    BY <1>1 DEF SetValue, Tables

(* The statements keep the types.                                          *)
LEMMA TypesOfStatements ==
    ASSUME Inv, RestTyped, NEW t \in Tids,
           \/ \E row \in Row : execute_insert(t, row) \/ execute_update_unconditional(t, row)
           \/ \E K \in WhereSets : execute_delete(t, K)
                                 \/ \E v \in Values : execute_update(t, K, v)
    PROVE  RestTyped'
<1>1. table \in Tables /\ unrecorded \subseteq Keys
    BY DEF RestTyped
<1>2. ASSUME NEW row \in Row, execute_insert(t, row)
      PROVE  RestTyped'
    <2>1. {row.key} \in SUBSET Keys /\ Insert(table, row) \in Tables
        BY <1>1, InsertIs DEF Row
    <2> QED
        BY <1>1, <1>2, <2>1, TypesOfChanges DEF execute_insert
<1>3. ASSUME NEW K \in WhereSets, execute_delete(t, K)
      PROVE  RestTyped'
    <2>1. K \in SUBSET Keys /\ Delete(table, K) \in Tables
        BY <1>1, DeleteIs, WhereSetsAssumption
    <2> QED
        BY <1>1, <1>3, <2>1, TypesOfChanges DEF execute_delete
<1>4. ASSUME NEW K \in WhereSets, NEW v \in Values, execute_update(t, K, v)
      PROVE  RestTyped'
    <2>1. K \in SUBSET Keys /\ SetValue(table, K, v) \in Tables
        BY <1>1, ManyValuesSet, WhereSetsAssumption
    <2> QED
        BY <1>1, <1>4, <2>1, TypesOfChanges DEF execute_update
<1>5. ASSUME NEW row \in Row, execute_update_unconditional(t, row)
      PROVE  RestTyped'
    <2>1. PICK K, old, new : /\ K \in SUBSET Keys
                             /\ Change(t, "UPDATE", K, Insert(table, row), old, new)
                             /\ unrecorded' = unrecorded \cup K
        BY <1>5 DEF execute_update_unconditional, Row
    <2>2. Insert(table, row) \in Tables /\ unrecorded' \subseteq Keys
        BY <1>1, <2>1, InsertIs
    <2> QED
        BY <2>1, <2>2, TypesOfChanges
<1> QED
    BY <1>2, <1>3, <1>4, <1>5

(* Checkpoints, the buffer pool, crashes and lives keep the types.         *)
LEMMA TypesOfTheRest ==
    ASSUME Inv, Inv', RestTyped,
           \/ checkpoint_begin \/ checkpoint_start \/ checkpoint_data \/ checkpoint_end
           \/ evict_page \/ exit
           \/ crash \/ restart \/ recover_from_crash \/ remove_marker \/ construct
    PROVE  RestTyped'
<1>1. LogTyped /\ Typed
    BY DEF Inv, Typed
<1>2. CASE checkpoint_begin \/ checkpoint_start \/ checkpoint_data \/ checkpoint_end
           \/ evict_page \/ exit
    <2>1. PICK e : AppendAndFlush(e) \/ flush_buffer \/ UNCHANGED log
        BY <1>2 DEF checkpoint_begin, checkpoint_start, checkpoint_data, checkpoint_end,
                    evict_page, exit
    <2>2. Len(log_buffer') < MAX_BUFFER_SIZE /\ next_log_id' # 0
        BY <1>1, <2>1, BufferStaysShort
    <2>3. /\ UNCHANGED <<table, session, unlogged, changed, committed, unrecorded, lives,
                         crashes>>
          /\ disk' = table \/ disk' = disk
          /\ marker' = marker \/ marker' = FALSE
          /\ mtx' = mtx \/ mtx' \in {"free", "checkpoint", "started", "flushed"}
        BY <1>2 DEF checkpoint_begin, checkpoint_start, checkpoint_data, checkpoint_end,
                    evict_page, exit, CheckpointStep, client, bounds
    <2> QED
        BY <2>2, <2>3 DEF RestTyped
<1>3. CASE crash \/ restart
    <2>1. /\ Vanish /\ UNCHANGED <<marker, unrecorded, lives>>
          /\ crashes' = crashes + 1 \/ crashes' = crashes
        BY <1>3 DEF crash, restart, bounds
    <2>2. Len(log_buffer') < MAX_BUFFER_SIZE
        BY <2>1, BoundsAssumption DEF Vanish
    <2> QED
        BY <2>1, <2>2 DEF Vanish, RestTyped
<1>4. CASE recover_from_crash
    <2>1. disk' \in Tables
        BY <1>1, <1>4, RecoveredIsTyped DEF recover_from_crash, RestTyped, LogTyped
    <2> QED
        BY <1>4, <2>1 DEF recover_from_crash, RestTyped, log, client, bounds
<1>5. CASE remove_marker
    BY <1>5 DEF remove_marker, RestTyped, log, client, bounds
<1>6. CASE construct
    <2>1. /\ marker' = TRUE /\ lives' = lives + 1
          /\ UNCHANGED <<log_buffer, mtx, table, disk, session, unlogged, changed, committed,
                         unrecorded, crashes>>
        BY <1>6 DEF construct, client
    <2>2. next_log_id' # 0
        <3>1. next_log_id' = IF wal = <<>> THEN 1 ELSE Last(wal).log_id + 1
            BY <1>6 DEF construct
        <3>2. wal # <<>> => Last(wal).log_id \in Nat
            BY <1>1, LastIsTheHighest DEF Inv, LogTyped
        <3> QED
            BY <3>1, <3>2
    <2> QED
        BY <2>1, <2>2 DEF RestTyped
<1> QED
    BY <1>2, <1>3, <1>4, <1>5, <1>6

(* The types hold at the start.                                            *)
LEMMA InitIsTyped == Init => RestTyped
<1> SUFFICES ASSUME Init PROVE RestTyped
    OBVIOUS
<1>1. table \in Tables /\ disk \in Tables
    BY DEF Init, Tables
<1>2. Len(log_buffer) < MAX_BUFFER_SIZE /\ next_log_id # 0
    BY BoundsAssumption DEF Init
<1>3. \A t \in Tids : unlogged[t] # {} <=> session[t] = "writing"
    BY DEF Init
<1>4. changed \in [Tids -> SUBSET Keys] /\ committed \subseteq Row /\ unrecorded \subseteq Keys
    BY DEF Init
<1> QED
    BY <1>1, <1>2, <1>3, <1>4 DEF Init, RestTyped

(* Every step keeps the types.                                             *)
LEMMA TypesKept == Inv /\ Inv' /\ RestTyped /\ [Next]_vars => RestTyped'
<1> SUFFICES ASSUME Inv, Inv', RestTyped, [Next]_vars
             PROVE  RestTyped'
    OBVIOUS
<1>1. ASSUME NEW t \in Tids,
             \/ begin_transaction(t)
             \/ \E row \in Row : execute_insert(t, row) \/ execute_update_unconditional(t, row)
             \/ \E K \in WhereSets :
                    execute_delete(t, K) \/ \E v \in Values : execute_update(t, K, v)
             \/ write_log(t) \/ commit_log(t) \/ commit_data(t)
             \/ abort_check(t) \/ recover(t) \/ abort_data(t) \/ abort_log(t)
      PROVE  RestTyped'
    BY <1>1, TypesOfTransactions, TypesOfStatements
<1>2. CASE \/ checkpoint_begin \/ checkpoint_start \/ checkpoint_data \/ checkpoint_end
           \/ evict_page \/ exit
           \/ crash \/ restart \/ recover_from_crash \/ remove_marker \/ construct
    BY <1>2, TypesOfTheRest
<1>3. CASE UNCHANGED vars
    BY <1>3 DEF vars, RestTyped
<1> QED
    BY <1>1, <1>2, <1>3 DEF Next

(* The types always hold.                                                  *)
LEMMA TypesAlways == Spec => [](Inv /\ RestTyped)
<1>1. Init => Inv /\ RestTyped
    BY InitKeeps, InitIsTyped
<1>2. Inv /\ RestTyped /\ [Next]_vars => Inv' /\ RestTyped'
    BY NextKeeps, TypesKept
<1> QED
    BY <1>1, <1>2, PTL DEF Spec

(* Types, and a change is owed to the log exactly between the table and    *)
(* write_log.                                                              *)
THEOREM TypesAreKept == Spec => []TypeOK
BY TypesAlways, TypedIsTypeOK, PTL

-----------------------------------------------------------------------------
(* What a record does to the changes logged under each id.                 *)
LEMMA ChangesLogged ==
    ASSUME LogTyped, NEW e \in LogEntry, Push(e) \/ AppendAndFlush(e)
    PROVE  \A u : HasChanges(EverLogged', u) <=>
                HasChanges(EverLogged, u) \/ (e.transaction_id = u /\ IsData(e))
<1>1. EverLogged' = Append(EverLogged, e) /\ EverLogged \in Seq(LogEntry)
    BY RecordsAreAppended DEF LogTyped, EverLogged
<1> DEFINE s == EverLogged
           r == EverLogged'
<1>2. r = Append(s, e) /\ s \in Seq(LogEntry)
    BY <1>1
<1> HIDE DEF s, r
<1>3. \A u : HasChanges(r, u) <=> HasChanges(s, u) \/ (e.transaction_id = u /\ IsData(e))
    BY <1>2, HasChangesLaws
<1> QED
    BY <1>3 DEF r, s

InLife == process \in {"up", "exiting", "exited"}

(* Who has changes, and where they are, in the first life.                 *)
Owned ==
    /\ \A t \in Tids : t \in active_transactions_cache <=> session[t] \notin {"none", "ended"}
    /\ \A t, u \in Tids : changed[t] # {} /\ changed[u] # {} => t = u
    /\ \A t \in Tids : changed[t] # {} => session[t] \notin {"none", "ended"}
    /\ \A t \in Tids : HasChanges(EverLogged, t) =>
           session[t] # "none" /\ (session[t] # "ended" => changed[t] # {})
    /\ \A t \in Tids : session[t] = "open" /\ changed[t] # {} => HasChanges(EverLogged, t)
    /\ \A t \in Tids : session[t] \in {"writing", "undoing", "undone"} => changed[t] # {}
    /\ \A t \in Tids : session[t] = "closing" /\ changed[t] # {} => disk = table
    /\ (\A t \in Tids : changed[t] = {}) => disk = table

(* Nobody has any, before and after it.                                    *)
AtEase ==
    /\ \A t \in Tids : session[t] = "none" /\ changed[t] = {}
    /\ disk = table

Ownership ==
    /\ InLife /\ lives = 1 => Owned
    /\ InLife /\ lives # 1 => lives > 1 /\ AtEase
    /\ ~InLife => AtEase /\ (lives = 0 => wal = <<>>)

(* Transactions of the first life only, which keep what they have changed  *)
(* to themselves until they have ended.                                    *)
Orderly == Mishaps \cap {"early release", "unconditional update"} = {} /\ MaxLives <= 1

(* write_log writes a record of every change it is called for.             *)
NoneDropped == \A t \in Tids : \A c \in unlogged[t] : ~Dropped(c)

Everything == Inv /\ RestTyped /\ NoneDropped

(* The changes of the statements with conditions have a row to log.        *)
LEMMA ChangesHaveRows ==
    ASSUME Typed, NoneDropped, NEW t \in Tids, NEW op, NEW K, NEW rows, NEW old, NEW new,
           Change(t, op, K, rows, old, new), op = "UPDATE" => old \in Row
    PROVE  NoneDropped'
<1>1. \A r \in Row : r # NoRow
    BY KeysAssumption DEF Row, NoRow
<1> DEFINE c == [operation |-> op, old_value |-> old, new_value |-> new]
<1>2. ~Dropped(c)
    BY <1>1 DEF Dropped
<1>3. unlogged' = [unlogged EXCEPT ![t] = {c}]
    BY DEF Change
<1> HIDE DEF c
<1> QED
    BY <1>2, <1>3 DEF NoneDropped, Typed

LEMMA NoneDroppedKept == Orderly /\ Typed /\ NoneDropped /\ [Next]_vars => NoneDropped'
<1> SUFFICES ASSUME Orderly, Typed, NoneDropped, [Next]_vars
             PROVE  NoneDropped'
    OBVIOUS
<1>1. ASSUME NEW t \in Tids,
             \/ \E row \in Row : execute_insert(t, row)
             \/ \E K \in WhereSets :
                    execute_delete(t, K) \/ \E v \in Values : execute_update(t, K, v)
      PROVE  NoneDropped'
    <2>1. ASSUME NEW row \in Row, execute_insert(t, row)
          PROVE  NoneDropped'
        BY <2>1, ChangesHaveRows DEF execute_insert
    <2>2. ASSUME NEW K \in WhereSets, execute_delete(t, K)
          PROVE  NoneDropped'
        BY <2>2, ChangesHaveRows DEF execute_delete
    <2>3. ASSUME NEW K \in WhereSets, NEW v \in Values, execute_update(t, K, v)
          PROVE  NoneDropped'
        BY <2>3, ChangesHaveRows DEF execute_update, RowsOf
    <2> QED
        BY <1>1, <2>1, <2>2, <2>3
<1>2. ASSUME NEW t \in Tids,
             \/ begin_transaction(t) \/ write_log(t) \/ commit_log(t) \/ commit_data(t)
             \/ abort_check(t) \/ recover(t) \/ abort_data(t) \/ abort_log(t)
      PROVE  NoneDropped'
    <2>1. unlogged' = unlogged \/ unlogged' = [unlogged EXCEPT ![t] = {}]
        BY <1>2 DEF begin_transaction, write_log, commit_log, commit_data, abort_check, recover,
                    abort_data, abort_log
    <2> QED
        BY <2>1 DEF NoneDropped, Typed
<1>3. CASE crash \/ restart
    <2>1. unlogged' = [t \in Tids |-> {}]
        BY <1>3 DEF crash, restart, Vanish
    <2> QED
        BY <2>1 DEF NoneDropped
<1>4. CASE \/ checkpoint_begin \/ checkpoint_start \/ checkpoint_data \/ checkpoint_end
           \/ evict_page \/ exit \/ recover_from_crash \/ remove_marker \/ construct
           \/ UNCHANGED vars
    <2>1. unlogged' = unlogged
        BY <1>4 DEF checkpoint_begin, checkpoint_start, checkpoint_data, checkpoint_end,
                    CheckpointStep, evict_page, exit, recover_from_crash, remove_marker,
                    construct, client, vars
    <2> QED
        BY <2>1 DEF NoneDropped
<1>5. \A t \in Tids : \A row \in Row : ~execute_update_unconditional(t, row)
    BY DEF Orderly, execute_update_unconditional
<1> QED
    BY <1>1, <1>2, <1>3, <1>4, <1>5 DEF Next

(* So write_log never takes an id for nothing.                             *)
LEMMA EverythingAlways == Orderly /\ Spec => []Everything
<1> SUFFICES ASSUME Orderly
             PROVE  Spec => []Everything
    OBVIOUS
<1>1. Init => NoneDropped
    BY DEF Init, NoneDropped
<1>2. Inv /\ RestTyped /\ NoneDropped /\ [Next]_vars => NoneDropped'
    BY NoneDroppedKept DEF Inv
<1>3. Inv /\ RestTyped /\ NoneDropped => Everything
    BY DEF Everything
<1> QED
    BY <1>1, <1>2, <1>3, TypesAlways, PTL DEF Spec

(* Transactions run in the first life of the process only, while the file  *)
(* is owned.                                                               *)
LEMMA NoTransactionsLater ==
    ASSUME Orderly, Everything, Ownership, NEW t \in Tids,
           \/ begin_transaction(t)
           \/ \E row \in Row : execute_insert(t, row)
           \/ \E K \in WhereSets : execute_delete(t, K)
                                 \/ \E v \in Values : execute_update(t, K, v)
           \/ write_log(t) \/ commit_log(t) \/ commit_data(t)
           \/ abort_check(t) \/ recover(t) \/ abort_data(t) \/ abort_log(t)
    PROVE  process = "up" /\ InLife /\ lives = 1 /\ Owned
           /\ process' = "up" /\ lives' = 1
<1>1. process = "up" /\ process' = process /\ lives' = lives
      /\ (session[t] = "none" => lives <= MaxLives)
    BY DEF begin_transaction, execute_insert, execute_delete, execute_update, Change, write_log,
           commit_log, commit_data, abort_check, recover, abort_data, abort_log, Running, bounds
<1>3. lives \in Nat /\ MaxLives \in Nat /\ MaxLives <= 1
    BY BoundsAssumption DEF Orderly, Everything, RestTyped
<1>4. lives # 1 => lives > 1 /\ session[t] = "none"
    BY <1>1 DEF Ownership, InLife, AtEase
<1>2. lives = 1
    BY <1>1, <1>3, <1>4
<1> QED
    BY <1>1, <1>2 DEF Ownership, InLife

(* A change of the table keeps what is said of the first life: the one     *)
(* transaction with changes holds the exclusive lock.                      *)
LEMMA OwnedByChanges ==
    ASSUME Orderly, Everything, Owned, NEW t \in Tids, NEW op, NEW K, K # {}, NEW rows,
           NEW old, NEW new, Change(t, op, K, rows, old, new)
    PROVE  Owned'
<1>1. session \in [Tids -> Places] /\ changed \in [Tids -> SUBSET Keys]
    BY DEF Everything, Inv, Typed, RestTyped
<1>2. /\ session[t] = "open" /\ session' = [session EXCEPT ![t] = "writing"]
      /\ changed' = [changed EXCEPT ![t] = @ \cup K]
      /\ UNCHANGED <<log_buffer, wal, active_transactions_cache, disk>>
    BY DEF Change, log
<1>3. \A u \in Tids \ {t} : changed[u] = {}
    BY DEF Change, Protected, Orderly
<1>4. EverLogged' = EverLogged
    BY <1>2 DEF EverLogged
<1>5. \A u \in Tids : changed'[u] # {} <=> u = t
    BY <1>1, <1>2, <1>3
<1>6. \A u \in Tids : session'[u] = IF u = t THEN "writing" ELSE session[u]
    BY <1>1, <1>2
<1> QED
    BY <1>2, <1>3, <1>4, <1>5, <1>6 DEF Owned

(* So do the statements.                                                   *)
LEMMA OwnedByStatements ==
    ASSUME Orderly, Everything, Owned, NEW t \in Tids,
           \/ \E row \in Row : execute_insert(t, row)
           \/ \E K \in WhereSets : execute_delete(t, K)
                                 \/ \E v \in Values : execute_update(t, K, v)
    PROVE  Owned'
<1>1. ASSUME NEW row \in Row, execute_insert(t, row)
      PROVE  Owned'
    <2>1. {row.key} # {}
        OBVIOUS
    <2> QED
        BY <1>1, <2>1, OwnedByChanges DEF execute_insert
<1>2. ASSUME NEW K \in WhereSets, execute_delete(t, K)
      PROVE  Owned'
    <2>1. K # {}
        BY <1>2 DEF execute_delete, WithKey
    <2> QED
        BY <1>2, <2>1, OwnedByChanges DEF execute_delete
<1>3. ASSUME NEW K \in WhereSets, NEW v \in Values, execute_update(t, K, v)
      PROVE  Owned'
    <2>1. K # {}
        BY <1>3 DEF execute_update, WithKey
    <2> QED
        BY <1>3, <2>1, OwnedByChanges DEF execute_update
<1> QED
    BY <1>1, <1>2, <1>3

(* So do the records of begin, changes, commit and abort.                  *)
LEMMA OwnedByRecords ==
    ASSUME Everything, Owned, NEW t \in Tids,
           begin_transaction(t) \/ write_log(t) \/ commit_log(t) \/ abort_log(t)
    PROVE  Owned'
<1>1. /\ Typed /\ LogTyped
      /\ session \in [Tids -> Places] /\ changed \in [Tids -> SUBSET Keys]
      /\ unlogged \in [Tids -> SUBSET Changes]
    BY DEF Everything, Inv, Typed, RestTyped
<1>2. CASE begin_transaction(t)
    <2> DEFINE e == Record(t, "BEGIN", NoRow, NoRow)
    <2>5. e \in LogEntry
        BY <1>1, RecordsAreEntries
    <2>6. e.transaction_id = t /\ e.operation = "BEGIN"
        BY DEF Record
    <2>7. Push(e)
        BY <1>2 DEF begin_transaction
    <2>1. e \in LogEntry /\ e.transaction_id = t /\ ~IsData(e) /\ (Push(e) \/ AppendAndFlush(e))
        BY <2>5, <2>6, <2>7 DEF IsData, DataOperations
    <2> HIDE DEF e
    <2>2. \A u : HasChanges(EverLogged', u) <=> HasChanges(EverLogged, u)
        BY <1>1, <2>1, ChangesLogged
    <2>3. /\ session[t] = "none" /\ session' = [session EXCEPT ![t] = "open"]
          /\ active_transactions_cache' = active_transactions_cache \cup {t}
          /\ UNCHANGED <<changed, disk, table>>
        BY <1>2 DEF begin_transaction
    <2>4. \A u \in Tids : session'[u] = IF u = t THEN "open" ELSE session[u]
        BY <1>1, <2>3
    <2> QED
        BY <2>2, <2>3, <2>4 DEF Owned
<1>3. CASE write_log(t)
    <2>1. PICK c \in unlogged[t] : Push(Record(t, c.operation, c.old_value, c.new_value))
        BY <1>3 DEF write_log, LogOrDrop, Everything, NoneDropped
    <2>2. c \in Changes
        BY <1>1
    <2> DEFINE e == Record(t, c.operation, c.old_value, c.new_value)
    <2>3. e \in LogEntry /\ e.transaction_id = t /\ IsData(e) /\ (Push(e) \/ AppendAndFlush(e))
        BY <1>1, <2>1, <2>2, RecordsAreEntries DEF IsData, Changes
    <2> HIDE DEF e
    <2>4. \A u : HasChanges(EverLogged', u) <=> HasChanges(EverLogged, u) \/ u = t
        BY <1>1, <2>3, ChangesLogged
    <2>5. /\ session[t] = "writing" /\ session' = [session EXCEPT ![t] = "open"]
          /\ UNCHANGED <<active_transactions_cache, changed, disk, table>>
        BY <1>3 DEF write_log
    <2>6. \A u \in Tids : session'[u] = IF u = t THEN "open" ELSE session[u]
        BY <1>1, <2>5
    <2> QED
        BY <2>4, <2>5, <2>6 DEF Owned
<1>4. CASE commit_log(t)
    <2> DEFINE e == Record(t, "COMMIT", NoRow, NoRow)
    <2>5. e \in LogEntry
        BY <1>1, RecordsAreEntries DEF EndOperations
    <2>6. e.transaction_id = t /\ e.operation = "COMMIT"
        BY DEF Record
    <2>7. AppendAndFlush(e)
        BY <1>4 DEF commit_log
    <2>1. e \in LogEntry /\ e.transaction_id = t /\ ~IsData(e) /\ (Push(e) \/ AppendAndFlush(e))
        BY <2>5, <2>6, <2>7 DEF IsData, DataOperations
    <2> HIDE DEF e
    <2>2. \A u : HasChanges(EverLogged', u) <=> HasChanges(EverLogged, u)
        BY <1>1, <2>1, ChangesLogged
    <2>3. /\ session[t] = "open" /\ session' = [session EXCEPT ![t] = "committing"]
          /\ UNCHANGED <<active_transactions_cache, changed, disk, table>>
        BY <1>4 DEF commit_log
    <2>4. \A u \in Tids : session'[u] = IF u = t THEN "committing" ELSE session[u]
        BY <1>1, <2>3
    <2> QED
        BY <2>2, <2>3, <2>4 DEF Owned
<1>5. CASE abort_log(t)
    <2> DEFINE e == Record(t, "ABORT", NoRow, NoRow)
    <2>1. e \in LogEntry /\ e.transaction_id = t /\ ~IsData(e) /\ (Push(e) \/ AppendAndFlush(e))
        BY <1>1, <1>5, RecordsAreEntries DEF abort_log, IsData, DataOperations, EndOperations
    <2> HIDE DEF e
    <2>2. \A u : HasChanges(EverLogged', u) <=> HasChanges(EverLogged, u)
        BY <1>1, <2>1, ChangesLogged
    <2>3. /\ session[t] = "closing" /\ session' = [session EXCEPT ![t] = "ended"]
          /\ changed' = [changed EXCEPT ![t] = {}]
          /\ active_transactions_cache' = active_transactions_cache \ {t}
          /\ UNCHANGED <<disk, table>>
        BY <1>5 DEF abort_log
    <2>4. \A u \in Tids : session'[u] = IF u = t THEN "ended" ELSE session[u]
        BY <1>1, <2>3
    <2>5. \A u \in Tids : changed'[u] = IF u = t THEN {} ELSE changed[u]
        BY <1>1, <2>3
    <2>6. (\A u \in Tids : changed'[u] = {}) => disk = table
        BY <2>3, <2>5 DEF Owned
    <2> QED
        BY <2>2, <2>3, <2>4, <2>5, <2>6 DEF Owned
<1> QED
    BY <1>2, <1>3, <1>4, <1>5

(* So do the releases of the locks and the rollback.                       *)
LEMMA OwnedByEndings ==
    ASSUME Everything, Owned, NEW t \in Tids,
           commit_data(t) \/ abort_check(t) \/ recover(t) \/ abort_data(t)
    PROVE  Owned'
<1>1. /\ Typed /\ LogTyped
      /\ session \in [Tids -> Places] /\ changed \in [Tids -> SUBSET Keys]
    BY DEF Everything, Inv, Typed, RestTyped
<1>2. CASE commit_data(t)
    <2>1. /\ disk' = table /\ table' = table /\ session' = [session EXCEPT ![t] = "ended"]
          /\ changed' = [changed EXCEPT ![t] = {}]
          /\ active_transactions_cache' = active_transactions_cache \ {t}
          /\ EverLogged' = EverLogged
        BY <1>2 DEF commit_data, log, EverLogged
    <2>2. \A u \in Tids : session'[u] = IF u = t THEN "ended" ELSE session[u]
        BY <1>1, <2>1
    <2>3. \A u \in Tids : changed'[u] = IF u = t THEN {} ELSE changed[u]
        BY <1>1, <2>1
    <2> QED
        BY <2>1, <2>2, <2>3 DEF Owned
<1>3. CASE abort_check(t)
    <2>1. /\ session[t] = "open"
          /\ session' = [session EXCEPT ![t] =
                           IF HasChanges(EverLogged, t) THEN "undoing" ELSE "closing"]
          /\ UNCHANGED <<active_transactions_cache, changed, disk, table>>
          /\ EverLogged' = EverLogged
        BY <1>3 DEF abort_check, log, EverLogged
    <2>2. \A u \in Tids : session'[u] =
              IF u = t THEN (IF HasChanges(EverLogged, t) THEN "undoing" ELSE "closing")
              ELSE session[u]
        BY <1>1, <2>1
    <2> QED
        BY <2>1, <2>2 DEF Owned
<1>4. CASE recover(t)
    <2>1. /\ session[t] = "undoing" /\ session' = [session EXCEPT ![t] = "undone"]
          /\ UNCHANGED <<active_transactions_cache, changed, disk>>
          /\ flush_buffer
        BY <1>4 DEF recover
    <2>2. \A u \in Tids : session'[u] = IF u = t THEN "undone" ELSE session[u]
        BY <1>1, <2>1
    <2>3. EverLogged' = EverLogged
        BY <1>1, <2>1, FlushKeepsTheLog
    <2>4. changed[t] # {} /\ \A u \in Tids : changed[u] # {} => u = t
        BY <2>1 DEF Owned
    <2> QED
        BY <2>1, <2>2, <2>3, <2>4 DEF Owned
<1>5. CASE abort_data(t)
    <2>1. /\ session[t] = "undone" /\ session' = [session EXCEPT ![t] = "closing"]
          /\ UNCHANGED <<active_transactions_cache, changed, table>> /\ disk' = table
          /\ EverLogged' = EverLogged
        BY <1>5 DEF abort_data, log, EverLogged
    <2>2. \A u \in Tids : session'[u] = IF u = t THEN "closing" ELSE session[u]
        BY <1>1, <2>1
    <2> QED
        BY <2>1, <2>2 DEF Owned
<1> QED
    BY <1>2, <1>3, <1>4, <1>5

(* A step that only writes to the log, or the table to its file.           *)
OnlyWrites ==
    /\ InLife /\ InLife' /\ lives' = lives
    /\ UNCHANGED <<active_transactions_cache, session, changed, unlogged, table, committed>>
    /\ disk' = disk \/ disk' = table
    /\ \A u : HasChanges(EverLogged', u) <=> HasChanges(EverLogged, u)

(* Checkpoints, evictions and the exit change rows only by writing the     *)
(* table to the file.                                                      *)
LEMMA CheckpointsOnlyWrite ==
    ASSUME Everything,
           \/ checkpoint_begin \/ checkpoint_start \/ checkpoint_data \/ checkpoint_end
           \/ evict_page \/ exit
    PROVE  OnlyWrites
<1>1. Typed /\ LogTyped
    BY DEF Everything, Inv, Typed
<1>2. \A u : HasChanges(EverLogged', u) <=> HasChanges(EverLogged, u)
    <2>1. CASE checkpoint_begin
        <3>1. EverLogged' = EverLogged
            BY <1>1, <2>1, FlushKeepsTheLog DEF checkpoint_begin
        <3> QED
            BY <3>1
    <2>2. CASE checkpoint_data \/ evict_page \/ exit
        <3>1. EverLogged' = EverLogged
            BY <2>2 DEF checkpoint_data, evict_page, exit, log, EverLogged
        <3> QED
            BY <3>1
    <2>3. CASE checkpoint_start \/ checkpoint_end
        <3>1. PICK active \in SUBSET Tids : AppendAndFlush(CheckpointRecord(active))
            BY <1>1, <2>3 DEF checkpoint_start, checkpoint_end, Typed
        <3> DEFINE e == CheckpointRecord(active)
        <3>2. e \in LogEntry /\ (Push(e) \/ AppendAndFlush(e))
            BY <1>1, <3>1, CheckpointsAreEntries
        <3>3. ~IsData(e)
            BY DEF CheckpointRecord, Record, IsData, DataOperations
        <3> HIDE DEF e
        <3> QED
            BY <1>1, <3>2, <3>3, ChangesLogged
    <2> QED
        BY <2>1, <2>2, <2>3
<1>3. /\ InLife /\ InLife' /\ lives' = lives
      /\ UNCHANGED <<active_transactions_cache, session, changed, unlogged, table, committed>>
      /\ disk' = disk \/ disk' = table
    BY DEF checkpoint_begin, checkpoint_start, checkpoint_data, checkpoint_end, evict_page, exit,
           CheckpointStep, Running, InLife, client, bounds
<1> QED
    BY <1>2, <1>3 DEF OnlyWrites

(* Writing the table to the file keeps the ownership.                      *)
LEMMA OwnershipOfWrites ==
    ASSUME Ownership, OnlyWrites
    PROVE  Ownership'
<1>1. CASE lives = 1
    <2>1. Owned
        BY <1>1 DEF Ownership, OnlyWrites
    <2>2. Owned'
        BY <2>1 DEF Owned, OnlyWrites
    <2> QED
        BY <1>1, <2>2 DEF Ownership, OnlyWrites
<1>2. CASE lives # 1
    BY <1>2 DEF Ownership, OnlyWrites, AtEase
<1> QED
    BY <1>1, <1>2

(* Crashes, restarts and recovery keep the ownership.                      *)
LEMMA OwnershipOfLives ==
    ASSUME Everything, Ownership,
           crash \/ restart \/ recover_from_crash \/ remove_marker \/ construct
    PROVE  Ownership'
<1>1. lives \in Nat /\ Typed
    BY DEF Everything, RestTyped, Inv
<1>2. CASE crash \/ restart
    <2>1. Vanish /\ lives' = lives /\ process' = "starting"
        BY <1>2 DEF crash, restart, bounds, Vanish
    <2>2. AtEase'
        BY <2>1 DEF Vanish, AtEase
    <2>4. InLife => lives # 0
        BY <1>1 DEF Ownership
    <2>3. lives = 0 => wal = <<>>
        BY <2>4 DEF Ownership
    <2> QED
        BY <2>1, <2>2, <2>3 DEF Ownership, InLife, Vanish
<1>3. CASE recover_from_crash
    BY <1>3 DEF recover_from_crash, Ownership, AtEase, InLife, client, log, bounds
<1>4. CASE remove_marker
    BY <1>4 DEF remove_marker, Ownership, AtEase, InLife, client, log, bounds
<1>5. CASE construct
    <2>1. /\ process = "starting" /\ process' = "up" /\ lives' = lives + 1
          /\ UNCHANGED <<log_buffer, wal, active_transactions_cache, table, disk, client>>
        BY <1>5 DEF construct
    <2>2. AtEase /\ AtEase'
        BY <2>1 DEF Ownership, InLife, AtEase, client
    <2>3. CASE lives = 0
        <3>1. wal = <<>> /\ log_buffer = <<>> /\ active_transactions_cache = {}
            BY <2>1, <2>3 DEF Ownership, InLife, Everything, Inv, AtRest
        <3>2. EverLogged' = <<>>
            BY <2>1, <3>1 DEF EverLogged
        <3>3. \A t : ~HasChanges(EverLogged', t)
            BY <3>2, MembersOfNone DEF HasChanges
        <3>4. Owned'
            BY <2>1, <2>2, <3>1, <3>3 DEF Owned, AtEase
        <3> QED
            BY <2>1, <2>3, <3>4 DEF Ownership, InLife
    <2>4. CASE lives # 0
        <3>1. lives' > 1
            BY <1>1, <2>1, <2>4
        <3> QED
            BY <2>1, <2>2, <3>1 DEF Ownership, InLife
    <2> QED
        BY <2>3, <2>4
<1> QED
    BY <1>2, <1>3, <1>4, <1>5

(* Every step keeps the ownership.                                         *)
LEMMA OwnershipKept == Orderly /\ Everything /\ Ownership /\ [Next]_vars => Ownership'
<1> SUFFICES ASSUME Orderly, Everything, Ownership, [Next]_vars
             PROVE  Ownership'
    OBVIOUS
<1>1. ASSUME NEW t \in Tids,
             \/ begin_transaction(t)
             \/ \E row \in Row : execute_insert(t, row)
             \/ \E K \in WhereSets :
                    execute_delete(t, K) \/ \E v \in Values : execute_update(t, K, v)
             \/ write_log(t) \/ commit_log(t) \/ commit_data(t)
             \/ abort_check(t) \/ recover(t) \/ abort_data(t) \/ abort_log(t)
      PROVE  Ownership'
    <2>1. Owned /\ process' = "up" /\ lives' = 1
        BY <1>1, NoTransactionsLater
    <2>2. Owned'
        BY <1>1, <2>1, OwnedByStatements, OwnedByRecords, OwnedByEndings
    <2> QED
        BY <2>1, <2>2 DEF Ownership, InLife
<1>2. CASE \/ checkpoint_begin \/ checkpoint_start \/ checkpoint_data \/ checkpoint_end
           \/ evict_page \/ exit
    BY <1>2, CheckpointsOnlyWrite, OwnershipOfWrites
<1>3. CASE crash \/ restart \/ recover_from_crash \/ remove_marker \/ construct
    BY <1>3, OwnershipOfLives
<1>4. CASE UNCHANGED vars
    <2>1. UNCHANGED <<process, lives, session, changed, disk, table, active_transactions_cache, wal>>
          /\ EverLogged' = EverLogged
        BY <1>4 DEF vars, EverLogged
    <2> QED
        BY <2>1 DEF Ownership, InLife, Owned, AtEase
<1>5. \A t \in Tids : \A row \in Row : ~execute_update_unconditional(t, row)
    BY DEF Orderly, execute_update_unconditional
<1> QED
    BY <1>1, <1>2, <1>3, <1>4, <1>5 DEF Next

(* It holds at the start.                                                  *)
LEMMA OwnershipAtStart == Init => Ownership
BY DEF Init, Ownership, InLife, AtEase

(* The ownership always holds, if locks are kept to the end and            *)
(* transactions run in the first life.                                     *)
LEMMA OwnershipAlways == Orderly /\ Spec => [](Everything /\ Ownership)
<1> SUFFICES ASSUME Orderly
             PROVE  Spec => [](Everything /\ Ownership)
    OBVIOUS
<1>1. Everything /\ Ownership /\ [Next]_vars => Ownership'
    BY OwnershipKept
<1>2. Spec => []Everything
    BY EverythingAlways
<1> QED
    BY <1>1, <1>2, OwnershipAtStart, PTL DEF Spec

(* Once nobody has changes outstanding the file equals the table, in every *)
(* row: the flush at the end of a commit, a rollback or a recovery leaves  *)
(* nothing to redo. For any bounds and WHERE sets, evictions and crashes   *)
(* at any point, if locks are kept to the end, transactions run in the     *)
(* first life and no UPDATE is without WHERE.                              *)
THEOREM DiskAlwaysCurrent == Orderly /\ Spec => [](DiskIsCurrent /\ (Quiet => disk = table))
<1>1. Ownership => (Quiet => disk = table)
    BY DEF Ownership, Owned, AtEase, InLife, Quiet
<1>2. (Quiet => disk = table) => DiskIsCurrent
    BY DEF DiskIsCurrent
<1> QED
    BY <1>1, <1>2, OwnershipAlways, PTL

-----------------------------------------------------------------------------
(* The same for all keys at once: C are the committed rows, H those of the *)
(* file, N those the logged changes leave.                                 *)

Settled(L, C, H) == \A k \in Keys : Clear(L, k, At(C, k), At(H, k))

Cured(L, w, C, H) == \A k \in Keys : Curable(L, w, k, At(C, k), At(H, k))

UndoneTo(L, w, C, H, N) == \A k \in Keys : Undoable(L, w, k, At(C, k), At(H, k), At(N, k))

RedoneTo(L, w, H, N) == \A k \in Keys : Redoable(L, w, k, At(H, k), At(N, k))

(* A record that changes no row leaves all keys as they were.              *)
LEMMA IdleRecords ==
    ASSUME NEW L \in Seq(LogEntry), NEW e \in LogEntry, Idle(L, e), NEW C, NEW H
    PROVE  /\ Settled(L, C, H) => Settled(Append(L, e), C, H)
           /\ \A w \in Who \ {e.transaction_id} : \A N :
                /\ Cured(L, w, C, H) => Cured(Append(L, e), w, C, H)
                /\ UndoneTo(L, w, C, H, N) => UndoneTo(Append(L, e), w, C, H, N)
                /\ RedoneTo(L, w, H, N) => RedoneTo(Append(L, e), w, H, N)
<1>1. Settled(L, C, H) => Settled(Append(L, e), C, H)
    BY ClearWithIdle DEF Settled
<1>2. ASSUME NEW w \in Who \ {e.transaction_id}, NEW N
      PROVE  /\ Cured(L, w, C, H) => Cured(Append(L, e), w, C, H)
             /\ UndoneTo(L, w, C, H, N) => UndoneTo(Append(L, e), w, C, H, N)
             /\ RedoneTo(L, w, H, N) => RedoneTo(Append(L, e), w, H, N)
    BY OthersWithIdle DEF Cured, UndoneTo, RedoneTo
<1> QED
    BY <1>1, <1>2

(* After a checkpoint a key has no pending changes.                        *)
LEMMA ClearAfterCheckpoint ==
    ASSUME NEW L \in Seq(LogEntry), NEW e \in LogEntry, IsCheckpoint(e), NEW k, NEW c
    PROVE  Clear(Append(L, e), k, c, c)
<1>1. \A tids, target : RedoGives(Append(L, e), tids, k, "keep", target)
    BY RedoStartsAgain
<1>2. "keep" \in RedoModes /\ RedoTo("keep", c, c) = c
    BY DEF RedoModes, RedoTo
<1> QED
    BY <1>1, <1>2 DEF Clear

(* What a checkpoint record makes of the pending changes of the one        *)
(* writer.                                                                 *)
LEMMA CheckpointRecords ==
    ASSUME NEW L \in Seq(LogEntry), NEW e \in LogEntry, IsCheckpoint(e), NEW C, NEW H
    PROVE  /\ Settled(Append(L, e), C, C)
           /\ \A w \in Who \ {e.transaction_id} : \A N :
                /\ Cured(L, w, C, H) => Cured(Append(L, e), w, C, C)
                /\ UndoneTo(L, w, C, H, N) => UndoneTo(Append(L, e), w, C, N, N)
                /\ RedoneTo(Append(L, e), w, N, N)
<1>1. Settled(Append(L, e), C, C)
    BY ClearAfterCheckpoint DEF Settled
<1>2. ASSUME NEW w \in Who \ {e.transaction_id}, NEW N
      PROVE  /\ Cured(L, w, C, H) => Cured(Append(L, e), w, C, C)
             /\ UndoneTo(L, w, C, H, N) => UndoneTo(Append(L, e), w, C, N, N)
             /\ RedoneTo(Append(L, e), w, N, N)
    BY WithCheckpoint DEF Cured, UndoneTo, RedoneTo
<1> QED
    BY <1>1, <1>2

(* Writing the table to the file keeps what redo and undo make of it.      *)
LEMMA RowsReachTheFile ==
    ASSUME NEW L, NEW w, NEW C, NEW H, NEW N
    PROVE  /\ Settled(L, C, H) => Settled(L, C, C)
           /\ Cured(L, w, C, H) => Cured(L, w, C, C) /\ Settled(L, C, C)
           /\ UndoneTo(L, w, C, H, N) => UndoneTo(L, w, C, N, N)
           /\ RedoneTo(L, w, H, N) => RedoneTo(L, w, N, N)
           /\ UndoneTo(L, w, C, H, N) => Cured(L, w, C, H)
BY WithFlush, UndoableIsCurable DEF Settled, Cured, UndoneTo, RedoneTo

(* The first change of a transaction starts from the committed rows.       *)
LEMMA FirstChanges ==
    ASSUME NEW L \in Seq(LogEntry), NEW w \in Who, ~HasChanges(L, w), NEW C, NEW H,
           Settled(L, C, H)
    PROVE  UndoneTo(L, w, C, H, C) /\ RedoneTo(L, w, H, C)
BY FirstChange DEF Settled, UndoneTo, RedoneTo

(* One more logged change of the one writer keeps the rollback and the     *)
(* redo of its changes right.                                              *)
LEMMA ChangeRecords ==
    ASSUME NEW L \in Seq(LogEntry), NEW e \in LogEntry, NEW w \in Who, e.transaction_id = w,
           w \notin committed_txs(L), NEW C, NEW H, NEW N, NEW M, KeyOf(e) \in Keys,
           TurnsInto(e, KeyOf(e), At(N, KeyOf(e)), At(M, KeyOf(e))),
           \A k \in Keys : k # KeyOf(e) => At(M, k) = At(N, k)
    PROVE  /\ UndoneTo(L, w, C, H, N) => UndoneTo(Append(L, e), w, C, H, M)
           /\ RedoneTo(L, w, H, N) => RedoneTo(Append(L, e), w, H, M)
<1>1. IsData(e) /\ Shaped(e)
    BY DEF TurnsInto
<1>2. ASSUME NEW k \in Keys
      PROVE  /\ Undoable(L, w, k, At(C, k), At(H, k), At(N, k)) =>
                    Undoable(Append(L, e), w, k, At(C, k), At(H, k), At(M, k))
             /\ Redoable(L, w, k, At(H, k), At(N, k)) =>
                    Redoable(Append(L, e), w, k, At(H, k), At(M, k))
    <2>1. CASE k = KeyOf(e)
        BY <2>1, NextChange
    <2>2. CASE k # KeyOf(e)
        BY <1>1, <2>2, NextChangeElsewhere
    <2> QED
        BY <2>1, <2>2
<1> QED
    BY <1>2 DEF UndoneTo, RedoneTo

(* The commit record of the one writer settles its rows.                   *)
LEMMA CommitRecords ==
    ASSUME NEW L \in Seq(LogEntry), NEW e \in LogEntry, e.operation = "COMMIT",
           NEW H, NEW N, RedoneTo(L, e.transaction_id, H, N)
    PROVE  Settled(Append(L, e), N, H)
BY WithCommit DEF RedoneTo, Settled

(* Sets of rows with the same rows for each key are the same.              *)
LEMMA SameRows ==
    ASSUME NEW S \in SUBSET Row, NEW T \in SUBSET Row, \A k \in Keys : At(S, k) = At(T, k)
    PROVE  S = T
<1>1. \A r \in Row : r.key \in Keys
    BY DEF Row
<1>2. \A r \in Row : r \in S <=> r \in At(S, r.key)
    BY DEF At, WithKey
<1>3. \A r \in Row : r \in T <=> r \in At(T, r.key)
    BY DEF At, WithKey
<1> QED
    BY <1>1, <1>2, <1>3

(* The rollback restores the committed rows.                               *)
LEMMA RollbackRestores ==
    ASSUME NEW L, NEW w, NEW C \in SUBSET Row, NEW H, NEW t \in Tables,
           UndoneTo(L, w, C, H, RowsOf(t))
    PROVE  RowsOf(Undone(L, t, w)) = C
<1> DEFINE M == RowsOf(Undone(L, t, w))
<1>1. M \in SUBSET Row
    BY DEF RowsOf
<1>2. \A k \in Keys : At(M, k) = At(C, k)
    BY RollbackGives DEF UndoneTo
<1> HIDE DEF M
<1>3. M = C
    BY <1>1, <1>2, SameRows
<1> QED
    BY <1>3 DEF M

(* A recovery has nothing to undo, or the changes of one transaction.      *)
NothingLeft(L, C, D) == (\A u \in undo_list(L) : ~HasChanges(L, u)) /\ Settled(L, C, D)

OneLeft(L, C, D) ==
    \E w \in undo_list(L) :
        (\A u \in undo_list(L) \ {w} : ~HasChanges(L, u)) /\ Cured(L, w, C, D)

Restorable(L, C, D) == NothingLeft(L, C, D) \/ OneLeft(L, C, D)

(* Recovery restores the committed rows, and may be repeated.              *)
LEMMA RecoveryRestores ==
    ASSUME NEW L \in Seq(LogEntry), NEW C \in SUBSET Row, NEW t \in Tables,
           Restorable(L, C, RowsOf(t))
    PROVE  RowsOf(Recovered(L, t)) = C /\ Restorable(L, C, C)
<1> DEFINE M == RowsOf(Recovered(L, t))
<1>1. M \in SUBSET Row
    BY DEF RowsOf
<1>2. ASSUME NEW k \in Keys
      PROVE  At(M, k) = At(C, k)
    <2>1. \/ /\ \A u \in undo_list(L) : ~HasChanges(L, u)
             /\ Clear(L, k, At(C, k), At(RowsOf(t), k))
          \/ \E w \in undo_list(L) :
               /\ \A u \in undo_list(L) \ {w} : ~HasChanges(L, u)
               /\ Curable(L, w, k, At(C, k), At(RowsOf(t), k))
        BY DEF Restorable, NothingLeft, OneLeft, Settled, Cured
    <2> QED
        BY <2>1, RecoveryGives
<1> HIDE DEF M
<1>3. M = C
    BY <1>1, <1>2, SameRows
<1>4. Restorable(L, C, C)
    BY RowsReachTheFile DEF Restorable, NothingLeft, OneLeft
<1> QED
    BY <1>3, <1>4 DEF M

(* A transaction without logged changes leaves nothing to cure.            *)
LEMMA CuredWithoutChanges ==
    ASSUME NEW L \in Seq(LogEntry), NEW w, ~HasChanges(L, w), NEW C, NEW t \in Tables,
           Cured(L, w, C, RowsOf(t))
    PROVE  Settled(L, C, RowsOf(t))
BY CurableWithoutChanges DEF Cured, Settled

(* With an empty log the table holds the committed rows.                   *)
LEMMA NothingLogged ==
    ASSUME NEW C \in SUBSET Row, NEW t \in Tables, Restorable(<<>>, C, RowsOf(t))
    PROVE  RowsOf(t) = C /\ Settled(<<>>, C, C)
<1>1. <<>> \in Seq(LogEntry)
    OBVIOUS
<1>2. undo_list(<<>>) = {}
    BY <1>1, UndoListLaws
<1>3. Settled(<<>>, C, RowsOf(t))
    BY <1>2 DEF Restorable, NothingLeft, OneLeft
<1>4. \A k \in Keys : At(RowsOf(t), k) = At(C, k)
    BY <1>3, ClearOfNothing DEF Settled
<1>5. RowsOf(t) = C
    BY <1>4, SameRows DEF RowsOf
<1> QED
    BY <1>3, <1>5

(* After a checkpoint without active transactions recovery has nothing to  *)
(* do.                                                                     *)
LEMMA AfterACheckpoint ==
    ASSUME NEW L \in Seq(LogEntry), NEW e \in LogEntry, IsCheckpoint(e), e.active = {}, NEW C
    PROVE  Restorable(Append(L, e), C, C)
<1>1. undo_list(Append(L, e)) = {}
    BY UndoListLaws
<1>2. Settled(Append(L, e), C, C)
    BY CheckpointRecords
<1> QED
    BY <1>1, <1>2 DEF Restorable, NothingLeft

(* The changes of a log in two parts.                                      *)
LEMMA ChangesOfParts ==
    ASSUME NEW s \in Seq(LogEntry), NEW r \in Seq(LogEntry)
    PROVE  ToSet(s \o r) = ToSet(s) \cup ToSet(r)
<1> DEFINE q == s \o r
           m == Len(s)
           n == Len(r)
<1>1. /\ m \in Nat /\ n \in Nat /\ DOMAIN s = 1..m /\ DOMAIN r = 1..n /\ DOMAIN q = 1..(m + n)
      /\ \A i \in 1..m : q[i] = s[i]
      /\ \A i \in 1..n : q[m + i] = r[i]
    OBVIOUS
<1> HIDE DEF q, m, n
<1>2. ASSUME NEW i \in 1..(m + n)
      PROVE  q[i] \in {s[j] : j \in 1..m} \cup {r[j] : j \in 1..n}
    <2>1. CASE i <= m
        BY <1>1, <2>1
    <2>2. CASE i > m
        <3>1. PICK j \in 1..n : i = m + j
            <4>1. i - m \in 1..n /\ i = m + (i - m)
                BY <1>1, <2>2
            <4> QED
                BY <4>1
        <3> QED
            BY <1>1, <3>1
    <2> QED
        BY <1>1, <2>1, <2>2
<1>3. \A i \in 1..m : i \in 1..(m + n)
    BY <1>1
<1>4. \A i \in 1..n : m + i \in 1..(m + n)
    BY <1>1
<1>5. {q[i] : i \in 1..(m + n)} = {s[j] : j \in 1..m} \cup {r[j] : j \in 1..n}
    BY <1>1, <1>2, <1>3, <1>4
<1> QED
    BY <1>1, <1>5 DEF ToSet, q

-----------------------------------------------------------------------------
(* What the steps write to the log.                                        *)

(* A record goes to the end of the log, in the buffer or in the file.      *)
LEMMA RecordsGoTo ==
    ASSUME LogTyped, NEW e \in LogEntry, Push(e) \/ AppendAndFlush(e)
    PROVE  /\ EverLogged \in Seq(LogEntry) /\ EverLogged' = Append(EverLogged, e)
           /\ \/ wal' = EverLogged' /\ log_buffer' = <<>>
              \/ wal' = wal /\ log_buffer' = Append(log_buffer, e) /\ Push(e)
           /\ AppendAndFlush(e) => wal' = EverLogged' /\ log_buffer' = <<>>
<1>1. EverLogged' = Append(EverLogged, e) /\ EverLogged \in Seq(LogEntry)
    BY RecordsAreAppended DEF LogTyped, EverLogged
<1>2. ASSUME AppendAndFlush(e)
      PROVE  wal' = EverLogged' /\ log_buffer' = <<>>
    <2>1. log_buffer' = <<>> /\ wal' \in Seq(LogEntry)
        BY <1>2, RecordsAreAppended DEF AppendAndFlush, LogTyped
    <2> QED
        BY <2>1 DEF EverLogged
<1> QED
    BY <1>1, <1>2 DEF Push

(* A flush moves the buffer to the file.                                   *)
LEMMA FlushGoesTo ==
    ASSUME LogTyped, flush_buffer
    PROVE  /\ EverLogged \in Seq(LogEntry) /\ EverLogged' = EverLogged
           /\ wal' = EverLogged /\ log_buffer' = <<>>
BY FlushKeepsTheLog DEF flush_buffer, LogTyped, EverLogged

(* begin_transaction logs a BEGIN record.                                  *)
LEMMA RecordOfBegin ==
    ASSUME Typed, NEW t \in Tids, begin_transaction(t)
    PROVE  \E e \in LogEntry : e.transaction_id = t /\ e.operation = "BEGIN" /\ Push(e)
<1> DEFINE e == Record(t, "BEGIN", NoRow, NoRow)
<1>1. e \in LogEntry /\ e.transaction_id = t /\ e.operation = "BEGIN"
    BY RecordsAreEntries
<1>2. Push(e)
    BY DEF begin_transaction
<1> HIDE DEF e
<1> QED
    BY <1>1, <1>2

(* write_log logs one of the changes not logged yet.                       *)
LEMMA RecordOfChange ==
    ASSUME Typed, NoneDropped, NEW t \in Tids, write_log(t)
    PROVE  \E e \in LogEntry, c \in unlogged[t] :
              /\ c \in Changes /\ e.transaction_id = t /\ e.operation = c.operation
              /\ e.old_value = c.old_value /\ e.new_value = c.new_value /\ Push(e)
<1>1. PICK c \in unlogged[t] : Push(Record(t, c.operation, c.old_value, c.new_value))
    BY DEF write_log, LogOrDrop, NoneDropped
<1>2. c \in Changes
    BY DEF Typed
<1> DEFINE e == Record(t, c.operation, c.old_value, c.new_value)
<1>3. e \in LogEntry /\ e.transaction_id = t /\ e.operation = c.operation
    BY <1>2, RecordsAreEntries DEF Changes
<1>4. e.old_value = c.old_value /\ e.new_value = c.new_value
    BY DEF Record
<1>5. Push(e)
    BY <1>1
<1> HIDE DEF e
<1> QED
    BY <1>2, <1>3, <1>4, <1>5

(* commit_log logs a COMMIT record and flushes.                            *)
LEMMA RecordOfCommit ==
    ASSUME Typed, NEW t \in Tids, commit_log(t)
    PROVE  \E e \in LogEntry : e.transaction_id = t /\ e.operation = "COMMIT" /\ AppendAndFlush(e)
<1> DEFINE e == Record(t, "COMMIT", NoRow, NoRow)
<1>1. e \in LogEntry /\ e.transaction_id = t /\ e.operation = "COMMIT"
    BY RecordsAreEntries DEF EndOperations
<1>2. AppendAndFlush(e)
    BY DEF commit_log
<1> HIDE DEF e
<1> QED
    BY <1>1, <1>2

(* abort_log logs an ABORT record and flushes.                             *)
LEMMA RecordOfAbort ==
    ASSUME Typed, NEW t \in Tids, abort_log(t)
    PROVE  \E e \in LogEntry : e.transaction_id = t /\ e.operation = "ABORT" /\ AppendAndFlush(e)
<1> DEFINE e == Record(t, "ABORT", NoRow, NoRow)
<1>1. e \in LogEntry /\ e.transaction_id = t /\ e.operation = "ABORT"
    BY RecordsAreEntries DEF EndOperations
<1>2. AppendAndFlush(e)
    BY DEF abort_log
<1> HIDE DEF e
<1> QED
    BY <1>1, <1>2

(* Both ends of a checkpoint log a record and flush; the last names the    *)
(* active transactions.                                                    *)
LEMMA RecordOfCheckpoint ==
    ASSUME Typed, checkpoint_start \/ checkpoint_end
    PROVE  \E e \in LogEntry :
              /\ e.transaction_id \notin Tids /\ IsCheckpoint(e) /\ AppendAndFlush(e)
              /\ checkpoint_start => e.active = {}
              /\ checkpoint_end => e.active = active_transactions_cache
<1>1. PICK active \in SUBSET Tids :
          /\ AppendAndFlush(CheckpointRecord(active))
          /\ checkpoint_start => active = {}
          /\ checkpoint_end => active = active_transactions_cache
    BY DEF checkpoint_start, checkpoint_end, Typed, CheckpointStep
<1> DEFINE e == CheckpointRecord(active)
<1>2. e \in LogEntry /\ e.transaction_id \notin Tids
    BY CheckpointsAreEntries
<1>3. IsCheckpoint(e) /\ e.active = active
    BY DEF CheckpointRecord, Record, IsCheckpoint
<1>4. AppendAndFlush(e)
    BY <1>1
<1> HIDE DEF e
<1> QED
    BY <1>1, <1>2, <1>3, <1>4

-----------------------------------------------------------------------------
(* What the log lists, in the first life.                                  *)

Listings ==
    /\ undo_list(EverLogged) = {t \in Tids : Open(t)}
    /\ undo_list(wal) \subseteq {t \in Tids : Open(t)}
    /\ \A t \in Tids : Open(t) /\ HasChanges(wal, t) => t \in undo_list(wal)

CommitsListed ==
    \A t \in Tids : t \in committed_txs(EverLogged) \cup committed_txs(wal) =>
        session[t] \in {"committing", "ended"}

InCheckpoint == mtx \in {"started", "flushed"}

Books ==
    /\ ~InCheckpoint => Listings
    /\ CommitsListed
    /\ mtx # "free" => log_buffer = <<>>
    /\ process # "up" => \A t \in Tids : session[t] \in {"none", "ended"}
    /\ process = "exited" => mtx = "free"
    /\ process = "up" <=> marker

(* A WHERE stands for one row.                                             *)
OneKeyEach == \A K \in WhereSets : \E k \in Keys : K = {k}

(* Nothing happens but what the theorem is about.                          *)
Undisturbed == Mishaps = {} /\ MaxLives <= 1 /\ OneKeyEach

(* The undo list follows the cache of active transactions through the      *)
(* records of sessions.                                                    *)
LEMMA ListingsOfRecords ==
    ASSUME Typed, Listings, NEW e \in LogEntry, e.transaction_id \in Tids, ~IsCheckpoint(e),
           Push(e) \/ AppendAndFlush(e),
           e.operation \in EndOperations => AppendAndFlush(e),
           \A u \in Tids : Open(u)' <=>
               IF e.transaction_id = u /\ e.operation = "BEGIN" THEN TRUE
               ELSE IF e.transaction_id = u /\ e.operation \in EndOperations THEN FALSE
               ELSE Open(u),
           e.operation = "BEGIN" => ~HasChanges(EverLogged, e.transaction_id)
    PROVE  Listings'
<1>1. LogTyped
    BY DEF Typed
<1>2. EverLogged' = Append(EverLogged, e) /\ EverLogged \in Seq(LogEntry)
    BY <1>1, RecordsGoTo
<1>3. undo_list(Append(EverLogged, e)) = Listed(e, undo_list(EverLogged))
    BY <1>2, UndoListLaws
<1>4. Listed(e, undo_list(EverLogged)) =
          IF e.operation = "BEGIN" THEN undo_list(EverLogged) \cup {e.transaction_id}
          ELSE IF e.operation \in EndOperations THEN undo_list(EverLogged) \ {e.transaction_id}
          ELSE undo_list(EverLogged)
    BY DEF Listed, EndOperations
<1>5. undo_list(EverLogged') = {u \in Tids : Open(u)'}
    BY <1>2, <1>3, <1>4 DEF Listings
<1>6. CASE wal' = EverLogged'
    BY <1>5, <1>6 DEF Listings
<1>7. CASE wal' # EverLogged'
    <2>1. wal' = wal /\ e.operation \notin EndOperations
        BY <1>1, <1>7, RecordsGoTo
    <2>2. \A u \in Tids : HasChanges(wal, u) => HasChanges(EverLogged, u)
        BY <1>1, ChangesOfParts DEF HasChanges, EverLogged, LogTyped
    <2> QED
        BY <1>5, <2>1, <2>2 DEF Listings
<1> QED
    BY <1>6, <1>7

(* Only sessions that commit or have ended have a COMMIT record.           *)
LEMMA CommitsOfRecords ==
    ASSUME LogTyped, CommitsListed, NEW e \in LogEntry,
           Push(e) \/ AppendAndFlush(e),
           \A u \in Tids : session[u] \in {"committing", "ended"} =>
               session'[u] \in {"committing", "ended"},
           e.operation = "COMMIT" /\ e.transaction_id \in Tids =>
               session'[e.transaction_id] \in {"committing", "ended"}
    PROVE  CommitsListed'
<1>1. EverLogged' = Append(EverLogged, e) /\ EverLogged \in Seq(LogEntry)
      /\ (wal' = EverLogged' \/ wal' = wal)
    BY RecordsGoTo
<1>2. \A u : u \in committed_txs(Append(EverLogged, e)) =>
          u \in committed_txs(EverLogged) \/ (e.operation = "COMMIT" /\ u = e.transaction_id)
    BY <1>1, CommittedLaws
<1>3. ASSUME NEW u \in Tids, u \in committed_txs(EverLogged')
      PROVE  session'[u] \in {"committing", "ended"}
    <2>1. u \in committed_txs(Append(EverLogged, e))
        BY <1>1, <1>3
    <2>2. u \in committed_txs(EverLogged) \/ (e.operation = "COMMIT" /\ u = e.transaction_id)
        BY <1>2, <2>1
    <2> QED
        BY <2>2 DEF CommitsListed
<1>4. ASSUME NEW u \in Tids, u \in committed_txs(wal')
      PROVE  session'[u] \in {"committing", "ended"}
    <2>1. CASE wal' = EverLogged'
        BY <1>3, <1>4, <2>1
    <2>2. CASE wal' = wal
        BY <1>4, <2>2 DEF CommitsListed
    <2> QED
        BY <1>1, <2>1, <2>2
<1> QED
    BY <1>3, <1>4 DEF CommitsListed

(* The records of sessions keep the books.                                 *)
LEMMA BooksOfRecords ==
    ASSUME Everything, Owned, Books, NEW t \in Tids,
           begin_transaction(t) \/ write_log(t) \/ commit_log(t) \/ abort_log(t)
    PROVE  Books'
<1>1. Typed /\ LogTyped /\ session \in [Tids -> Places]
    BY DEF Everything, Inv, Typed
<1>2. process = "up" /\ process' = "up" /\ mtx = "free" /\ marker' = marker /\ Listings
    BY DEF begin_transaction, write_log, commit_log, abort_log, Running, Books, InCheckpoint
<1>3. CASE begin_transaction(t)
    <2>1. PICK e \in LogEntry : e.transaction_id = t /\ e.operation = "BEGIN" /\ Push(e)
        BY <1>1, <1>3, RecordOfBegin
    <2>2. /\ session[t] = "none" /\ session' = [session EXCEPT ![t] = "open"]
          /\ active_transactions_cache' = active_transactions_cache \cup {t}
          /\ mtx' = "free"
        BY <1>2, <1>3 DEF begin_transaction
    <2>3. \A u \in Tids : session'[u] = IF u = t THEN "open" ELSE session[u]
        BY <1>1, <2>2
    <2>4. \A u \in Tids : Open(u)' <=> u = t \/ Open(u)
        BY <2>2, <2>3 DEF Open
    <2>5. ~HasChanges(EverLogged, t)
        BY <2>2 DEF Owned
    <2>6. Listings'
        BY <1>1, <1>2, <2>1, <2>4, <2>5, ListingsOfRecords DEF EndOperations, IsCheckpoint
    <2>7. CommitsListed'
        BY <1>1, <2>1, <2>2, <2>3, CommitsOfRecords DEF Books
    <2> QED
        BY <1>2, <2>2, <2>6, <2>7 DEF Books
<1>4. CASE write_log(t)
    <2>1. PICK e \in LogEntry, c \in unlogged[t] :
              /\ c \in Changes /\ e.transaction_id = t /\ e.operation = c.operation /\ Push(e)
        BY <1>1, <1>4, RecordOfChange DEF Everything
    <2>8. e.operation \in DataOperations
        BY <2>1 DEF Changes
    <2>2. /\ session[t] = "writing" /\ session' = [session EXCEPT ![t] = "open"]
          /\ active_transactions_cache' = active_transactions_cache
          /\ mtx' = "free"
        BY <1>2, <1>4 DEF write_log
    <2>3. \A u \in Tids : session'[u] = IF u = t THEN "open" ELSE session[u]
        BY <1>1, <2>2
    <2>4. \A u \in Tids : Open(u)' <=> Open(u)
        BY <2>2, <2>3 DEF Open
    <2>6. Listings'
        BY <1>1, <1>2, <2>1, <2>4, <2>8, ListingsOfRecords
        DEF EndOperations, DataOperations, IsCheckpoint
    <2>7. CommitsListed'
        BY <1>1, <2>1, <2>2, <2>3, <2>8, CommitsOfRecords DEF Books, DataOperations
    <2> QED
        BY <1>2, <2>2, <2>6, <2>7 DEF Books
<1>5. CASE commit_log(t)
    <2>1. PICK e \in LogEntry : e.transaction_id = t /\ e.operation = "COMMIT" /\ AppendAndFlush(e)
        BY <1>1, <1>5, RecordOfCommit
    <2>2. /\ session[t] = "open" /\ session' = [session EXCEPT ![t] = "committing"]
          /\ active_transactions_cache' = active_transactions_cache
          /\ mtx' = "commit"
        BY <1>5 DEF commit_log
    <2>3. \A u \in Tids : session'[u] = IF u = t THEN "committing" ELSE session[u]
        BY <1>1, <2>2
    <2>4. \A u \in Tids : Open(u)' <=> u # t /\ Open(u)
        BY <2>2, <2>3 DEF Open
    <2>5. log_buffer' = <<>>
        BY <2>1 DEF AppendAndFlush
    <2>6. Listings'
        BY <1>1, <1>2, <2>1, <2>4, ListingsOfRecords DEF EndOperations, IsCheckpoint
    <2>7. CommitsListed'
        BY <1>1, <2>1, <2>2, <2>3, CommitsOfRecords DEF Books
    <2> QED
        BY <1>2, <2>2, <2>5, <2>6, <2>7 DEF Books
<1>6. CASE abort_log(t)
    <2>1. PICK e \in LogEntry : e.transaction_id = t /\ e.operation = "ABORT" /\ AppendAndFlush(e)
        BY <1>1, <1>6, RecordOfAbort
    <2>2. /\ session[t] = "closing" /\ session' = [session EXCEPT ![t] = "ended"]
          /\ active_transactions_cache' = active_transactions_cache \ {t}
          /\ mtx' = "free"
        BY <1>2, <1>6 DEF abort_log
    <2>3. \A u \in Tids : session'[u] = IF u = t THEN "ended" ELSE session[u]
        BY <1>1, <2>2
    <2>4. \A u \in Tids : Open(u)' <=> u # t /\ Open(u)
        BY <2>2, <2>3 DEF Open
    <2>6. Listings'
        BY <1>1, <1>2, <2>1, <2>4, ListingsOfRecords DEF EndOperations, IsCheckpoint
    <2>7. CommitsListed'
        BY <1>1, <2>1, <2>2, <2>3, CommitsOfRecords DEF Books
    <2> QED
        BY <1>2, <2>2, <2>6, <2>7 DEF Books
<1> QED
    BY <1>3, <1>4, <1>5, <1>6

(* A step that at most flushes the buffer.                                 *)
LEMMA BooksOfFlushes ==
    ASSUME LogTyped, Books, UNCHANGED log \/ flush_buffer, process' = process, marker' = marker,
           \A u \in Tids : Open(u)' <=> Open(u),
           \A u \in Tids : session[u] \in {"committing", "ended"} =>
               session'[u] \in {"committing", "ended"},
           process # "up" => session' = session,
           (~InCheckpoint /\ ~InCheckpoint') \/ UNCHANGED mtx,
           process # "exited" \/ UNCHANGED mtx,
           mtx' # "free" => mtx # "free" \/ flush_buffer
    PROVE  Books'
<1>1. /\ EverLogged' = EverLogged
      /\ wal' = wal \/ wal' = EverLogged
      /\ mtx # "free" \/ flush_buffer => (mtx' # "free" => log_buffer' = <<>>)
    BY FlushGoesTo DEF log, EverLogged, Books, flush_buffer
<1>2. InCheckpoint' => InCheckpoint
    BY DEF InCheckpoint
<1>3. InCheckpoint => InCheckpoint'
    BY DEF InCheckpoint
<1>4. ~InCheckpoint' => Listings'
    BY <1>1, <1>3 DEF Listings, Books
<1>5. CommitsListed'
    BY <1>1 DEF CommitsListed, Books
<1> QED
    BY <1>1, <1>4, <1>5 DEF Books

(* The steps of transactions that log nothing keep the books.              *)
LEMMA BooksOfTransactions ==
    ASSUME Everything, Owned, Books, NEW t \in Tids,
           \/ \E op, K, rows, old, new : Change(t, op, K, rows, old, new)
           \/ commit_data(t) \/ abort_check(t) \/ recover(t) \/ abort_data(t)
    PROVE  Books'
<1>1. Typed /\ LogTyped /\ session \in [Tids -> Places] /\ CommitsAlone
    BY DEF Everything, Inv, Typed
<1>2. CASE \E op, K, rows, old, new : Change(t, op, K, rows, old, new)
    <2>1. /\ process = "up" /\ session[t] = "open" /\ session' = [session EXCEPT ![t] = "writing"]
          /\ UNCHANGED <<log, active_transactions_cache, mtx, process, marker>>
        BY <1>2 DEF Change
    <2>2. \A u \in Tids : session'[u] = IF u = t THEN "writing" ELSE session[u]
        BY <1>1, <2>1
    <2>3. \A u \in Tids : Open(u)' <=> Open(u)
        BY <2>1, <2>2 DEF Open
    <2> QED
        BY <1>1, <2>1, <2>2, <2>3, BooksOfFlushes
<1>3. CASE commit_data(t)
    <2>1. /\ process = "up" /\ session[t] = "committing"
          /\ session' = [session EXCEPT ![t] = "ended"]
          /\ active_transactions_cache' = active_transactions_cache \ {t} /\ mtx' = "free"
          /\ UNCHANGED <<log, process, marker>>
        BY <1>3 DEF commit_data
    <2>2. \A u \in Tids : session'[u] = IF u = t THEN "ended" ELSE session[u]
        BY <1>1, <2>1
    <2>3. \A u \in Tids : Open(u)' <=> Open(u)
        BY <2>1, <2>2 DEF Open
    <2>4. ~InCheckpoint /\ ~InCheckpoint'
        BY <1>1, <2>1 DEF CommitsAlone, InCheckpoint
    <2> QED
        BY <1>1, <2>1, <2>2, <2>3, <2>4, BooksOfFlushes
<1>4. CASE abort_check(t)
    <2>1. /\ process = "up" /\ session[t] = "open"
          /\ session' = [session EXCEPT ![t] =
                           IF HasChanges(EverLogged, t) THEN "undoing" ELSE "closing"]
          /\ UNCHANGED <<log, active_transactions_cache, mtx, process, marker>>
        BY <1>4 DEF abort_check, Running, EverLogged
    <2>2. \A u \in Tids : session'[u] =
              IF u = t THEN (IF HasChanges(EverLogged, t) THEN "undoing" ELSE "closing")
              ELSE session[u]
        BY <1>1, <2>1
    <2>3. \A u \in Tids : Open(u)' <=> Open(u)
        BY <2>1, <2>2 DEF Open
    <2> QED
        BY <1>1, <2>1, <2>2, <2>3, BooksOfFlushes
<1>5. CASE recover(t)
    <2>1. /\ process = "up" /\ session[t] = "undoing"
          /\ session' = [session EXCEPT ![t] = "undone"]
          /\ flush_buffer
          /\ UNCHANGED <<active_transactions_cache, mtx, process, marker>>
        BY <1>5 DEF recover, Running
    <2>2. \A u \in Tids : session'[u] = IF u = t THEN "undone" ELSE session[u]
        BY <1>1, <2>1
    <2>3. \A u \in Tids : Open(u)' <=> Open(u)
        BY <2>1, <2>2 DEF Open
    <2> QED
        BY <1>1, <2>1, <2>2, <2>3, BooksOfFlushes
<1>6. CASE abort_data(t)
    <2>1. /\ process = "up" /\ session[t] = "undone"
          /\ session' = [session EXCEPT ![t] = "closing"]
          /\ UNCHANGED <<log, active_transactions_cache, mtx, process, marker>>
        BY <1>6 DEF abort_data
    <2>2. \A u \in Tids : session'[u] = IF u = t THEN "closing" ELSE session[u]
        BY <1>1, <2>1
    <2>3. \A u \in Tids : Open(u)' <=> Open(u)
        BY <2>1, <2>2 DEF Open
    <2> QED
        BY <1>1, <2>1, <2>2, <2>3, BooksOfFlushes
<1> QED
    BY <1>2, <1>3, <1>4, <1>5, <1>6

(* Checkpoints, evictions and the exit keep the books.                     *)
LEMMA BooksOfTheRest ==
    ASSUME Undisturbed, Everything, Owned, Books,
           \/ checkpoint_begin \/ checkpoint_start \/ checkpoint_data \/ checkpoint_end
           \/ evict_page \/ exit
    PROVE  Books'
<1>1. Typed /\ LogTyped /\ session \in [Tids -> Places] /\ CommitsAlone
      /\ mtx \in {"free", "commit", "checkpoint", "started", "flushed"}
    BY DEF Everything, Inv, Typed, RestTyped
<1>2. UNCHANGED <<session, active_transactions_cache>>
    BY DEF checkpoint_begin, checkpoint_start, checkpoint_data, checkpoint_end, evict_page, exit,
           CheckpointStep, client
<1>3. \A u \in Tids : Open(u)' <=> Open(u)
    BY <1>2 DEF Open
<1>4. CASE checkpoint_begin \/ evict_page
    <2>1. UNCHANGED <<process, marker>>
        BY <1>4 DEF checkpoint_begin, evict_page, CheckpointStep
    <2>2. \/ UNCHANGED log /\ UNCHANGED mtx
          \/ flush_buffer /\ mtx = "free" /\ mtx' = "checkpoint" /\ process # "exited"
        BY <1>4 DEF checkpoint_begin, evict_page, CheckpointStep
    <2> QED
        BY <1>1, <1>2, <1>3, <2>1, <2>2, BooksOfFlushes DEF InCheckpoint
<1>5. CASE checkpoint_data
    <2>1. /\ UNCHANGED <<log, process, marker>> /\ mtx = "started" /\ mtx' = "flushed"
          /\ process # "exited"
        BY <1>5 DEF checkpoint_data, CheckpointStep
    <2>2. EverLogged' = EverLogged /\ wal' = wal /\ log_buffer' = log_buffer
        BY <2>1 DEF log, EverLogged
    <2> QED
        BY <1>2, <2>1, <2>2 DEF Books, CommitsListed, InCheckpoint
<1>6. CASE checkpoint_start \/ checkpoint_end
    <2>1. PICK e \in LogEntry :
              /\ e.transaction_id \notin Tids /\ IsCheckpoint(e) /\ AppendAndFlush(e)
              /\ checkpoint_end => e.active = active_transactions_cache
        BY <1>1, <1>6, RecordOfCheckpoint
    <2>2. /\ EverLogged \in Seq(LogEntry) /\ EverLogged' = Append(EverLogged, e)
          /\ wal' = EverLogged' /\ log_buffer' = <<>>
        BY <1>1, <2>1, RecordsGoTo
    <2>3. e.operation # "COMMIT"
        BY <2>1 DEF IsCheckpoint
    <2>4. CommitsListed'
        BY <1>1, <1>2, <2>1, <2>3, CommitsOfRecords DEF Books
    <2>5. CASE checkpoint_start
        <3>1. InCheckpoint' /\ mtx' # "free" /\ UNCHANGED <<process, marker>> /\ process # "exited"
            BY <2>5 DEF checkpoint_start, CheckpointStep, InCheckpoint
        <3> QED
            BY <1>2, <2>2, <2>4, <3>1 DEF Books
    <2>6. CASE checkpoint_end
        <3>1. /\ mtx = "flushed" /\ mtx' = "free" /\ marker' = marker
              /\ process' = IF process = "exiting" THEN "exited" ELSE process
            BY <2>6 DEF checkpoint_end, CheckpointStep
        <3>2. \A u \in Tids : Open(u) <=> u \in active_transactions_cache
            BY <1>1, <3>1 DEF Open, CommitsAlone
        <3>3. undo_list(Append(EverLogged, e)) = active_transactions_cache
            BY <2>1, <2>2, <2>6, UndoListLaws
        <3>4. active_transactions_cache \subseteq Tids
            BY <1>1 DEF Typed
        <3>5. undo_list(EverLogged') = {u \in Tids : Open(u)'} /\ wal' = EverLogged'
            BY <1>3, <2>2, <3>2, <3>3, <3>4
        <3>6. Listings'
            BY <3>5 DEF Listings
        <3> QED
            BY <1>2, <2>4, <3>1, <3>6 DEF Books
    <2> QED
        BY <1>6, <2>5, <2>6
<1>7. CASE exit
    <2>1. /\ process = "up" /\ process' = "exiting" /\ marker' = FALSE
          /\ mtx = "free" /\ mtx' = "free" /\ active_transactions_cache = {}
          /\ UNCHANGED log
        BY <1>7 DEF exit, Running, Undisturbed
    <2>2. EverLogged' = EverLogged /\ wal' = wal /\ log_buffer' = log_buffer
        BY <2>1 DEF log, EverLogged
    <2>3. \A u \in Tids : session'[u] \in {"none", "ended"}
        BY <1>2, <2>1 DEF Owned
    <2>4. Listings' /\ CommitsListed'
        BY <1>2, <1>3, <2>1, <2>2 DEF Books, Listings, CommitsListed, InCheckpoint
    <2> QED
        BY <2>1, <2>3, <2>4 DEF Books
<1> QED
    BY <1>4, <1>5, <1>6, <1>7

-----------------------------------------------------------------------------
(* The rows, in the first life.                                            *)

OneRowPerKey(S) == \A p, q \in S : p.key = q.key => p = q

(* Has changes and no COMMIT record.                                       *)
Writer(t) == changed[t] # {} /\ session[t] # "committing"

GivenUp(t) == session[t] \in {"undone", "closing"}

(* The rows a recovery would find in the file, if a crash came now; within *)
(* a checkpoint, those it would find if the checkpoint were over.          *)
Held(N) == IF InCheckpoint THEN N ELSE RowsOf(disk)

(* N is what the table would be without the change that is not logged yet. *)
Owes(t, c, N) ==
    /\ KeyOf(c) \in changed[t]
    /\ TurnsInto(c, KeyOf(c), At(N, KeyOf(c)), At(RowsOf(table), KeyOf(c)))
    /\ \A k \in Keys : k # KeyOf(c) => At(RowsOf(table), k) = At(N, k)

LoggedAre(N) ==
    /\ N \in SUBSET Row /\ OneRowPerKey(N) /\ OneRowPerKey(committed)
    /\ (\A t \in Tids : unlogged[t] = {}) => N = RowsOf(table)
    /\ \A t \in Tids : \A c \in unlogged[t] : Owes(t, c, N)
    /\ mtx = "flushed" => N = RowsOf(disk)

Pending(w, N) ==
    /\ \A k \in Keys \ changed[w] : At(N, k) = At(committed, k)
    /\ GivenUp(w) => N = committed
    /\ Cured(EverLogged, w, committed, Held(N)) /\ Cured(wal, w, committed, Held(N))
    /\ ~GivenUp(w) => UndoneTo(EverLogged, w, committed, Held(N), N)
    /\ ~GivenUp(w) /\ ~HasChanges(log_buffer, w) => UndoneTo(wal, w, committed, Held(N), N)
    /\ session[w] \in {"open", "writing"} => RedoneTo(EverLogged, w, Held(N), N)

NothingPending(N) ==
    /\ N = committed
    /\ Settled(EverLogged, committed, Held(N)) /\ Settled(wal, committed, Held(N))

RowsAre(N) ==
    /\ LoggedAre(N)
    /\ (\A t \in Tids : ~Writer(t)) => NothingPending(N)
    /\ \A w \in Tids : Writer(w) => Pending(w, N)

-----------------------------------------------------------------------------

(* The log has t's change of a row with key k.                             *)
ChangeLogged(L, t, k) ==
    \E e \in ToSet(L) :
        e.transaction_id = t /\ IsData(e) /\ k \in {e.old_value.key, e.new_value.key}

(* The records stay in the log, and those of the file in the file.         *)
LEMMA LogGrows ==
    ASSUME LogTyped, NEW e \in LogEntry, Push(e) \/ AppendAndFlush(e)
    PROVE  /\ ToSet(wal) \subseteq ToSet(EverLogged)
           /\ ToSet(EverLogged') = ToSet(EverLogged) \cup {e}
           /\ ToSet(wal) \subseteq ToSet(wal')
<1>1. ToSet(wal) \subseteq ToSet(EverLogged)
    BY ChangesOfParts DEF LogTyped, EverLogged
<1>2. EverLogged' = Append(EverLogged, e) /\ EverLogged \in Seq(LogEntry)
      /\ (wal' = EverLogged' \/ wal' = wal)
    BY RecordsGoTo
<1>3. ToSet(EverLogged') = ToSet(EverLogged) \cup {e}
    BY <1>2, MembersOfLonger
<1> QED
    BY <1>1, <1>2, <1>3

(* What is logged stays so in a longer log.                                *)
LEMMA MoreIsLogged ==
    ASSUME NEW s, NEW r, ToSet(s) \subseteq ToSet(r)
    PROVE  /\ \A t, k : ChangeLogged(s, t, k) => ChangeLogged(r, t, k)
           /\ \A u : HasChanges(s, u) => HasChanges(r, u)
BY DEF ChangeLogged, HasChanges

(* Who logs, in the first life, without having changed anything: the rows  *)
(* are the same before and after.                                          *)
LEMMA RowsOfIdleRecords ==
    ASSUME Everything, NEW N, RowsAre(N), NEW e \in LogEntry, NEW t \in Tids,
           e.transaction_id = t, Push(e) \/ AppendAndFlush(e), Idle(EverLogged, e),
           changed[t] = {}, ~HasChanges(EverLogged, t),
           UNCHANGED <<table, disk, unlogged, changed, committed>>,
           ~InCheckpoint, ~InCheckpoint',
           \A u \in Tids \ {t} : session'[u] = session[u],
           active_transactions_cache \ {t} \subseteq active_transactions_cache'
    PROVE  RowsAre(N)'
<1>1. LogTyped /\ log_buffer \in Seq(LogEntry) /\ wal \in Seq(LogEntry)
    BY DEF Everything, Inv, Typed, LogTyped
<1>2. /\ EverLogged \in Seq(LogEntry) /\ EverLogged' = Append(EverLogged, e)
      /\ \/ wal' = EverLogged'
         \/ wal' = wal /\ log_buffer' = Append(log_buffer, e)
    BY <1>1, RecordsGoTo
<1>3. ~IsData(e) /\ Who \ {e.transaction_id} = Who \ {t} /\ \A w \in Tids : w # t => w \in Who \ {t}
    BY DEF Idle, Who
<1>4. ASSUME NEW u, wal' # EverLogged'
      PROVE  HasChanges(log_buffer', u) <=> HasChanges(log_buffer, u)
    <2>1. log_buffer' = Append(log_buffer, e)
        BY <1>2, <1>4
    <2>2. HasChanges(Append(log_buffer, e), u) <=> HasChanges(log_buffer, u)
        BY <1>1, <1>3, HasChangesLaws
    <2> QED
        BY <2>1, <2>2
<1>5. Held(N)' = Held(N) /\ Held(N) = RowsOf(disk)
    BY DEF Held, RowsOf
<1>6. \A C, H : Settled(EverLogged, C, H) => Settled(EverLogged', C, H)
    BY <1>2, IdleRecords
<1>7. \A w \in Tids : \A C, H : w # t =>
          /\ Cured(EverLogged, w, C, H) => Cured(EverLogged', w, C, H)
          /\ UndoneTo(EverLogged, w, C, H, N) => UndoneTo(EverLogged', w, C, H, N)
          /\ RedoneTo(EverLogged, w, H, N) => RedoneTo(EverLogged', w, H, N)
    BY <1>2, <1>3, IdleRecords
<1>8. ToSet(wal) \subseteq ToSet(wal') /\ ToSet(EverLogged) \subseteq ToSet(EverLogged')
      /\ ToSet(wal) \subseteq ToSet(EverLogged)
    BY <1>1, LogGrows
<1>9. LoggedAre(N)'
    <2>1. mtx' # "flushed"
        BY DEF InCheckpoint
    <2> QED
        BY <2>1 DEF RowsAre, LoggedAre, Owes, RowsOf
<1>10. \A u \in Tids : Writer(u)' <=> Writer(u)
    BY DEF Writer
<1>11. (\A u \in Tids : ~Writer(u)') => NothingPending(N)'
    <2> SUFFICES ASSUME \A u \in Tids : ~Writer(u)'
                 PROVE  NothingPending(N)'
        OBVIOUS
    <2>1. NothingPending(N)
        BY <1>10 DEF RowsAre
    <2> QED
        BY <1>2, <1>5, <1>6, <2>1 DEF NothingPending
<1>12. ASSUME NEW w \in Tids, Writer(w)'
       PROVE  Pending(w, N)'
    <2>1. Pending(w, N) /\ w # t /\ session'[w] = session[w]
        BY <1>10, <1>12 DEF RowsAre, Writer
    <2>2. Cured(EverLogged', w, committed', Held(N)')
        BY <1>5, <1>7, <2>1 DEF Pending
    <2>3. Cured(wal', w, committed', Held(N)')
        BY <1>2, <1>5, <2>1, <2>2 DEF Pending
    <2>4. ~GivenUp(w)' => UndoneTo(EverLogged', w, committed', Held(N)', N)
        BY <1>5, <1>7, <2>1 DEF Pending, GivenUp
    <2>5. ~GivenUp(w)' /\ ~HasChanges(log_buffer', w) =>
              UndoneTo(wal', w, committed', Held(N)', N)
        BY <1>2, <1>4, <1>5, <2>1, <2>4 DEF Pending, GivenUp
    <2>6. session'[w] \in {"open", "writing"} => RedoneTo(EverLogged', w, Held(N)', N)
        BY <1>5, <1>7, <2>1 DEF Pending
    <2> QED
        BY <2>1, <2>2, <2>3, <2>4, <2>5, <2>6 DEF Pending, GivenUp
<1> QED
    BY <1>9, <1>11, <1>12 DEF RowsAre

-----------------------------------------------------------------------------
(* Nothing is written but what is in the buffer.                           *)
LEMMA RowsStay ==
    ASSUME Everything, NEW N, RowsAre(N), UNCHANGED log \/ flush_buffer,
           UNCHANGED <<table, disk, unlogged, changed, committed, active_transactions_cache>>,
           UNCHANGED mtx \/ (~InCheckpoint /\ ~InCheckpoint'),
           \A u \in Tids : session'[u] = "committing" <=> session[u] = "committing",
           \A u \in Tids : Writer(u) => (GivenUp(u)' <=> GivenUp(u)),
           \A u \in Tids : session'[u] \in {"open", "writing"} => session[u] \in {"open", "writing"}
    PROVE  RowsAre(N)'
<1>1. LogTyped
    BY DEF Everything, Inv, Typed
<1>2. /\ EverLogged' = EverLogged
      /\ \/ wal' = wal /\ log_buffer' = log_buffer
         \/ wal' = EverLogged
    BY <1>1, FlushGoesTo DEF log, EverLogged
<1>3. Held(N)' = Held(N)
    BY DEF Held, InCheckpoint, RowsOf
<1>4. LoggedAre(N)'
    <2>1. mtx' = "flushed" => mtx = "flushed"
        BY DEF InCheckpoint
    <2> QED
        BY <2>1 DEF RowsAre, LoggedAre, Owes, RowsOf
<1>5. \A u \in Tids : Writer(u)' <=> Writer(u)
    BY DEF Writer
<1>6. (\A u \in Tids : ~Writer(u)') => NothingPending(N)'
    BY <1>2, <1>3, <1>5 DEF RowsAre, NothingPending
<1>7. ASSUME NEW w \in Tids, Writer(w)'
      PROVE  Pending(w, N)'
    <2>1. Pending(w, N) /\ (GivenUp(w)' <=> GivenUp(w))
        BY <1>5, <1>7 DEF RowsAre
    <2> QED
        BY <1>2, <1>3, <2>1 DEF Pending
<1> QED
    BY <1>4, <1>6, <1>7 DEF RowsAre

(* The table reaches its file.                                             *)
LEMMA RowsFlushed ==
    ASSUME Everything, Owned, NEW N, RowsAre(N), UNCHANGED <<log, table, unlogged, committed>>,
           disk' = table, \A u \in Tids : unlogged[u] = {},
           \A u \in Tids : Writer(u) => GivenUp(u) \/ ~HasChanges(log_buffer, u),
           \A u \in Tids : Writer(u)' <=> Writer(u),
           \A u \in Tids : Writer(u) =>
               /\ changed'[u] = changed[u] /\ u \in active_transactions_cache'
               /\ GivenUp(u)' <=> GivenUp(u)
               /\ session'[u] \in {"open", "writing"} => session[u] \in {"open", "writing"}
    PROVE  RowsAre(N)'
<1>1. LogTyped
    BY DEF Everything, Inv, Typed
<1>2. EverLogged' = EverLogged /\ wal' = wal /\ log_buffer' = log_buffer
    BY DEF log, EverLogged
<1>3. N = RowsOf(table) /\ RowsOf(table') = N /\ RowsOf(disk') = N
    BY DEF RowsAre, LoggedAre, RowsOf
<1>4. Held(N)' = N
    BY <1>3 DEF Held, RowsOf
<1>5. LoggedAre(N)'
    BY <1>3 DEF RowsAre, LoggedAre, RowsOf
<1>6. (\A u \in Tids : ~Writer(u)') => NothingPending(N)'
    <2>1. (\A u \in Tids : ~Writer(u)) => NothingPending(N)
        BY DEF RowsAre
    <2>2. \A L : Settled(L, committed, Held(N)) => Settled(L, committed, committed)
        BY RowsReachTheFile
    <2> QED
        BY <1>2, <1>4, <2>1, <2>2 DEF NothingPending
<1>7. ASSUME NEW w \in Tids, Writer(w)
      PROVE  Pending(w, N)'
    <2>1. Pending(w, N) /\ (GivenUp(w)' <=> GivenUp(w)) /\ changed'[w] = changed[w]
          /\ (session'[w] \in {"open", "writing"} => session[w] \in {"open", "writing"})
          /\ (GivenUp(w) \/ ~HasChanges(log_buffer, w))
        BY <1>7 DEF RowsAre
    <2>2. \A L : /\ Cured(L, w, committed, Held(N)) => Cured(L, w, committed, committed)
                 /\ UndoneTo(L, w, committed, Held(N), N) => UndoneTo(L, w, committed, N, N)
                 /\ RedoneTo(L, w, Held(N), N) => RedoneTo(L, w, N, N)
                 /\ UndoneTo(L, w, committed, N, N) => Cured(L, w, committed, N)
        BY RowsReachTheFile
    <2>3. Cured(EverLogged, w, committed, N) /\ Cured(wal, w, committed, N)
        <3>1. CASE GivenUp(w)
            BY <2>1, <2>2, <3>1 DEF Pending
        <3>2. CASE ~GivenUp(w)
            BY <2>1, <2>2, <3>2 DEF Pending
        <3> QED
            BY <3>1, <3>2
    <2>4. ~GivenUp(w) => UndoneTo(EverLogged, w, committed, N, N)
                         /\ UndoneTo(wal, w, committed, N, N)
        BY <2>1, <2>2 DEF Pending
    <2>5. session[w] \in {"open", "writing"} => RedoneTo(EverLogged, w, N, N)
        BY <2>1, <2>2 DEF Pending
    <2> QED
        BY <1>2, <1>4, <2>1, <2>3, <2>4, <2>5 DEF Pending
<1> QED
    BY <1>5, <1>6, <1>7 DEF RowsAre

(* COMMIT of a transaction with changes.                                   *)
LEMMA RowsCommitted ==
    ASSUME Everything, Owned, NEW N, RowsAre(N), NEW t \in Tids, Writer(t), session[t] = "open",
           NEW e \in LogEntry, e.transaction_id = t, e.operation = "COMMIT", AppendAndFlush(e),
           UNCHANGED <<table, disk, unlogged, changed, active_transactions_cache>>,
           \A u \in Tids : unlogged[u] = {},
           committed' = (committed \ WithKey(changed[t])) \cup (RowsOf(table) \cap WithKey(changed[t])),
           session'[t] = "committing", ~InCheckpoint, ~InCheckpoint'
    PROVE  RowsAre(N)'
<1>1. LogTyped /\ committed \in SUBSET Row /\ changed[t] \in SUBSET Keys
    BY DEF Everything, Inv, Typed, RestTyped
<1>2. EverLogged \in Seq(LogEntry) /\ EverLogged' = Append(EverLogged, e) /\ wal' = EverLogged'
    BY <1>1, RecordsGoTo
<1>3. Pending(t, N) /\ N = RowsOf(table) /\ N \in SUBSET Row
    BY DEF RowsAre, LoggedAre
<1>4. committed' = N
    <2>1. committed' \in SUBSET Row
        BY <1>1, <1>3
    <2>2. ASSUME NEW k \in Keys
          PROVE  At(committed', k) = At(N, k)
        <3>1. CASE k \in changed[t]
            BY <1>3, <3>1 DEF At, WithKey
        <3>2. CASE k \notin changed[t]
            <4>1. At(committed', k) = At(committed, k)
                BY <3>2 DEF At, WithKey
            <4> QED
                BY <1>3, <3>2, <4>1 DEF Pending
        <3> QED
            BY <3>1, <3>2
    <2> DEFINE M == committed'
    <2>3. M \in SUBSET Row /\ \A k \in Keys : At(M, k) = At(N, k)
        BY <2>1, <2>2
    <2> HIDE DEF M
    <2>4. M = N
        BY <1>3, <2>3, SameRows
    <2> QED
        BY <2>4 DEF M
<1>5. Held(N)' = Held(N)
    BY DEF Held, RowsOf
<1>6. LoggedAre(N)'
    <2>1. mtx' # "flushed"
        BY DEF InCheckpoint
    <2> QED
        BY <1>4, <2>1 DEF RowsAre, LoggedAre, RowsOf
<1>7. NothingPending(N)'
    <2>1. RedoneTo(EverLogged, t, Held(N), N)
        BY <1>3 DEF Pending
    <2>2. Settled(EverLogged', N, Held(N))
        BY <1>2, <2>1, CommitRecords
    <2> QED
        BY <1>2, <1>4, <1>5, <2>2 DEF NothingPending
<1>8. \A u \in Tids : ~Writer(u)'
    BY DEF Writer, Owned
<1> QED
    BY <1>6, <1>7, <1>8 DEF RowsAre

-----------------------------------------------------------------------------
(* ABORT of a transaction whose changes are undone.                        *)
LEMMA RowsAborted ==
    ASSUME Everything, Owned, NEW N, RowsAre(N), NEW t \in Tids, Writer(t), session[t] = "closing",
           NEW e \in LogEntry, e.transaction_id = t, e.operation = "ABORT", AppendAndFlush(e),
           UNCHANGED <<table, disk, unlogged, committed>>,
           \A u \in Tids : changed'[u] = IF u = t THEN {} ELSE changed[u],
           ~InCheckpoint, ~InCheckpoint'
    PROVE  RowsAre(N)'
<1>1. LogTyped /\ committed \in SUBSET Row
    BY DEF Everything, Inv, Typed, RestTyped
<1>2. EverLogged \in Seq(LogEntry) /\ EverLogged' = Append(EverLogged, e) /\ wal' = EverLogged'
    BY <1>1, RecordsGoTo
<1>3. \A u \in Tids : unlogged[u] = {}
    <2>1. \A u \in Tids : u # t => session[u] # "writing"
        BY DEF Owned, Writer
    <2> QED
        BY <2>1 DEF Everything, RestTyped
<1>4. Pending(t, N) /\ N = RowsOf(table) /\ N = committed /\ RowsOf(disk) = N
    BY <1>3 DEF RowsAre, LoggedAre, Pending, GivenUp, Owned, Writer
<1>5. Held(N) = N /\ Held(N)' = N
    BY <1>4 DEF Held, RowsOf
<1>6. LoggedAre(N)'
    BY <1>3, <1>4 DEF RowsAre, LoggedAre, RowsOf
<1>7. Settled(EverLogged', N, N)
    <2>1. Cured(EverLogged, t, N, N)
        BY <1>4, <1>5 DEF Pending
    <2>2. Settled(EverLogged, N, N)
        BY <2>1, RowsReachTheFile
    <2>3. Idle(EverLogged, e)
        BY DEF Idle, IsData, IsCheckpoint, DataOperations
    <2> QED
        BY <1>2, <2>2, <2>3, IdleRecords
<1>8. NothingPending(N)'
    BY <1>2, <1>4, <1>5, <1>7 DEF NothingPending
<1>9. \A u \in Tids : ~Writer(u)'
    BY DEF Writer, Owned
<1> QED
    BY <1>6, <1>8, <1>9 DEF RowsAre

(* Rollback in the buffer pool.                                            *)
LEMMA RowsRolledBack ==
    ASSUME Everything, Owned, NEW N, RowsAre(N), NEW t \in Tids, session[t] = "undoing",
           table' = Undone(EverLogged, table, t), flush_buffer,
           UNCHANGED <<disk, unlogged, changed, committed, active_transactions_cache, mtx>>,
           session' = [session EXCEPT ![t] = "undone"], mtx = "free"
    PROVE  \E M : RowsAre(M)'
<1>1. LogTyped /\ committed \in SUBSET Row /\ session \in [Tids -> Places] /\ table \in Tables
    BY DEF Everything, Inv, Typed, RestTyped
<1>2. EverLogged \in Seq(LogEntry) /\ EverLogged' = EverLogged /\ wal' = EverLogged
    BY <1>1, FlushGoesTo
<1>3. changed[t] # {} /\ Writer(t) /\ \A u \in Tids : changed[u] # {} => u = t
    BY DEF Owned, Writer
<1>4. \A u \in Tids : unlogged[u] = {}
    <2>1. \A u \in Tids : session[u] # "writing"
        BY <1>3 DEF Owned
    <2> QED
        BY <2>1 DEF Everything, RestTyped
<1>5. Pending(t, N) /\ N = RowsOf(table) /\ ~GivenUp(t) /\ Held(N) = RowsOf(disk)
    BY <1>3, <1>4 DEF RowsAre, LoggedAre, GivenUp, Held, InCheckpoint
<1>6. RowsOf(table') = committed
    <2>1. UndoneTo(EverLogged, t, committed, RowsOf(disk), RowsOf(table))
        BY <1>5 DEF Pending
    <2>2. RowsOf(Undone(EverLogged, table, t)) = committed
        BY <1>1, <2>1, RollbackRestores
    <2> QED
        BY <2>2
<1>7. PICK M : M = committed
    OBVIOUS
<1>8. Held(M)' = RowsOf(disk)
    BY DEF Held, InCheckpoint, RowsOf
<1>9. LoggedAre(M)'
    <2>1. M \in SUBSET Row /\ OneRowPerKey(M)
        BY <1>1, <1>7 DEF RowsAre, LoggedAre
    <2> QED
        BY <1>4, <1>6, <1>7, <2>1 DEF LoggedAre, RowsOf
<1>10. \A u \in Tids : Writer(u)' => u = t
    BY <1>3 DEF Writer
<1>11. Writer(t)' /\ GivenUp(t)' /\ session'[t] = "undone"
    BY <1>1, <1>3 DEF Writer, GivenUp
<1>12. Pending(t, M)'
    <2>1. Cured(EverLogged, t, committed, RowsOf(disk))
        BY <1>5 DEF Pending
    <2>2. Cured(EverLogged', t, committed', Held(M)') /\ Cured(wal', t, committed', Held(M)')
        BY <1>2, <1>8, <2>1
    <2> QED
        BY <1>7, <1>11, <2>2 DEF Pending
<1> QED
    BY <1>9, <1>10, <1>11, <1>12 DEF RowsAre

(* A statement that changes the rows of one key.                           *)
LEMMA RowsChanged ==
    ASSUME Undisturbed, Everything, Owned, Books, NEW N, RowsAre(N), NEW t \in Tids, NEW k \in Keys,
           NEW op, NEW rows, NEW old, NEW new, Change(t, op, {k}, rows, old, new),
           NEW c, c = [operation |-> op, old_value |-> old, new_value |-> new],
           N = RowsOf(table) => KeyOf(c) = k
                /\ TurnsInto(c, k, At(RowsOf(table), k), At(RowsOf(rows), k))
                /\ \A q \in Keys : q # k => At(RowsOf(rows), q) = At(RowsOf(table), q)
    PROVE  RowsAre(N)'
<1>1. /\ session \in [Tids -> Places] /\ changed \in [Tids -> SUBSET Keys]
      /\ unlogged \in [Tids -> SUBSET Changes] /\ LogTyped
    BY DEF Everything, Inv, Typed, RestTyped
<1>2. /\ session[t] = "open" /\ session' = [session EXCEPT ![t] = "writing"]
      /\ changed' = [changed EXCEPT ![t] = @ \cup {k}]
      /\ unlogged' = [unlogged EXCEPT ![t] = {c}] /\ table' = rows
      /\ UNCHANGED <<log, active_transactions_cache, mtx, disk, committed>>
      /\ \A u \in Tids \ {t} : changed[u] = {}
    BY DEF Change, Protected, Undisturbed
<1>3. EverLogged' = EverLogged /\ wal' = wal /\ log_buffer' = log_buffer
    BY <1>2 DEF log, EverLogged
<1>4. \A u \in Tids : unlogged[u] = {}
    <2>1. \A u \in Tids : session[u] # "writing"
        BY <1>2 DEF Owned
    <2> QED
        BY <2>1 DEF Everything, RestTyped
<1>5. N = RowsOf(table)
    BY <1>4 DEF RowsAre, LoggedAre
<1>6. /\ \A u \in Tids : unlogged'[u] = IF u = t THEN {c} ELSE {}
      /\ \A u \in Tids : session'[u] = IF u = t THEN "writing" ELSE session[u]
      /\ \A u \in Tids : changed'[u] = IF u = t THEN changed[t] \cup {k} ELSE {}
    BY <1>1, <1>2, <1>4
<1>7. Held(N)' = Held(N)
    BY <1>2 DEF Held, InCheckpoint, RowsOf
<1>8. LoggedAre(N)'
    <2>1. Owes(t, c, N)'
        BY <1>2, <1>5, <1>6 DEF Owes, RowsOf
    <2>2. unlogged'[t] # {}
        BY <1>6
    <2>3. \A u \in Tids : \A d \in unlogged'[u] : Owes(u, d, N)'
        BY <1>6, <2>1
    <2>4. mtx' = "flushed" => N = RowsOf(disk')
        BY <1>2 DEF RowsAre, LoggedAre, RowsOf
    <2> QED
        BY <1>2, <2>2, <2>3, <2>4 DEF RowsAre, LoggedAre
<1>9. \A u \in Tids : Writer(u)' <=> u = t
    BY <1>6 DEF Writer
<1>10. ~GivenUp(t) /\ ~GivenUp(t)' /\ session'[t] = "writing"
    BY <1>2, <1>6 DEF GivenUp
<1>11. Pending(t, N)'
    <2>1. CASE changed[t] # {}
        <3>1. Pending(t, N)
            BY <1>2, <2>1 DEF RowsAre, Writer
        <3> QED
            BY <1>2, <1>3, <1>6, <1>7, <1>10, <3>1 DEF Pending
    <2>2. CASE changed[t] = {}
        <3>1. NothingPending(N)
            BY <1>2, <2>2 DEF RowsAre, Writer
        <3>2. ~HasChanges(EverLogged, t)
            BY <1>2, <2>2 DEF Owned
        <3>3. EverLogged \in Seq(LogEntry) /\ wal \in Seq(LogEntry) /\ t \in Who
              /\ ToSet(wal) \subseteq ToSet(EverLogged)
            BY <1>1, ChangesOfParts DEF LogTyped, EverLogged, Who
        <3>4. ~HasChanges(wal, t)
            BY <3>2, <3>3, MoreIsLogged
        <3>5. /\ UndoneTo(EverLogged, t, committed, Held(N), committed)
              /\ RedoneTo(EverLogged, t, Held(N), committed)
            BY <3>1, <3>2, <3>3, FirstChanges DEF NothingPending
        <3>6. UndoneTo(wal, t, committed, Held(N), committed)
            BY <3>1, <3>3, <3>4, FirstChanges DEF NothingPending
        <3>7. Cured(EverLogged, t, committed, Held(N)) /\ Cured(wal, t, committed, Held(N))
            BY <3>5, <3>6, RowsReachTheFile
        <3> QED
            BY <1>2, <1>3, <1>7, <1>10, <3>1, <3>5, <3>6, <3>7 DEF Pending, NothingPending
    <2> QED
        BY <2>1, <2>2
<1> QED
    BY <1>8, <1>9, <1>11 DEF RowsAre

-----------------------------------------------------------------------------
(* The change gets its record.                                             *)
LEMMA RowsChangeLogged ==
    ASSUME Everything, Owned, Books, NEW N, RowsAre(N), NEW t \in Tids, write_log(t)
    PROVE  \E M : RowsAre(M)'
<1>1. /\ Typed /\ LogTyped /\ committed \in SUBSET Row /\ session \in [Tids -> Places]
      /\ changed \in [Tids -> SUBSET Keys] /\ unlogged \in [Tids -> SUBSET Changes]
      /\ log_buffer \in Seq(LogEntry)
    BY DEF Everything, Inv, Typed, RestTyped, LogTyped
<1>2. PICK e \in LogEntry, c \in unlogged[t] :
          /\ c \in Changes /\ e.transaction_id = t /\ e.operation = c.operation
          /\ e.old_value = c.old_value /\ e.new_value = c.new_value /\ Push(e)
    BY <1>1, RecordOfChange DEF Everything
<1>3. /\ session[t] = "writing" /\ session' = [session EXCEPT ![t] = "open"]
      /\ unlogged' = [unlogged EXCEPT ![t] = {}] /\ mtx = "free"
      /\ UNCHANGED <<active_transactions_cache, mtx, table, disk, changed, committed>>
    BY DEF write_log, Running
<1>4. /\ EverLogged \in Seq(LogEntry) /\ EverLogged' = Append(EverLogged, e)
      /\ \/ wal' = EverLogged'
         \/ wal' = wal /\ log_buffer' = Append(log_buffer, e)
    BY <1>1, <1>2, RecordsGoTo
<1>5. changed[t] # {} /\ Writer(t) /\ \A u \in Tids : changed[u] # {} => u = t
    BY <1>3 DEF Owned, Writer
<1>6. \A u \in Tids : unlogged'[u] = {}
    <2>1. \A u \in Tids : u # t => session[u] # "writing"
        BY <1>5 DEF Owned
    <2> QED
        BY <1>1, <1>3, <2>1 DEF Everything, RestTyped
<1>7. Owes(t, c, N) /\ Pending(t, N) /\ ~GivenUp(t) /\ N \in SUBSET Row /\ OneRowPerKey(N)
    BY <1>2, <1>3, <1>5 DEF RowsAre, LoggedAre, GivenUp
<1>8. PICK k \in Keys : k = KeyOf(c)
    BY <1>1, <1>7 DEF Owes
<1>9. IsData(e) /\ KeyOf(e) = k /\ Shaped(e)
      /\ \A n, next : TurnsInto(c, k, n, next) => TurnsInto(e, k, n, next)
    BY <1>2, <1>7, <1>8 DEF TurnsInto, Owes, IsData, KeyOf, Shaped
<1>10. PICK M \in SUBSET Row : M = RowsOf(table)
    BY DEF RowsOf
<1>11. TurnsInto(e, k, At(N, k), At(M, k)) /\ \A q \in Keys : q # k => At(M, q) = At(N, q)
    BY <1>7, <1>8, <1>9, <1>10 DEF Owes
<1>12. OneRowPerKey(M)
    <2> SUFFICES ASSUME NEW p \in M, NEW q \in M, p.key = q.key
                 PROVE  p = q
        BY DEF OneRowPerKey
    <2>1. p \in At(M, p.key) /\ q \in At(M, p.key) /\ p.key \in Keys
        BY DEF At, WithKey, Row
    <2>2. CASE p.key = k
        <3>1. At(M, k) = {} \/ At(M, k) = {e.new_value}
            BY <1>11 DEF TurnsInto, IsData, DataOperations
        <3> QED
            BY <2>1, <2>2, <3>1
    <2>3. CASE p.key # k
        <3>1. p \in N /\ q \in N
            BY <1>11, <2>1, <2>3 DEF At
        <3> QED
            BY <1>7, <3>1 DEF OneRowPerKey
    <2> QED
        BY <2>2, <2>3
<1>13. Held(N) = RowsOf(disk) /\ Held(M)' = RowsOf(disk)
    BY <1>3 DEF Held, InCheckpoint, RowsOf
<1>14. LoggedAre(M)'
    <2>1. mtx' # "flushed" /\ M = RowsOf(table')
        BY <1>3, <1>10 DEF RowsOf
    <2> QED
        BY <1>3, <1>6, <1>12, <2>1 DEF LoggedAre, RowsAre
<1>15. \A u \in Tids : Writer(u)' => u = t
    BY <1>3, <1>5 DEF Writer
<1>16. Writer(t)' /\ ~GivenUp(t)' /\ session'[t] = "open"
    BY <1>1, <1>3, <1>5 DEF Writer, GivenUp
<1>17. ToSet(EverLogged') = ToSet(EverLogged) \cup {e} /\ ToSet(wal) \subseteq ToSet(wal')
    BY <1>1, <1>2, LogGrows
<1>18. Pending(t, M)'
    <2>1. t \notin committed_txs(EverLogged)
        BY <1>3 DEF Books, CommitsListed
    <2>2. t \in Who
        BY DEF Who
    <2>3. /\ UndoneTo(EverLogged, t, committed, RowsOf(disk), N)
          /\ RedoneTo(EverLogged, t, RowsOf(disk), N)
          /\ Cured(wal, t, committed, RowsOf(disk))
        BY <1>3, <1>7, <1>13 DEF Pending
    <2>4. /\ UndoneTo(EverLogged', t, committed, RowsOf(disk), M)
          /\ RedoneTo(EverLogged', t, RowsOf(disk), M)
        BY <1>2, <1>4, <1>9, <1>11, <2>1, <2>2, <2>3, ChangeRecords
    <2>5. Cured(EverLogged', t, committed, RowsOf(disk))
        BY <2>4, RowsReachTheFile
    <2>6. Cured(wal', t, committed, RowsOf(disk))
        BY <1>4, <2>3, <2>5
    <2>7. ~HasChanges(log_buffer', t) => UndoneTo(wal', t, committed, RowsOf(disk), M)
        <3>1. CASE wal' = EverLogged'
            BY <2>4, <3>1
        <3>2. CASE log_buffer' = Append(log_buffer, e)
            BY <1>1, <1>2, <1>9, <3>2, HasChangesLaws
        <3> QED
            BY <1>4, <3>1, <3>2
    <2>9. \A q \in Keys \ changed[t] : At(M, q) = At(committed, q)
        BY <1>7, <1>8, <1>11 DEF Pending, Owes
    <2> QED
        BY <1>3, <1>13, <1>16, <2>4, <2>5, <2>6, <2>7, <2>9 DEF Pending
<1> QED
    BY <1>14, <1>15, <1>16, <1>18 DEF RowsAre

(* The two records of a checkpoint.                                        *)
LEMMA RowsOfCheckpoints ==
    ASSUME Everything, Owned, Books, NEW N, RowsAre(N), checkpoint_start \/ checkpoint_end
    PROVE  RowsAre(N)'
<1>1. /\ Typed /\ LogTyped /\ log_buffer \in Seq(LogEntry) /\ wal \in Seq(LogEntry)
    BY DEF Everything, Inv, Typed, LogTyped
<1>2. PICK e \in LogEntry : e.transaction_id \notin Tids /\ IsCheckpoint(e) /\ AppendAndFlush(e)
    BY <1>1, RecordOfCheckpoint
<1>3. /\ EverLogged \in Seq(LogEntry) /\ EverLogged' = Append(EverLogged, e)
      /\ wal' = EverLogged' /\ log_buffer' = <<>>
    BY <1>1, <1>2, RecordsGoTo
<1>4. /\ UNCHANGED <<active_transactions_cache, table, committed, disk, session, unlogged, changed>>
      /\ \/ mtx = "checkpoint" /\ mtx' = "started"
         \/ mtx = "flushed" /\ mtx' = "free"
    BY DEF checkpoint_start, checkpoint_end, CheckpointStep, client
<1>5. Held(N)' = N
    BY <1>4 DEF Held, InCheckpoint, RowsAre, LoggedAre, RowsOf
<1>6. LoggedAre(N)'
    BY <1>4 DEF RowsAre, LoggedAre, Owes, RowsOf
<1>7. \A u \in Tids : Writer(u)' <=> Writer(u)
    BY <1>4 DEF Writer
<1>8. (\A u \in Tids : ~Writer(u)') => NothingPending(N)'
    <2>1. \A C : Settled(EverLogged', C, C)
        BY <1>2, <1>3, CheckpointRecords
    <2> QED
        BY <1>3, <1>4, <1>5, <1>7, <2>1 DEF RowsAre, NothingPending
<1>9. wal = EverLogged /\ \A u : ~HasChanges(log_buffer, u)
    <2>1. log_buffer = <<>>
        BY <1>4 DEF Books
    <2>2. \A u : ~HasChanges(<<>>, u)
        BY MembersOfNone DEF HasChanges
    <2> QED
        BY <1>1, <2>1, <2>2 DEF EverLogged
<1>10. ASSUME NEW w \in Tids, Writer(w)
       PROVE  Pending(w, N)'
    <2>1. Pending(w, N) /\ (GivenUp(w)' <=> GivenUp(w))
        BY <1>4, <1>10 DEF RowsAre, GivenUp
    <2>2. w \in Who \ {e.transaction_id}
        BY <1>2 DEF Who
    <2>3. /\ \A C, H : Cured(EverLogged, w, C, H) => Cured(EverLogged', w, C, C)
          /\ \A C, H : UndoneTo(EverLogged, w, C, H, N) => UndoneTo(EverLogged', w, C, N, N)
          /\ RedoneTo(EverLogged', w, N, N)
        BY <1>2, <1>3, <2>2, CheckpointRecords
    <2>4. ~GivenUp(w) => UndoneTo(EverLogged', w, committed, N, N)
        BY <2>1, <2>3 DEF Pending
    <2>5. Cured(EverLogged', w, committed, N)
        <3>1. CASE GivenUp(w)
            BY <2>1, <2>3, <3>1 DEF Pending
        <3>2. CASE ~GivenUp(w)
            BY <2>4, <3>2, RowsReachTheFile
        <3> QED
            BY <3>1, <3>2
    <2> QED
        BY <1>3, <1>4, <1>5, <2>1, <2>3, <2>4, <2>5 DEF Pending
<1> QED
    BY <1>6, <1>7, <1>8, <1>10 DEF RowsAre

-----------------------------------------------------------------------------
(* The statements change the rows of one key as their records say.         *)
LEMMA RowsOfStatements ==
    ASSUME Undisturbed, Everything, Owned, Books, NEW N, RowsAre(N), NEW t \in Tids,
           \/ \E row \in Row : execute_insert(t, row)
           \/ \E K \in WhereSets : execute_delete(t, K)
                                 \/ \E v \in Values : execute_update(t, K, v)
    PROVE  RowsAre(N)'
<1>1. table \in Tables /\ OneRowPerKey(N)
    BY DEF Everything, RestTyped, RowsAre, LoggedAre
<1>2. ASSUME NEW first \in RowsOf(table), N = RowsOf(table)
      PROVE  At(RowsOf(table), first.key) = {first} /\ first \in Row /\ first.key \in Keys
    <2>1. \A r \in At(RowsOf(table), first.key) : r = first
        BY <1>1, <1>2 DEF OneRowPerKey, At, WithKey
    <2>2. first \in Row /\ first \in At(RowsOf(table), first.key)
        BY DEF At, WithKey, RowsOf
    <2> QED
        BY <2>1, <2>2 DEF Row
<1>3. ASSUME NEW row \in Row, execute_insert(t, row)
      PROVE  RowsAre(N)'
    <2> DEFINE c == [operation |-> "INSERT", old_value |-> NoRow, new_value |-> row]
               k == row.key
    <2>1. k \in Keys /\ Change(t, "INSERT", {k}, Insert(table, row), NoRow, row)
          /\ \A r \in RowsOf(table) : r.key # k
        BY <1>3 DEF execute_insert, Row
    <2>2. RowsOf(Insert(table, row)) = RowsOf(table) \cup {row}
        BY <1>1, InsertIs
    <2>3. At(RowsOf(table), k) = {} /\ At(RowsOf(Insert(table, row)), k) = {row}
          /\ \A q \in Keys : q # k => At(RowsOf(Insert(table, row)), q) = At(RowsOf(table), q)
        BY <2>1, <2>2 DEF At, WithKey, RowsOf
    <2>4. KeyOf(c) = k /\ TurnsInto(c, k, {}, {row})
        BY DEF KeyOf, TurnsInto, IsData, DataOperations, Shaped
    <2> HIDE DEF c, k
    <2>5. TurnsInto(c, k, At(RowsOf(table), k), At(RowsOf(Insert(table, row)), k))
        BY <2>3, <2>4
    <2>6. c = [operation |-> "INSERT", old_value |-> NoRow, new_value |-> row]
        BY DEF c
    <2> QED
        BY <2>1, <2>3, <2>4, <2>5, <2>6, RowsChanged
<1>4. ASSUME NEW K \in WhereSets, execute_delete(t, K)
      PROVE  RowsAre(N)'
    <2>1. PICK k \in Keys : K = {k}
        BY DEF Undisturbed, OneKeyEach
    <2>2. PICK first \in RowsOf(table) \cap WithKey(K) :
              Change(t, "DELETE", K, Delete(table, K), first, NoRow)
        BY <1>4 DEF execute_delete
    <2> DEFINE c == [operation |-> "DELETE", old_value |-> first, new_value |-> NoRow]
    <2>3. first.key = k /\ Change(t, "DELETE", {k}, Delete(table, {k}), first, NoRow)
        BY <2>1, <2>2 DEF WithKey
    <2>4. RowsOf(Delete(table, {k})) = RowsOf(table) \ WithKey({k})
        BY <1>1, DeleteIs
    <2>5. At(RowsOf(Delete(table, {k})), k) = {}
          /\ \A q \in Keys : q # k => At(RowsOf(Delete(table, {k})), q) = At(RowsOf(table), q)
        BY <2>4 DEF At, WithKey
    <2>6. KeyOf(c) = k /\ (first \in Row => TurnsInto(c, k, {first}, {}))
        BY <2>3 DEF KeyOf, TurnsInto, IsData, DataOperations, Shaped
    <2>7. c = [operation |-> "DELETE", old_value |-> first, new_value |-> NoRow]
        OBVIOUS
    <2> HIDE DEF c
    <2>8. N = RowsOf(table) =>
              TurnsInto(c, k, At(RowsOf(table), k), At(RowsOf(Delete(table, {k})), k))
        BY <1>2, <2>2, <2>3, <2>5, <2>6
    <2> QED
        BY <2>3, <2>5, <2>6, <2>7, <2>8, RowsChanged
<1>5. ASSUME NEW K \in WhereSets, NEW v \in Values, execute_update(t, K, v)
      PROVE  RowsAre(N)'
    <2>1. PICK k \in Keys : K = {k}
        BY DEF Undisturbed, OneKeyEach
    <2>2. PICK first \in RowsOf(table) \cap WithKey(K) :
              Change(t, "UPDATE", K, SetValue(table, K, v), first, [first EXCEPT !.val = v])
        BY <1>5 DEF execute_update
    <2> DEFINE new == [first EXCEPT !.val = v]
               c == [operation |-> "UPDATE", old_value |-> first, new_value |-> new]
    <2>3. first.key = k /\ Change(t, "UPDATE", {k}, SetValue(table, {k}, v), first, new)
          /\ first \in RowsOf(table) /\ first \in Row
        BY <2>1, <2>2 DEF WithKey
    <2>4. new \in Row /\ new.key = k /\ {r \in Row : r.key = k /\ r.val = v} = {new}
        BY <2>3 DEF Row
    <2>5. At(RowsOf(table), k) # {}
        BY <2>3 DEF At, WithKey
    <2>6. RowsOf(SetValue(table, {k}, v)) = (RowsOf(table) \ WithKey({k})) \cup {new}
        BY <1>1, <2>4, <2>5, SetValueIs
    <2>7. KeyOf(c) = k /\ TurnsInto(c, k, {first}, {new})
        BY <2>3, <2>4 DEF KeyOf, TurnsInto, IsData, DataOperations, Shaped
    <2>8. c = [operation |-> "UPDATE", old_value |-> first, new_value |-> new]
        OBVIOUS
    <2> HIDE DEF c, new
    <2>9. At(RowsOf(SetValue(table, {k}, v)), k) = {new}
          /\ \A q \in Keys : q # k =>
                At(RowsOf(SetValue(table, {k}, v)), q) = At(RowsOf(table), q)
        BY <2>4, <2>6 DEF At, WithKey
    <2>10. N = RowsOf(table) =>
              TurnsInto(c, k, At(RowsOf(table), k), At(RowsOf(SetValue(table, {k}, v)), k))
        BY <1>2, <2>3, <2>7, <2>9
    <2> QED
        BY <2>3, <2>7, <2>8, <2>9, <2>10, RowsChanged
<1> QED
    BY <1>3, <1>4, <1>5

(* The ends of transactions keep what is said of the rows.                 *)
LEMMA RowsOfEndings ==
    ASSUME Undisturbed, Everything, Owned, Books, NEW N, RowsAre(N), NEW t \in Tids,
           commit_log(t) \/ commit_data(t) \/ abort_check(t) \/ abort_data(t) \/ abort_log(t)
    PROVE  RowsAre(N)'
<1>1. /\ Typed /\ LogTyped /\ session \in [Tids -> Places] /\ changed \in [Tids -> SUBSET Keys]
      /\ CommitsAlone /\ committed \in SUBSET Row
    BY DEF Everything, Inv, Typed, RestTyped
<1>2. FlushAllowed => \A u \in Tids : unlogged[u] = {}
    BY DEF FlushAllowed, Undisturbed, Everything, RestTyped
<1>3. CASE commit_log(t)
    <2>1. PICK e \in LogEntry : e.transaction_id = t /\ e.operation = "COMMIT" /\ AppendAndFlush(e)
        BY <1>1, <1>3, RecordOfCommit
    <2>2. /\ FlushAllowed /\ session[t] = "open" /\ ~InCheckpoint /\ ~InCheckpoint'
          /\ session' = [session EXCEPT ![t] = "committing"]
          /\ committed' = (committed \ WithKey(changed[t]))
                           \cup (RowsOf(table) \cap WithKey(changed[t]))
          /\ UNCHANGED <<table, disk, unlogged, changed, active_transactions_cache>>
        BY <1>3 DEF commit_log, Running, InCheckpoint
    <2>3. CASE changed[t] # {}
        <3>1. Writer(t) /\ session'[t] = "committing"
            BY <1>1, <2>2, <2>3 DEF Writer
        <3> QED
            BY <1>2, <2>1, <2>2, <3>1, RowsCommitted
    <2>4. CASE changed[t] = {}
        <3>1. ~HasChanges(EverLogged, t)
            BY <2>2, <2>4 DEF Owned
        <3>2. Idle(EverLogged, e)
            BY <2>1, <3>1 DEF Idle, IsData, IsCheckpoint, DataOperations
        <3>3. committed' = committed
            BY <2>2, <2>4 DEF WithKey
        <3>4. \A u \in Tids \ {t} : session'[u] = session[u]
            BY <1>1, <2>2
        <3> QED
            BY <2>1, <2>2, <2>4, <3>1, <3>2, <3>3, <3>4, RowsOfIdleRecords
    <2> QED
        BY <2>3, <2>4
<1>4. CASE commit_data(t)
    <2>1. /\ FlushAllowed /\ session[t] = "committing"
          /\ session' = [session EXCEPT ![t] = "ended"]
          /\ changed' = [changed EXCEPT ![t] = {}]
          /\ active_transactions_cache' = active_transactions_cache \ {t}
          /\ disk' = table /\ UNCHANGED <<log, table, unlogged, committed>>
        BY <1>4 DEF commit_data
    <2>2. log_buffer = <<>>
        BY <1>1, <2>1 DEF CommitsAlone, Books
    <2>3. \A u : ~HasChanges(log_buffer, u)
        BY <2>2, MembersOfNone DEF HasChanges
    <2>4. /\ \A u \in Tids : session'[u] = IF u = t THEN "ended" ELSE session[u]
          /\ \A u \in Tids : changed'[u] = IF u = t THEN {} ELSE changed[u]
        BY <1>1, <2>1
    <2>5. \A u \in Tids : Writer(u)' <=> Writer(u)
        BY <2>1, <2>4 DEF Writer
    <2>6. \A u \in Tids : Writer(u) =>
              /\ u # t /\ u \in active_transactions_cache /\ changed'[u] = changed[u]
              /\ session'[u] = session[u]
        BY <2>1, <2>4 DEF Writer, Owned
    <2>7. \A u \in Tids : Writer(u) => (GivenUp(u)' <=> GivenUp(u))
        BY <2>6 DEF GivenUp
    <2> QED
        BY <1>2, <2>1, <2>3, <2>5, <2>6, <2>7, RowsFlushed
<1>5. CASE abort_check(t)
    <2>1. /\ session[t] = "open"
          /\ session' = [session EXCEPT ![t] =
                           IF HasChanges(EverLogged, t) THEN "undoing" ELSE "closing"]
          /\ UNCHANGED <<log, table, disk, unlogged, changed, committed,
                         active_transactions_cache, mtx>>
        BY <1>5 DEF abort_check, EverLogged
    <2>2. \A u \in Tids : session'[u] =
              IF u = t THEN (IF HasChanges(EverLogged, t) THEN "undoing" ELSE "closing")
              ELSE session[u]
        BY <1>1, <2>1
    <2>3. Writer(t) => session'[t] = "undoing"
        BY <2>1, <2>2 DEF Owned, Writer
    <2>4. \A u \in Tids : Writer(u) => (GivenUp(u)' <=> GivenUp(u))
        BY <2>1, <2>2, <2>3 DEF GivenUp
    <2>5. \A u \in Tids : /\ session'[u] = "committing" <=> session[u] = "committing"
                          /\ session'[u] \in {"open", "writing"} => session[u] \in {"open", "writing"}
        BY <2>1, <2>2
    <2> QED
        BY <2>1, <2>4, <2>5, RowsStay
<1>6. CASE abort_data(t)
    <2>1. /\ FlushAllowed /\ session[t] = "undone"
          /\ session' = [session EXCEPT ![t] = "closing"]
          /\ disk' = table
          /\ UNCHANGED <<log, table, unlogged, changed, committed, active_transactions_cache>>
        BY <1>6 DEF abort_data
    <2>2. \A u \in Tids : session'[u] = IF u = t THEN "closing" ELSE session[u]
        BY <1>1, <2>1
    <2>3. \A u \in Tids : Writer(u) => u = t /\ GivenUp(u) /\ GivenUp(u)'
        BY <2>1, <2>2 DEF Owned, Writer, GivenUp
    <2>4. \A u \in Tids : Writer(u)' <=> Writer(u)
        BY <2>1, <2>2 DEF Writer
    <2>5. \A u \in Tids : Writer(u) => u \in active_transactions_cache
        BY DEF Owned, Writer
    <2> QED
        BY <1>2, <2>1, <2>2, <2>3, <2>4, <2>5, RowsFlushed
<1>7. CASE abort_log(t)
    <2>1. PICK e \in LogEntry : e.transaction_id = t /\ e.operation = "ABORT" /\ AppendAndFlush(e)
        BY <1>1, <1>7, RecordOfAbort
    <2>2. /\ session[t] = "closing" /\ ~InCheckpoint /\ ~InCheckpoint'
          /\ session' = [session EXCEPT ![t] = "ended"]
          /\ changed' = [changed EXCEPT ![t] = {}]
          /\ active_transactions_cache' = active_transactions_cache \ {t}
          /\ UNCHANGED <<table, disk, unlogged, committed>>
        BY <1>7 DEF abort_log, Running, InCheckpoint
    <2>3. \A u \in Tids : changed'[u] = IF u = t THEN {} ELSE changed[u]
        BY <1>1, <2>2
    <2>4. CASE changed[t] # {}
        <3>1. Writer(t)
            BY <2>2, <2>4 DEF Writer
        <3> QED
            BY <2>1, <2>2, <2>3, <3>1, RowsAborted
    <2>5. CASE changed[t] = {}
        <3>1. ~HasChanges(EverLogged, t)
            BY <2>2, <2>5 DEF Owned
        <3>2. Idle(EverLogged, e)
            BY <2>1 DEF Idle, IsData, IsCheckpoint, DataOperations
        <3>3. changed' = changed
            BY <1>1, <2>2, <2>5
        <3>4. \A u \in Tids \ {t} : session'[u] = session[u]
            BY <1>1, <2>2
        <3> QED
            BY <2>1, <2>2, <2>5, <3>1, <3>2, <3>3, <3>4, RowsOfIdleRecords
    <2> QED
        BY <2>4, <2>5
<1> QED
    BY <1>3, <1>4, <1>5, <1>6, <1>7

(* So do the beginnings.                                                   *)
LEMMA RowsOfBeginnings ==
    ASSUME Everything, Owned, Books, NEW N, RowsAre(N), NEW t \in Tids, begin_transaction(t)
    PROVE  RowsAre(N)'
<1>1. Typed /\ session \in [Tids -> Places]
    BY DEF Everything, Inv, Typed
<1>2. PICK e \in LogEntry : e.transaction_id = t /\ e.operation = "BEGIN" /\ Push(e)
    BY <1>1, RecordOfBegin
<1>3. /\ session[t] = "none" /\ session' = [session EXCEPT ![t] = "open"]
      /\ active_transactions_cache' = active_transactions_cache \cup {t}
      /\ ~InCheckpoint /\ ~InCheckpoint'
      /\ UNCHANGED <<table, disk, unlogged, changed, committed>>
    BY DEF begin_transaction, Running, InCheckpoint
<1>4. ~HasChanges(EverLogged, t) /\ changed[t] = {}
    BY <1>3 DEF Owned
<1>5. Idle(EverLogged, e)
    BY <1>2 DEF Idle, IsData, IsCheckpoint, DataOperations
<1>6. \A u \in Tids \ {t} : session'[u] = session[u]
    BY <1>1, <1>3
<1> QED
    BY <1>2, <1>3, <1>4, <1>5, <1>6, RowsOfIdleRecords

(* So do checkpoints, evictions and the exit.                              *)
LEMMA RowsOfTheRest ==
    ASSUME Undisturbed, Everything, Owned, Books, NEW N, RowsAre(N),
           \/ checkpoint_begin \/ checkpoint_start \/ checkpoint_data \/ checkpoint_end
           \/ evict_page \/ exit
    PROVE  RowsAre(N)'
<1>1. UNCHANGED <<session, unlogged, changed, table, committed, active_transactions_cache>>
    BY DEF checkpoint_begin, checkpoint_start, checkpoint_data, checkpoint_end, evict_page, exit,
           CheckpointStep, client
<1>2. \A u \in Tids : Writer(u)' <=> Writer(u)
    BY <1>1 DEF Writer
<1>3. \A u \in Tids : GivenUp(u)' <=> GivenUp(u)
    BY <1>1 DEF GivenUp
<1>4. CASE checkpoint_begin \/ exit
    <2>1. /\ UNCHANGED log \/ flush_buffer
          /\ UNCHANGED disk
          /\ ~InCheckpoint /\ ~InCheckpoint'
        BY <1>4 DEF checkpoint_begin, exit, CheckpointStep, Running, InCheckpoint
    <2> QED
        BY <1>1, <1>3, <2>1, RowsStay
<1>5. CASE checkpoint_start \/ checkpoint_end
    BY <1>5, RowsOfCheckpoints
<1>6. CASE checkpoint_data \/ evict_page
    <2>1. FlushAllowed /\ disk' = table /\ UNCHANGED log
        BY <1>6 DEF checkpoint_data, evict_page
    <2>2. \A u \in Tids : unlogged[u] = {}
        BY <2>1 DEF FlushAllowed, Undisturbed, Everything, RestTyped
    <2>3. \A u : ~HasChanges(log_buffer, u)
        <3>1. CASE checkpoint_data
            <4>1. log_buffer = <<>>
                BY <3>1 DEF checkpoint_data, CheckpointStep, Books
            <4> QED
                BY <4>1, MembersOfNone DEF HasChanges
        <3>2. CASE evict_page
            BY <3>2 DEF evict_page, Undisturbed, HasChanges
        <3> QED
            BY <1>6, <3>1, <3>2
    <2>4. \A u \in Tids : Writer(u) => u \in active_transactions_cache
        BY DEF Owned, Writer
    <2> QED
        BY <1>1, <1>2, <1>3, <2>1, <2>2, <2>3, <2>4, RowsFlushed
<1> QED
    BY <1>4, <1>5, <1>6

-----------------------------------------------------------------------------
FirstLife == InLife /\ lives = 1

(* What a recovery finds, and what is left where no transactions run.      *)
Resting ==
    /\ log_buffer = <<>> /\ active_transactions_cache = {}
    /\ Restorable(wal, committed, RowsOf(disk)) /\ OneRowPerKey(committed)

Rows ==
    /\ FirstLife => Books /\ \E N : RowsAre(N)
    /\ ~FirstLife => Resting
    /\ InLife /\ ~FirstLife => RowsOf(disk) = committed
    /\ ~InLife => mtx = "free" /\ (~marker \/ process = "recovered" => RowsOf(disk) = committed)

(* A crash in the first life, or its end.                                  *)
LEMMA WhatACrashLeaves ==
    ASSUME Everything, Owned, Books, NEW N, RowsAre(N), ~InCheckpoint
    PROVE  /\ Restorable(wal, committed, RowsOf(disk))
           /\ OneRowPerKey(committed)
           /\ ~marker => RowsOf(disk) = committed
<1>1. /\ LogTyped /\ wal \in Seq(LogEntry) /\ disk \in Tables
    BY DEF Everything, Inv, Typed, RestTyped, LogTyped
<1>2. Held(N) = RowsOf(disk) /\ Listings
    BY DEF Held, Books
<1>3. \A u : HasChanges(wal, u) => HasChanges(EverLogged, u)
    <2>1. ToSet(wal) \subseteq ToSet(EverLogged)
        BY <1>1, ChangesOfParts DEF LogTyped, EverLogged
    <2> QED
        BY <2>1, MoreIsLogged
<1>4. \A u \in undo_list(wal) : u \in Tids /\ Open(u)
    BY <1>2 DEF Listings
<1>5. \A u \in undo_list(wal) : changed[u] = {} => ~HasChanges(wal, u)
    BY <1>3, <1>4 DEF Open, Owned
<1>6. Restorable(wal, committed, RowsOf(disk))
    <2>1. CASE \A t \in Tids : ~Writer(t)
        <3>1. \A u \in undo_list(wal) : ~HasChanges(wal, u)
            BY <1>4, <1>5, <2>1 DEF Writer, Open
        <3>2. Settled(wal, committed, RowsOf(disk))
            BY <1>2, <2>1 DEF RowsAre, NothingPending
        <3> QED
            BY <3>1, <3>2 DEF Restorable, NothingLeft
    <2>2. ASSUME NEW w \in Tids, Writer(w)
          PROVE  Restorable(wal, committed, RowsOf(disk))
        <3>1. Cured(wal, w, committed, RowsOf(disk))
            BY <1>2, <2>2 DEF RowsAre, Pending
        <3>2. \A u \in undo_list(wal) \ {w} : ~HasChanges(wal, u)
            BY <1>4, <1>5, <2>2 DEF Writer, Owned
        <3>3. CASE w \in undo_list(wal)
            BY <3>1, <3>2, <3>3 DEF Restorable, OneLeft
        <3>4. CASE w \notin undo_list(wal)
            <4>1. Open(w)
                BY <2>2 DEF Writer, Owned, Open
            <4>2. ~HasChanges(wal, w)
                BY <1>2, <3>4, <4>1 DEF Listings
            <4>3. Settled(wal, committed, RowsOf(disk))
                BY <1>1, <3>1, <4>2, CuredWithoutChanges
            <4> QED
                BY <3>2, <3>4, <4>3 DEF Restorable, NothingLeft
        <3> QED
            BY <3>3, <3>4
    <2> QED
        BY <2>1, <2>2
<1>7. ASSUME ~marker
      PROVE  RowsOf(disk) = committed
    <2>1. \A t \in Tids : changed[t] = {} /\ unlogged[t] = {} /\ ~Writer(t)
        BY <1>7 DEF Books, Owned, Writer, Everything, RestTyped
    <2>2. disk = table /\ N = committed /\ N = RowsOf(table)
        BY <2>1 DEF Owned, RowsAre, LoggedAre, NothingPending
    <2> QED
        BY <2>2
<1> QED
    BY <1>6, <1>7 DEF RowsAre, LoggedAre

(* So does every step of a transaction, for new rows if it logs a change.  *)
LEMMA RowsOfTheFirstLife ==
    ASSUME Undisturbed, Everything, Owned, Books, NEW N, RowsAre(N), NEW t \in Tids,
           \/ begin_transaction(t)
           \/ \E row \in Row : execute_insert(t, row)
           \/ \E K \in WhereSets : execute_delete(t, K)
                                 \/ \E v \in Values : execute_update(t, K, v)
           \/ write_log(t) \/ commit_log(t) \/ commit_data(t)
           \/ abort_check(t) \/ recover(t) \/ abort_data(t) \/ abort_log(t)
    PROVE  Books' /\ \E M : RowsAre(M)'
<1>1. CASE begin_transaction(t)
    BY <1>1, BooksOfRecords, RowsOfBeginnings
<1>2. CASE \/ \E row \in Row : execute_insert(t, row)
           \/ \E K \in WhereSets : execute_delete(t, K)
                                 \/ \E v \in Values : execute_update(t, K, v)
    <2>1. \E op, K, rows, old, new : Change(t, op, K, rows, old, new)
        BY <1>2 DEF execute_insert, execute_delete, execute_update
    <2> QED
        BY <1>2, <2>1, BooksOfTransactions, RowsOfStatements
<1>3. CASE write_log(t)
    BY <1>3, BooksOfRecords, RowsChangeLogged
<1>4. CASE commit_log(t) \/ abort_log(t)
    BY <1>4, BooksOfRecords, RowsOfEndings
<1>5. CASE commit_data(t) \/ abort_check(t) \/ abort_data(t)
    BY <1>5, BooksOfTransactions, RowsOfEndings
<1>6. CASE recover(t)
    <2>1. /\ session[t] = "undoing" /\ table' = Undone(EverLogged, table, t) /\ flush_buffer
          /\ session' = [session EXCEPT ![t] = "undone"] /\ mtx = "free"
          /\ UNCHANGED <<disk, unlogged, changed, committed, active_transactions_cache, mtx>>
        BY <1>6 DEF recover, Running, EverLogged
    <2> QED
        BY <1>6, <2>1, BooksOfTransactions, RowsRolledBack
<1> QED
    BY <1>1, <1>2, <1>3, <1>4, <1>5, <1>6

(* The processes without transactions.                                     *)
LEMMA RowsOfLaterLives ==
    ASSUME Undisturbed, Everything, Ownership, Rows, InLife, ~FirstLife,
           \/ checkpoint_begin \/ checkpoint_start \/ checkpoint_data \/ checkpoint_end
           \/ evict_page \/ exit
    PROVE  Rows'
<1>1. /\ Typed /\ LogTyped /\ wal \in Seq(LogEntry) /\ disk = table /\ lives # 1 /\ Resting
      /\ RowsOf(disk) = committed
    BY DEF Everything, Inv, Typed, LogTyped, Ownership, AtEase, FirstLife, Rows
<1>2. /\ InLife' /\ lives' = lives
      /\ UNCHANGED <<active_transactions_cache, disk, committed>>
    BY <1>1 DEF checkpoint_begin, checkpoint_start, checkpoint_data, checkpoint_end, evict_page,
                exit, CheckpointStep, Running, InLife, bounds
<1>3. EverLogged = wal /\ log_buffer = <<>>
    BY <1>1 DEF EverLogged, Resting
<1>4. log_buffer' = <<>> /\ Restorable(wal', committed, committed)
    <2>1. CASE checkpoint_begin
        BY <1>1, <1>3, <2>1, FlushGoesTo DEF checkpoint_begin, Resting
    <2>2. CASE checkpoint_data \/ evict_page \/ exit
        <3>1. wal' = wal /\ log_buffer' = log_buffer
            BY <2>2 DEF checkpoint_data, evict_page, exit, log
        <3> QED
            BY <1>1, <1>3, <3>1 DEF Resting
    <2>3. CASE checkpoint_start \/ checkpoint_end
        <3>1. PICK e \in LogEntry : IsCheckpoint(e) /\ AppendAndFlush(e) /\ e.active = {}
            BY <1>1, <2>3, RecordOfCheckpoint DEF Resting
        <3>2. wal' = Append(wal, e) /\ log_buffer' = <<>>
            BY <1>1, <1>3, <3>1, RecordsGoTo
        <3> QED
            BY <1>1, <3>1, <3>2, AfterACheckpoint
    <2> QED
        BY <2>1, <2>2, <2>3
<1>5. RowsOf(disk') = committed'
    BY <1>1, <1>2 DEF RowsOf
<1>6. Resting'
    BY <1>1, <1>2, <1>4, <1>5 DEF Resting
<1> QED
    BY <1>1, <1>2, <1>5, <1>6 DEF Rows, FirstLife

(* So do crashes, restarts and recovery.                                   *)
LEMMA RowsOfLives ==
    ASSUME Undisturbed, Everything, Ownership, Rows,
           crash \/ restart \/ recover_from_crash \/ remove_marker \/ construct
    PROVE  Rows'
<1>1. /\ Typed /\ LogTyped /\ wal \in Seq(LogEntry) /\ disk \in Tables /\ committed \in SUBSET Row
      /\ lives \in Nat
    BY DEF Everything, Inv, Typed, RestTyped, LogTyped
<1>2. CASE crash \/ restart
    <2>1. /\ Vanish /\ process' = "starting" /\ UNCHANGED <<marker, wal, disk, committed>>
        BY <1>2 DEF crash, restart, Vanish
    <2>2. /\ Restorable(wal, committed, RowsOf(disk))
          /\ OneRowPerKey(committed)
          /\ ~marker => RowsOf(disk) = committed
        <3>1. CASE FirstLife
            <4>1. Owned /\ Books /\ \E N : RowsAre(N)
                BY <3>1 DEF Ownership, Rows, FirstLife
            <4>2. ~InCheckpoint
                BY <1>2, <4>1 DEF crash, restart, InCheckpoint, Undisturbed, Books
            <4> QED
                BY <4>1, <4>2, WhatACrashLeaves
        <3>2. CASE ~FirstLife
            BY <3>2 DEF Rows, Resting
        <3> QED
            BY <3>1, <3>2
    <2>3. Resting'
        BY <2>1, <2>2 DEF Resting, Vanish, RowsOf
    <2>4. ~InLife' /\ ~FirstLife' /\ mtx' = "free" /\ process' # "recovered"
        BY <2>1 DEF Vanish, InLife, FirstLife
    <2> QED
        BY <2>1, <2>2, <2>3, <2>4 DEF Rows, RowsOf
<1>3. CASE recover_from_crash
    <2>1. /\ process = "starting" /\ process' = "recovered" /\ disk' = Recovered(wal, disk)
          /\ UNCHANGED <<log, active_transactions_cache, mtx, committed>>
        BY <1>3 DEF recover_from_crash
    <2>2. ~InLife /\ ~InLife' /\ ~FirstLife /\ ~FirstLife'
        BY <2>1 DEF InLife, FirstLife
    <2>3. RowsOf(Recovered(wal, disk)) = committed /\ Restorable(wal, committed, committed)
        BY <1>1, <2>2, RecoveryRestores DEF Rows, Resting
    <2>4. RowsOf(disk') = committed' /\ Restorable(wal', committed', RowsOf(disk'))
        BY <2>1, <2>3 DEF log
    <2> QED
        BY <2>1, <2>2, <2>4 DEF Rows, Resting, log
<1>4. CASE remove_marker
    <2>1. /\ process = "recovered" /\ process' = "starting"
          /\ UNCHANGED <<log, active_transactions_cache, mtx, disk, committed>>
        BY <1>4 DEF remove_marker
    <2>2. ~InLife /\ ~InLife' /\ ~FirstLife /\ ~FirstLife'
        BY <2>1 DEF InLife, FirstLife
    <2> QED
        BY <2>1, <2>2 DEF Rows, Resting, log, RowsOf
<1>5. CASE construct
    <2>1. /\ process = "starting" /\ process' = "up" /\ lives' = lives + 1 /\ marker' = TRUE
          /\ marker => wal = <<>>
          /\ UNCHANGED <<log_buffer, wal, active_transactions_cache, mtx, table, disk, client,
                         committed>>
        BY <1>5 DEF construct
    <2>2. ~InLife /\ InLife' /\ Resting /\ AtEase /\ (lives = 0 => wal = <<>>) /\ mtx = "free"
        BY <2>1 DEF InLife, FirstLife, Rows, Ownership
    <2>3. RowsOf(disk) = committed /\ (wal = <<>> => Settled(<<>>, committed, committed))
        <3>1. CASE wal = <<>>
            <4>1. Restorable(<<>>, committed, RowsOf(disk))
                BY <2>2, <3>1 DEF Resting
            <4> QED
                BY <1>1, <4>1, NothingLogged
        <3>2. CASE wal # <<>>
            BY <2>1, <2>2, <3>2 DEF Rows
        <3> QED
            BY <3>1, <3>2
    <2>4. CASE lives # 0
        <3>1. ~FirstLife'
            BY <1>1, <2>1, <2>4 DEF FirstLife
        <3> QED
            BY <2>1, <2>2, <2>3, <3>1 DEF Rows, Resting, RowsOf
    <2>5. CASE lives = 0
        <3>1. wal = <<>> /\ wal' = <<>> /\ log_buffer' = <<>> /\ FirstLife'
            BY <2>1, <2>2, <2>5 DEF Resting, FirstLife
        <3>2. EverLogged' = <<>>
            BY <3>1 DEF EverLogged
        <3>3. <<>> \in Seq(LogEntry)
            OBVIOUS
        <3>4. undo_list(<<>>) = {} /\ committed_txs(<<>>) = {} /\ \A u : ~HasChanges(<<>>, u)
            BY <3>3, UndoListLaws, CommittedLaws, HasChangesLaws
        <3>5. \A u \in Tids : session'[u] = "none" /\ changed'[u] = {}
            BY <2>1, <2>2 DEF AtEase, client
        <3>6. Books'
            <4>1. Listings'
                BY <2>1, <2>2, <3>1, <3>2, <3>4 DEF Listings, Open, Resting
            <4>2. CommitsListed'
                BY <3>1, <3>2, <3>4 DEF CommitsListed
            <4> QED
                BY <2>1, <3>1, <4>1, <4>2 DEF Books
        <3>7. PICK N : N = committed
            OBVIOUS
        <3>8. LoggedAre(N)'
            <4>1. \A u \in Tids : unlogged'[u] = {}
                BY <2>1, <2>2 DEF Everything, RestTyped, AtEase, client
            <4> QED
                BY <1>1, <2>1, <2>2, <2>3, <3>7, <4>1 DEF LoggedAre, Resting, AtEase, RowsOf
        <3>9. NothingPending(N)'
            <4>1. Held(N)' = committed
                BY <2>1, <2>3, <3>7 DEF Held, RowsOf
            <4> QED
                BY <2>1, <2>3, <3>1, <3>2, <3>7, <4>1 DEF NothingPending
        <3>11. \A u \in Tids : ~Writer(u)'
            BY <3>5 DEF Writer
        <3>12. RowsAre(N)'
            BY <3>8, <3>9, <3>11 DEF RowsAre
        <3> QED
            BY <2>2, <3>1, <3>6, <3>12 DEF Rows
    <2> QED
        BY <2>4, <2>5
<1> QED
    BY <1>2, <1>3, <1>4, <1>5

(* Every step keeps what is said of the rows.                              *)
LEMMA RowsKept ==
    Undisturbed /\ Everything /\ Ownership /\ Rows /\ [Next]_vars => Rows'
<1> SUFFICES ASSUME Undisturbed, Everything, Ownership, Rows, [Next]_vars
             PROVE  Rows'
    OBVIOUS
<1>1. ASSUME NEW t \in Tids,
             \/ begin_transaction(t)
             \/ \E row \in Row : execute_insert(t, row)
             \/ \E K \in WhereSets :
                    execute_delete(t, K) \/ \E v \in Values : execute_update(t, K, v)
             \/ write_log(t) \/ commit_log(t) \/ commit_data(t)
             \/ abort_check(t) \/ recover(t) \/ abort_data(t) \/ abort_log(t)
      PROVE  Rows'
    <2>1. Orderly
        BY DEF Undisturbed, Orderly
    <2>2. FirstLife /\ FirstLife' /\ Owned
        BY <1>1, <2>1, NoTransactionsLater DEF FirstLife, InLife
    <2>3. PICK N : Books /\ RowsAre(N)
        BY <2>2 DEF Rows
    <2>4. Books' /\ \E M : RowsAre(M)'
        BY <1>1, <2>2, <2>3, RowsOfTheFirstLife
    <2>5. InLife'
        BY <2>2 DEF FirstLife
    <2> QED
        BY <2>2, <2>4, <2>5 DEF Rows
<1>2. CASE \/ checkpoint_begin \/ checkpoint_start \/ checkpoint_data \/ checkpoint_end
           \/ evict_page \/ exit
    <2>1. CASE FirstLife
        <3>1. OnlyWrites
            BY <1>2, CheckpointsOnlyWrite
        <3>2. FirstLife' /\ InLife'
            BY <2>1, <3>1 DEF OnlyWrites, FirstLife
        <3>3. PICK N : Owned /\ Books /\ RowsAre(N)
            BY <2>1 DEF Rows, Ownership, FirstLife
        <3>4. Books' /\ RowsAre(N)'
            BY <1>2, <3>3, BooksOfTheRest, RowsOfTheRest
        <3> QED
            BY <3>2, <3>4 DEF Rows
    <2>2. CASE ~FirstLife
        <3>1. InLife
            BY <1>2 DEF checkpoint_begin, checkpoint_start, checkpoint_data, checkpoint_end,
                        evict_page, exit, CheckpointStep, Running, InLife
        <3> QED
            BY <1>2, <2>2, <3>1, RowsOfLaterLives
    <2> QED
        BY <2>1, <2>2
<1>3. CASE crash \/ restart \/ recover_from_crash \/ remove_marker \/ construct
    BY <1>3, RowsOfLives
<1>4. CASE UNCHANGED vars
    <2>1. /\ UNCHANGED <<log_buffer, wal, active_transactions_cache, mtx, table, disk, marker,
                         process, session, unlogged, changed, committed, lives>>
          /\ EverLogged' = EverLogged
        BY <1>4 DEF vars, EverLogged
    <2>2. /\ FirstLife' = FirstLife /\ InLife' = InLife /\ InCheckpoint' = InCheckpoint
          /\ RowsOf(disk') = RowsOf(disk) /\ RowsOf(table') = RowsOf(table)
        BY <2>1 DEF FirstLife, InLife, InCheckpoint, RowsOf
    <2>3. CASE FirstLife
        <3>1. PICK N : Books /\ RowsAre(N)
            BY <2>3 DEF Rows
        <3>2. Books'
            BY <2>1, <2>2, <3>1 DEF Books, Listings, CommitsListed, Open
        <3>3. Held(N)' = Held(N)
            BY <2>1, <2>2 DEF Held
        <3>4. LoggedAre(N)'
            BY <2>1, <2>2, <3>1 DEF RowsAre, LoggedAre, Owes
        <3>5. \A u \in Tids : Writer(u)' = Writer(u) /\ GivenUp(u)' = GivenUp(u)
            BY <2>1 DEF Writer, GivenUp
        <3>6. NothingPending(N) => NothingPending(N)'
            BY <2>1, <3>3 DEF NothingPending
        <3>7. \A w \in Tids : Pending(w, N) => Pending(w, N)'
            BY <2>1, <3>3, <3>5 DEF Pending
        <3>8. RowsAre(N)'
            BY <3>1, <3>4, <3>5, <3>6, <3>7 DEF RowsAre
        <3> QED
            BY <2>2, <2>3, <3>2, <3>8 DEF Rows, FirstLife
    <2>4. CASE ~FirstLife
        BY <2>1, <2>2, <2>4 DEF Rows, Resting
    <2> QED
        BY <2>3, <2>4
<1>5. \A t \in Tids : \A row \in Row : ~execute_update_unconditional(t, row)
    BY DEF Undisturbed, execute_update_unconditional
<1> QED
    BY <1>1, <1>2, <1>3, <1>4, <1>5 DEF Next

(* It holds at the start.                                                  *)
LEMMA RowsAtStart == Init => Rows
<1> SUFFICES ASSUME Init
             PROVE  Rows
    OBVIOUS
<1>1. <<>> \in Seq(LogEntry)
    OBVIOUS
<1>2. /\ log_buffer = <<>> /\ wal = <<>> /\ active_transactions_cache = {} /\ mtx = "free"
      /\ process = "starting" /\ committed = {} /\ disk = [r \in Row |-> 0] /\ marker = FALSE
    BY DEF Init
<1>3. RowsOf(disk) = {}
    BY <1>2 DEF RowsOf
<1>4. undo_list(wal) = {} /\ committed_txs(wal) = {}
    BY <1>1, <1>2, UndoListLaws, CommittedLaws
<1>5. Settled(wal, {}, {})
    <2>1. \A t \in Tables : \A tids : RedoneFrom(<<>>, t, tids) = t
        <3>1. SinceCheckpoint(<<>>) = <<>>
            BY <1>1, SinceCheckpointLaws
        <3> QED
            BY <1>1, <3>1, RedoneLaws DEF RedoneFrom
    <2>2. \A k, tids : RedoGives(<<>>, tids, k, "keep", {})
        BY <2>1 DEF RedoGives, RedoTo
    <2>3. "keep" \in RedoModes /\ RedoTo("keep", {}, {}) = {}
        BY DEF RedoModes, RedoTo
    <2>4. \A k : Clear(<<>>, k, {}, {})
        BY <2>2, <2>3 DEF Clear
    <2> QED
        BY <1>2, <2>4 DEF Settled, At
<1>6. Resting
    BY <1>2, <1>3, <1>4, <1>5 DEF Resting, Restorable, NothingLeft, OneRowPerKey
<1> QED
    BY <1>2, <1>3, <1>6 DEF Rows, InLife, FirstLife

(* It always holds.                                                        *)
LEMMA RowsAlways == Undisturbed /\ Spec => [](Everything /\ Ownership /\ Rows)
<1> SUFFICES ASSUME Undisturbed
             PROVE  Spec => [](Everything /\ Ownership /\ Rows)
    OBVIOUS
<1>1. Everything /\ Ownership /\ Rows /\ [Next]_vars => Rows'
    BY RowsKept
<1>2. Spec => [](Everything /\ Ownership)
    <2>1. Orderly
        BY DEF Undisturbed, Orderly
    <2> QED
        BY <2>1, OwnershipAlways
<1> QED
    BY <1>1, <1>2, RowsAtStart, PTL DEF Spec

(* Once nobody has changes outstanding the table is what the committed     *)
(* transactions make it: abort_transaction and recover_from_crash take     *)
(* back exactly the others, for any number of keys, values, transactions,  *)
(* checkpoints, crashes and recoveries.                                    *)
THEOREM TableAlwaysCommitted ==
    Undisturbed /\ Spec => [](TableIsCommitted /\ (Quiet => RowsOf(table) = committed))
<1>1. Everything /\ Ownership /\ Rows => (Quiet => RowsOf(table) = committed)
    <2> SUFFICES ASSUME Everything, Ownership, Rows, Quiet
                 PROVE  RowsOf(table) = committed
        OBVIOUS
    <2>1. InLife /\ \A t \in Tids : changed[t] = {}
        BY DEF Quiet, InLife
    <2>2. CASE FirstLife
        <3>1. PICK N : Owned /\ RowsAre(N)
            BY <2>2 DEF Rows, Ownership, FirstLife
        <3>2. \A t \in Tids : unlogged[t] = {} /\ ~Writer(t)
            BY <2>1, <3>1 DEF Owned, Everything, RestTyped, Writer
        <3> QED
            BY <3>1, <3>2 DEF RowsAre, LoggedAre, NothingPending
    <2>3. CASE ~FirstLife
        BY <2>1, <2>3 DEF Rows, Ownership, AtEase, FirstLife
    <2> QED
        BY <2>2, <2>3
<1>2. (Quiet => RowsOf(table) = committed) => TableIsCommitted
    BY DEF TableIsCommitted
<1> QED
    BY <1>1, <1>2, RowsAlways, PTL

-----------------------------------------------------------------------------
(* Log before data, with any mishaps.                                      *)

(* The record owed for the change c names the row with key k.              *)
Covers(c, k) == ~Dropped(c) /\ k \in {c.old_value.key, c.new_value.key}

(* Every row t has changed has its record, or t is about to write it.      *)
Told(t) ==
    \A k \in changed[t] \ unrecorded :
        \/ ChangeLogged(EverLogged, t, k)
        \/ session[t] = "writing" /\ \A c \in unlogged[t] : Covers(c, k)

(* It is in the file before t turns to the data.                           *)
ToldToFile(t) ==
    session[t] \in {"committing", "undone"} =>
        \A k \in changed[t] \ unrecorded : ChangeLogged(wal, t, k)

Tells == \A t \in Tids : Told(t) /\ ToldToFile(t)

(* What a running process does to the log.                                 *)
LogMoves ==
    (\E e \in LogEntry : Push(e) \/ AppendAndFlush(e)) \/ flush_buffer \/ Skips \/ UNCHANGED log

(* No record is taken back, and keys are only added to those excepted.     *)
Grows ==
    /\ ToSet(EverLogged) \subseteq ToSet(EverLogged')
    /\ ToSet(wal) \subseteq ToSet(wal')
    /\ unrecorded \subseteq unrecorded'

LEMMA MovesGrow ==
    ASSUME LogTyped, LogMoves, unrecorded \subseteq unrecorded'
    PROVE  Grows
<1>1. CASE \E e \in LogEntry : Push(e) \/ AppendAndFlush(e)
    BY <1>1, LogGrows DEF Grows
<1>2. CASE flush_buffer
    <2>1. EverLogged' = EverLogged
        BY <1>2, FlushKeepsTheLog
    <2>2. ToSet(wal \o log_buffer) = ToSet(wal) \cup ToSet(log_buffer)
        BY ChangesOfParts DEF LogTyped
    <2> QED
        BY <1>2, <2>1, <2>2 DEF flush_buffer, Grows
<1>3. CASE Skips \/ UNCHANGED log
    BY <1>3 DEF Skips, log, EverLogged, Grows
<1> QED
    BY <1>1, <1>2, <1>3 DEF LogMoves

(* Who does nothing has told as much as before.                            *)
LEMMA ToldOfOthers ==
    ASSUME Tells, Grows, NEW u \in Tids, session'[u] = session[u],
           unlogged'[u] = unlogged[u], changed'[u] = changed[u]
    PROVE  Told(u)' /\ ToldToFile(u)'
<1>1. /\ \A k : ChangeLogged(EverLogged, u, k) => ChangeLogged(EverLogged', u, k)
      /\ \A k : ChangeLogged(wal, u, k) => ChangeLogged(wal', u, k)
    BY MoreIsLogged DEF Grows
<1>2. Told(u) /\ ToldToFile(u)
    BY DEF Tells
<1>3. Told(u)'
    BY <1>1, <1>2 DEF Told, Grows
<1>4. ToldToFile(u)'
    BY <1>1, <1>2 DEF ToldToFile, Grows
<1> QED
    BY <1>3, <1>4

(* Neither has who changes no more rows, if the log is in the file by the  *)
(* time the data is written.                                               *)
LEMMA ToldOfOne ==
    ASSUME Tells, Grows, NEW t \in Tids, session[t] # "writing", changed'[t] \subseteq changed[t],
           session'[t] \in {"committing", "undone"} => ToSet(EverLogged) \subseteq ToSet(wal')
    PROVE  Told(t)' /\ ToldToFile(t)'
<1>1. \A k \in changed[t] \ unrecorded : ChangeLogged(EverLogged, t, k)
    BY DEF Tells, Told
<1>2. \A k : ChangeLogged(EverLogged, t, k) => ChangeLogged(EverLogged', t, k)
    BY MoreIsLogged DEF Grows
<1>3. Told(t)'
    BY <1>1, <1>2 DEF Told, Grows
<1>4. ASSUME session'[t] \in {"committing", "undone"}
      PROVE  \A k : ChangeLogged(EverLogged, t, k) => ChangeLogged(wal', t, k)
    BY <1>4, MoreIsLogged
<1>5. ToldToFile(t)'
    BY <1>1, <1>4 DEF ToldToFile, Grows
<1> QED
    BY <1>3, <1>5

(* A change whose record will name its rows.                               *)
LEMMA TellsOfChanges ==
    ASSUME Typed, RestTyped, Tells, NEW t \in Tids, NEW op, NEW K, NEW rows, NEW old, NEW new,
           Change(t, op, K, rows, old, new), unrecorded \subseteq unrecorded',
           \A k \in K \ unrecorded' :
               Covers([operation |-> op, old_value |-> old, new_value |-> new], k)
    PROVE  Tells'
<1> DEFINE c == [operation |-> op, old_value |-> old, new_value |-> new]
<1>1. /\ session[t] = "open" /\ session' = [session EXCEPT ![t] = "writing"]
      /\ unlogged' = [unlogged EXCEPT ![t] = {c}]
      /\ changed' = [changed EXCEPT ![t] = @ \cup K]
      /\ UNCHANGED log
    BY DEF Change
<1>2. \A k \in K \ unrecorded' : Covers(c, k)
    OBVIOUS
<1> HIDE DEF c
<1>3. Grows
    BY <1>1, MovesGrow DEF LogMoves, Typed
<1>4. /\ session \in [Tids -> Places] /\ unlogged \in [Tids -> SUBSET Changes]
      /\ changed \in [Tids -> SUBSET Keys]
    BY DEF Typed, RestTyped
<1>5. ASSUME NEW u \in Tids, u # t
      PROVE  Told(u)' /\ ToldToFile(u)'
    BY <1>1, <1>3, <1>4, <1>5, ToldOfOthers
<1>6. session'[t] = "writing" /\ unlogged'[t] = {c} /\ changed'[t] = changed[t] \cup K
    BY <1>1, <1>4
<1>7. \A k \in changed[t] \ unrecorded : ChangeLogged(EverLogged', t, k)
    <2>1. \A k \in changed[t] \ unrecorded : ChangeLogged(EverLogged, t, k)
        BY <1>1 DEF Tells, Told
    <2> QED
        BY <1>3, <2>1, MoreIsLogged DEF Grows
<1>8. Told(t)' /\ ToldToFile(t)'
    BY <1>2, <1>6, <1>7 DEF Told, ToldToFile
<1> QED
    BY <1>5, <1>8 DEF Tells

(* The statements, with single keys.                                       *)
LEMMA TellsOfStatements ==
    ASSUME OneKeyEach, Typed, RestTyped, Tells, NEW t \in Tids,
           \/ \E row \in Row : execute_insert(t, row) \/ execute_update_unconditional(t, row)
           \/ \E K \in WhereSets : execute_delete(t, K)
                                 \/ \E v \in Values : execute_update(t, K, v)
    PROVE  Tells'
<1>1. \A r \in Row : r # NoRow
    BY KeysAssumption DEF Row, NoRow
<1>2. ASSUME NEW row \in Row, execute_insert(t, row)
      PROVE  Tells'
    <2> DEFINE c == [operation |-> "INSERT", old_value |-> NoRow, new_value |-> row]
    <2>1. \A k \in {row.key} : Covers(c, k)
        BY DEF Covers, Dropped
    <2>2. Change(t, "INSERT", {row.key}, Insert(table, row), NoRow, row)
          /\ unrecorded' = unrecorded
        BY <1>2 DEF execute_insert
    <2> QED
        BY <2>1, <2>2, TellsOfChanges
<1>3. ASSUME NEW K \in WhereSets, execute_delete(t, K)
      PROVE  Tells'
    <2>1. PICK first \in WithKey(K) :
              Change(t, "DELETE", K, Delete(table, K), first, NoRow)
        BY <1>3 DEF execute_delete
    <2>2. unrecorded' = unrecorded /\ \A k \in K : k = first.key
        BY <1>3, <2>1 DEF execute_delete, OneKeyEach, WithKey
    <2> DEFINE c == [operation |-> "DELETE", old_value |-> first, new_value |-> NoRow]
    <2>3. \A k \in K : Covers(c, k)
        BY <2>2 DEF Covers, Dropped
    <2> QED
        BY <2>1, <2>2, <2>3, TellsOfChanges
<1>4. ASSUME NEW K \in WhereSets, NEW v \in Values, execute_update(t, K, v)
      PROVE  Tells'
    <2>1. PICK first \in WithKey(K) :
              Change(t, "UPDATE", K, SetValue(table, K, v), first, [first EXCEPT !.val = v])
        BY <1>4 DEF execute_update
    <2>2. unrecorded' = unrecorded /\ first # NoRow /\ \A k \in K : k = first.key
        BY <1>1, <1>4, <2>1 DEF execute_update, OneKeyEach, WithKey
    <2> DEFINE new == [first EXCEPT !.val = v]
               c == [operation |-> "UPDATE", old_value |-> first, new_value |-> new]
    <2>3. \A k \in K : Covers(c, k)
        BY <2>2 DEF Covers, Dropped
    <2> QED
        BY <2>1, <2>2, <2>3, TellsOfChanges
<1>5. ASSUME NEW row \in Row, execute_update_unconditional(t, row)
      PROVE  Tells'
    <2>1. PICK K, old, new : /\ Change(t, "UPDATE", K, Insert(table, row), old, new)
                             /\ unrecorded' = unrecorded \cup K
        BY <1>5 DEF execute_update_unconditional
    <2>2. K \ unrecorded' = {} /\ unrecorded \subseteq unrecorded'
        BY <2>1
    <2> QED
        BY <2>1, <2>2, TellsOfChanges
<1> QED
    BY <1>2, <1>3, <1>4, <1>5

(* The record of a change reaches the log.                                 *)
LEMMA TellsOfRecords ==
    ASSUME Typed, RestTyped, Tells, NEW t \in Tids, write_log(t)
    PROVE  Tells'
<1>1. /\ LogTyped /\ session \in [Tids -> Places] /\ unlogged \in [Tids -> SUBSET Changes]
      /\ changed \in [Tids -> SUBSET Keys]
    BY DEF Typed, RestTyped
<1>2. PICK c \in unlogged[t] : LogOrDrop(t, c)
    BY DEF write_log
<1>3. /\ session' = [session EXCEPT ![t] = "open"] /\ unlogged' = [unlogged EXCEPT ![t] = {}]
      /\ UNCHANGED <<changed, unrecorded>>
    BY DEF write_log, bounds
<1> DEFINE e == Record(t, c.operation, c.old_value, c.new_value)
<1>4. c \in Changes
    BY <1>1
<1>5. /\ e \in LogEntry /\ e.transaction_id = t /\ IsData(e)
      /\ e.old_value = c.old_value /\ e.new_value = c.new_value
    <2>1. e \in LogEntry /\ e.transaction_id = t /\ e.operation = c.operation
        BY <1>4, RecordsAreEntries DEF Changes
    <2>2. e.old_value = c.old_value /\ e.new_value = c.new_value
        BY DEF Record
    <2> HIDE DEF e
    <2> QED
        BY <1>4, <2>1, <2>2 DEF IsData, Changes
<1>6. (Push(e) /\ ~Dropped(c)) \/ (Skips /\ Dropped(c))
    BY <1>2 DEF LogOrDrop, Skips
<1> HIDE DEF e
<1>7. Grows
    BY <1>1, <1>3, <1>5, <1>6, MovesGrow DEF LogMoves
<1>8. ASSUME NEW u \in Tids, u # t
      PROVE  Told(u)' /\ ToldToFile(u)'
    BY <1>1, <1>3, <1>7, <1>8, ToldOfOthers
<1>9. ASSUME NEW k \in changed[t] \ unrecorded
      PROVE  ChangeLogged(EverLogged', t, k)
    <2>1. CASE ChangeLogged(EverLogged, t, k)
        BY <1>7, <2>1, MoreIsLogged DEF Grows
    <2>2. CASE Covers(c, k)
        <3>1. Push(e) /\ k \in {e.old_value.key, e.new_value.key}
            BY <1>5, <1>6, <2>2 DEF Covers
        <3>2. e \in ToSet(EverLogged')
            BY <1>1, <1>5, <3>1, LogGrows
        <3> QED
            BY <1>5, <3>1, <3>2 DEF ChangeLogged
    <2> QED
        BY <1>9, <2>1, <2>2 DEF Tells, Told
<1>10. session'[t] = "open"
    BY <1>1, <1>3
<1>11. Told(t)' /\ ToldToFile(t)'
    BY <1>3, <1>9, <1>10 DEF Told, ToldToFile
<1> QED
    BY <1>8, <1>11 DEF Tells

(* What the other steps of transactions have in common.                    *)
LEMMA TellsOfTransactions ==
    ASSUME Typed, RestTyped, Tells, NEW t \in Tids,
           \/ begin_transaction(t) \/ commit_log(t) \/ commit_data(t)
           \/ abort_check(t) \/ recover(t) \/ abort_data(t) \/ abort_log(t)
    PROVE  Tells'
<1>1. /\ LogTyped /\ session \in [Tids -> Places] /\ changed \in [Tids -> SUBSET Keys]
    BY DEF Typed, RestTyped
<1>2. PICK place : session' = [session EXCEPT ![t] = place]
    BY DEF begin_transaction, commit_log, commit_data, abort_check, recover, abort_data, abort_log
<1>3. /\ changed' = changed \/ changed' = [changed EXCEPT ![t] = {}]
      /\ UNCHANGED <<unlogged, unrecorded>> /\ session[t] # "writing"
    BY DEF begin_transaction, commit_log, commit_data, abort_check, recover, abort_data,
           abort_log, bounds
<1>4. LogMoves
    <2>1. CASE begin_transaction(t)
        BY <2>1, RecordOfBegin DEF LogMoves
    <2>2. CASE commit_log(t)
        BY <2>2, RecordOfCommit DEF LogMoves
    <2>3. CASE abort_log(t)
        BY <2>3, RecordOfAbort DEF LogMoves
    <2>4. CASE commit_data(t) \/ abort_check(t) \/ recover(t) \/ abort_data(t)
        BY <2>4 DEF LogMoves, commit_data, abort_check, recover, abort_data
    <2> QED
        BY <2>1, <2>2, <2>3, <2>4
<1>5. Grows
    BY <1>1, <1>3, <1>4, MovesGrow
<1>6. ASSUME NEW u \in Tids, u # t
      PROVE  Told(u)' /\ ToldToFile(u)'
    BY <1>1, <1>2, <1>3, <1>5, <1>6, ToldOfOthers
<1>7. changed'[t] \subseteq changed[t]
    BY <1>1, <1>3
<1>8. session'[t] \in {"committing", "undone"} => ToSet(EverLogged) \subseteq ToSet(wal')
    <2>1. CASE commit_log(t)
        <3>1. wal' = EverLogged'
            <4>1. PICK e \in LogEntry : AppendAndFlush(e)
                BY <2>1, RecordOfCommit
            <4> QED
                BY <1>1, <4>1, RecordsAreAppended DEF AppendAndFlush, EverLogged, LogTyped
        <3> QED
            BY <1>5, <3>1 DEF Grows
    <2>2. CASE recover(t)
        BY <2>2 DEF recover, flush_buffer, EverLogged
    <2>3. CASE \/ begin_transaction(t) \/ commit_data(t)
               \/ abort_check(t) \/ abort_data(t) \/ abort_log(t)
        BY <1>1, <2>3 DEF begin_transaction, commit_data, abort_check, abort_data, abort_log
    <2> QED
        BY <2>1, <2>2, <2>3
<1>9. Told(t)' /\ ToldToFile(t)'
    BY <1>3, <1>5, <1>7, <1>8, ToldOfOne
<1> QED
    BY <1>6, <1>9 DEF Tells

(* Checkpoints, evictions, the exit and the construction.                  *)
LEMMA TellsOfTheRest ==
    ASSUME Typed, RestTyped, Tells,
           \/ checkpoint_begin \/ checkpoint_start \/ checkpoint_data \/ checkpoint_end
           \/ evict_page \/ exit \/ recover_from_crash \/ remove_marker \/ construct
           \/ UNCHANGED vars
    PROVE  Tells'
<1>1. LogTyped
    BY DEF Typed
<1>2. UNCHANGED <<session, unlogged, changed, unrecorded>>
    BY DEF checkpoint_begin, checkpoint_start, checkpoint_data, checkpoint_end, CheckpointStep,
           evict_page, exit, recover_from_crash, remove_marker, construct, client, bounds, vars
<1>3. Grows
    <2>1. CASE checkpoint_start \/ checkpoint_end
        <3>1. PICK active \in SUBSET Tids : AppendAndFlush(CheckpointRecord(active))
            BY <2>1 DEF checkpoint_start, checkpoint_end, Typed
        <3>2. CheckpointRecord(active) \in LogEntry
            BY CheckpointsAreEntries
        <3> QED
            BY <1>1, <1>2, <3>1, <3>2, MovesGrow DEF LogMoves
    <2>2. CASE \/ checkpoint_begin \/ checkpoint_data \/ evict_page \/ exit
               \/ recover_from_crash \/ remove_marker
        <3>1. flush_buffer \/ UNCHANGED log
            BY <2>2 DEF checkpoint_begin, checkpoint_data, evict_page, exit, recover_from_crash,
                        remove_marker
        <3> QED
            BY <1>1, <1>2, <3>1, MovesGrow DEF LogMoves
    <2>3. CASE construct \/ UNCHANGED vars
        BY <1>2, <2>3 DEF construct, vars, Grows, EverLogged
    <2> QED
        BY <2>1, <2>2, <2>3
<1> QED
    BY <1>2, <1>3, ToldOfOthers DEF Tells

(* Every step; after a crash nobody has changed anything.                  *)
LEMMA TellsKept == OneKeyEach /\ Inv /\ RestTyped /\ Tells /\ [Next]_vars => Tells'
<1> SUFFICES ASSUME OneKeyEach, Inv, RestTyped, Tells, [Next]_vars
             PROVE  Tells'
    OBVIOUS
<1>1. Typed
    BY DEF Inv
<1>2. ASSUME NEW t \in Tids,
             \/ begin_transaction(t)
             \/ \E row \in Row : execute_insert(t, row) \/ execute_update_unconditional(t, row)
             \/ \E K \in WhereSets :
                    execute_delete(t, K) \/ \E v \in Values : execute_update(t, K, v)
             \/ write_log(t) \/ commit_log(t) \/ commit_data(t)
             \/ abort_check(t) \/ recover(t) \/ abort_data(t) \/ abort_log(t)
      PROVE  Tells'
    BY <1>1, <1>2, TellsOfStatements, TellsOfRecords, TellsOfTransactions
<1>3. CASE crash \/ restart
    <2>1. changed' = [t \in Tids |-> {}]
        BY <1>3 DEF crash, restart, Vanish
    <2> QED
        BY <2>1 DEF Tells, Told, ToldToFile
<1>4. CASE \/ checkpoint_begin \/ checkpoint_start \/ checkpoint_data \/ checkpoint_end
           \/ evict_page \/ exit \/ recover_from_crash \/ remove_marker \/ construct
           \/ UNCHANGED vars
    BY <1>1, <1>4, TellsOfTheRest
<1> QED
    BY <1>2, <1>3, <1>4 DEF Next

(* By the time a commit or a rollback writes the data, the log file has a  *)
(* record of every row the transaction changed (but those an UPDATE        *)
(* without WHERE has made the log misrepresent): for any bounds and any    *)
(* mishaps, evictions and commits of other sessions between a change and   *)
(* its record among them, if a WHERE stands for one row.                   *)
THEOREM AlwaysLoggedBeforeForced == OneKeyEach /\ Spec => []LoggedBeforeForced
<1> SUFFICES ASSUME OneKeyEach
             PROVE  Spec => []LoggedBeforeForced
    OBVIOUS
<1>1. Init => Tells
    BY DEF Init, Tells, Told, ToldToFile
<1>2. Inv /\ RestTyped /\ Tells /\ [Next]_vars => Tells'
    BY TellsKept
<1>3. Tells => LoggedBeforeForced
    BY DEF Tells, ToldToFile, LoggedBeforeForced, ChangeLogged
<1> QED
    BY <1>1, <1>2, <1>3, TypesAlways, PTL DEF Spec

=============================================================================
