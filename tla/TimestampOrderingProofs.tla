----------------------- MODULE TimestampOrderingProofs -----------------------
(***************************************************************************)
(* Proofs about TimestampOrdering and the schedules it lets through, for   *)
(* every set of records and every number of transactions.                  *)
(***************************************************************************)
EXTENDS TimestampOrderingSchedule, DataLemmas

-----------------------------------------------------------------------------
(* The manager alone.                                                      *)

(* What the three updates of object_timestamps_ make of it: an access      *)
(* stamps its record, a new record is stamped with 0, the rest stays.      *)
LEMMA AllowStamps ==
    ASSUME MembersTyped, NEW t \in Tids, NEW r \in Records, NEW a \in Actions,
           AllowAccess(t, r, a)
    PROVE  /\ r \in DOMAIN object_timestamps_
           /\ DOMAIN object_timestamps_' = DOMAIN object_timestamps_
           /\ object_timestamps_'[r] = Stamp(object_timestamps_[r], t, a)
           /\ \A s \in DOMAIN object_timestamps_ \ {r} :
                object_timestamps_'[s] = object_timestamps_[s]
BY DEF AllowAccess, Logged, MembersTyped

(* Logging a record stamps it with 0 when it is new and leaves every other *)
(* stamp.                                                                  *)
LEMMA LogStamps ==
    ASSUME MembersTyped, NEW t \in Tids, NEW r \in Records, log_object(t, r)
    PROVE  /\ DOMAIN object_timestamps_' = DOMAIN object_timestamps_ \cup {r}
           /\ \A s \in DOMAIN object_timestamps_ :
                object_timestamps_'[s] = object_timestamps_[s]
           /\ r \notin DOMAIN object_timestamps_ =>
                object_timestamps_'[r] = [read_ts |-> 0, write_ts |-> 0]
BY DEF log_object, Logged

(* A stamp writes the transaction's own timestamp or keeps the old one.    *)
LEMMA StampValues ==
    ASSUME NEW ts \in ObjectTimestamp, NEW t \in Nat, NEW a \in Actions
    PROVE  /\ Stamp(ts, t, a) \in ObjectTimestamp
           /\ a = "READ" => /\ Stamp(ts, t, a).write_ts = ts.write_ts
                            /\ Stamp(ts, t, a).read_ts = IF t > ts.read_ts THEN t ELSE ts.read_ts
           /\ a = "WRITE" => /\ Stamp(ts, t, a).write_ts = t
                             /\ Stamp(ts, t, a).read_ts = ts.read_ts
BY DEF Stamp, ObjectTimestamp, Actions

(* Every operation keeps the members of the class well typed.              *)
LEMMA MembersStayTyped == MembersTyped /\ [Next]_vars => MembersTyped'
<1> SUFFICES ASSUME MembersTyped, [Next]_vars
             PROVE  MembersTyped'
    OBVIOUS
<1>1. CASE begin_transaction
    BY <1>1, MaxTransactionsAssumption DEF begin_transaction, MembersTyped, Tids
<1>2. ASSUME NEW t \in Tids, end_transaction(t)
      PROVE  MembersTyped'
    BY <1>2 DEF end_transaction, MembersTyped
<1>3. ASSUME NEW t \in Tids, NEW r \in Records, log_object(t, r)
      PROVE  MembersTyped'
    <2>1. ASSUME NEW s \in DOMAIN object_timestamps_'
          PROVE  s \in Records /\ object_timestamps_'[s] \in ObjectTimestamp
        <3>1. s \in DOMAIN object_timestamps_ \/ (s = r /\ s \notin DOMAIN object_timestamps_)
            BY <1>3, LogStamps
        <3>2. [read_ts |-> 0, write_ts |-> 0] \in ObjectTimestamp
            BY DEF ObjectTimestamp
        <3>3. CASE s \in DOMAIN object_timestamps_
            <4>1. object_timestamps_'[s] = object_timestamps_[s]
                BY <1>3, <3>3, LogStamps
            <4> QED
                BY <3>3, <4>1 DEF MembersTyped
        <3> QED
            BY <1>3, <3>1, <3>2, <3>3, LogStamps
    <2>2. object_timestamps_' = [s \in DOMAIN object_timestamps_' |-> object_timestamps_'[s]]
        BY <1>3 DEF log_object
    <2>3. object_timestamps_' \in [DOMAIN object_timestamps_' -> ObjectTimestamp]
        BY <2>1, <2>2
    <2> QED
        BY <1>3, <2>1, <2>3 DEF log_object, MembersTyped
<1>4. ASSUME NEW t \in Tids, NEW r \in Records, NEW a \in Actions, validate_object(t, r, a)
      PROVE  MembersTyped'
    <2>1. CASE RefuseAccess(t, r)
        BY <2>1 DEF RefuseAccess, vars, MembersTyped
    <2>2. CASE FailAccess(t, r, a)
        BY <2>2 DEF FailAccess, MembersTyped
    <2>3. CASE AllowAccess(t, r, a)
        <3>1. Stamp(object_timestamps_[r], t, a) \in ObjectTimestamp
            BY <2>3, StampValues, MaxTransactionsAssumption
            DEF MembersTyped, AllowAccess, Logged, Tids
        <3> QED
            BY <2>3, <3>1 DEF AllowAccess, MembersTyped
    <2> QED
        BY <1>4, <2>1, <2>2, <2>3 DEF validate_object
<1>5. CASE UNCHANGED vars
    BY <1>5 DEF vars, MembersTyped
<1> QED
    BY <1>1, <1>2, <1>3, <1>4, <1>5 DEF Next

(* The members of the class have their types in every reachable state.     *)
THEOREM MembersAlwaysTyped == Spec => []MembersTyped
<1>1. Init => MembersTyped
    BY MaxTransactionsAssumption DEF Init, MembersTyped
<1> QED
    BY <1>1, MembersStayTyped, PTL DEF Spec

(* No operation stamps an object with a timestamp not yet handed out.      *)
LEMMA TimestampsPast == MembersTyped /\ NoFutureTimestamps /\ [Next]_vars => NoFutureTimestamps'
<1> SUFFICES ASSUME MembersTyped, NoFutureTimestamps, [Next]_vars
             PROVE  NoFutureTimestamps'
    OBVIOUS
<1>1. CASE begin_transaction
    <2>1. /\ current_timestamp_ \in Nat /\ current_timestamp_' = current_timestamp_ + 1
          /\ current_timestamp_' \in Tids
          /\ transactions_' = [transactions_ EXCEPT ![current_timestamp_'] = "ACTIVE"]
          /\ object_timestamps_' = object_timestamps_
        BY <1>1, MaxTransactionsAssumption DEF begin_transaction, MembersTyped, Tids
    <2>2. ASSUME NEW t \in Tids, Known(t)'
          PROVE  t <= current_timestamp_'
        <3>1. CASE t = current_timestamp_'
            BY <3>1, <2>1
        <3>2. CASE t # current_timestamp_'
            <4>1. Known(t)
                BY <2>1, <2>2, <3>2 DEF Known, get_transaction_status, MembersTyped
            <4> QED
                BY <2>1, <4>1, MaxTransactionsAssumption DEF NoFutureTimestamps, Tids
        <3> QED
            BY <3>1, <3>2
    <2>3. ASSUME NEW r \in DOMAIN object_timestamps_
          PROVE  /\ object_timestamps_[r].read_ts <= current_timestamp_'
                 /\ object_timestamps_[r].write_ts <= current_timestamp_'
        <3>1. object_timestamps_[r] \in ObjectTimestamp
            BY DEF MembersTyped
        <3> QED
            BY <2>1, <3>1 DEF NoFutureTimestamps, ObjectTimestamp
    <2> QED
        BY <2>1, <2>2, <2>3 DEF NoFutureTimestamps
<1>2. ASSUME NEW t \in Tids, end_transaction(t)
      PROVE  NoFutureTimestamps'
    BY <1>2 DEF end_transaction, NoFutureTimestamps, Known, get_transaction_status, MembersTyped
<1>3. ASSUME NEW t \in Tids, NEW r \in Records, log_object(t, r)
      PROVE  NoFutureTimestamps'
    <2>1. current_timestamp_' = current_timestamp_ /\ transactions_' = transactions_
        BY <1>3 DEF log_object
    <2>2. ASSUME NEW s \in DOMAIN object_timestamps_'
          PROVE  /\ object_timestamps_'[s].read_ts <= current_timestamp_
                 /\ object_timestamps_'[s].write_ts <= current_timestamp_
        <3>1. s \in DOMAIN object_timestamps_ \/ (s = r /\ s \notin DOMAIN object_timestamps_)
            BY <1>3, LogStamps
        <3>2. CASE s \in DOMAIN object_timestamps_
            <4>1. object_timestamps_'[s] = object_timestamps_[s]
                BY <1>3, <3>2, LogStamps
            <4> QED
                BY <3>2, <4>1 DEF NoFutureTimestamps
        <3>3. CASE s = r /\ s \notin DOMAIN object_timestamps_
            <4>1. object_timestamps_'[s] = [read_ts |-> 0, write_ts |-> 0]
                BY <1>3, <3>3, LogStamps
            <4> QED
                BY <4>1, MaxTransactionsAssumption DEF MembersTyped
        <3> QED
            BY <3>1, <3>2, <3>3
    <2> QED
        BY <2>1, <2>2 DEF NoFutureTimestamps, Known, get_transaction_status
<1>4. ASSUME NEW t \in Tids, NEW r \in Records, NEW a \in Actions, validate_object(t, r, a)
      PROVE  NoFutureTimestamps'
    <2>1. CASE RefuseAccess(t, r)
        BY <2>1 DEF RefuseAccess, vars, NoFutureTimestamps, Known, get_transaction_status
    <2>2. CASE FailAccess(t, r, a)
        BY <2>2 DEF FailAccess, NoFutureTimestamps, Known, get_transaction_status, MembersTyped
    <2>3. CASE AllowAccess(t, r, a)
        <3>1. /\ t <= current_timestamp_ /\ UNCHANGED <<current_timestamp_, transactions_>>
              /\ t \in Nat /\ object_timestamps_[r] \in ObjectTimestamp
            BY <2>3, MaxTransactionsAssumption
            DEF AllowAccess, Logged, Known, get_transaction_status, NoFutureTimestamps,
                MembersTyped, Tids
        <3>2. /\ object_timestamps_'[r].read_ts <= current_timestamp_
              /\ object_timestamps_'[r].write_ts <= current_timestamp_
            <4>1. /\ object_timestamps_'[r] = Stamp(object_timestamps_[r], t, a)
                  /\ object_timestamps_[r].read_ts <= current_timestamp_
                  /\ object_timestamps_[r].write_ts <= current_timestamp_
                BY <2>3, AllowStamps DEF NoFutureTimestamps
            <4>2. CASE a = "READ"
                BY <3>1, <4>1, <4>2, StampValues
            <4>3. CASE a = "WRITE"
                BY <3>1, <4>1, <4>3, StampValues
            <4> QED
                BY <4>2, <4>3 DEF Actions
        <3>3. \A s \in DOMAIN object_timestamps_' :
                /\ object_timestamps_'[s].read_ts <= current_timestamp_
                /\ object_timestamps_'[s].write_ts <= current_timestamp_
            BY <2>3, <3>2, AllowStamps DEF NoFutureTimestamps
        <3> QED
            BY <3>1, <3>3 DEF NoFutureTimestamps, Known, get_transaction_status
    <2> QED
        BY <1>4, <2>1, <2>2, <2>3 DEF validate_object
<1>5. CASE UNCHANGED vars
    BY <1>5 DEF vars, NoFutureTimestamps, Known, get_transaction_status
<1> QED
    BY <1>1, <1>2, <1>3, <1>4, <1>5 DEF Next

(* Timestamps on objects are those of transactions that have begun.        *)
THEOREM TimestampsFromThePast == Spec => []NoFutureTimestamps
<1>1. Init => NoFutureTimestamps
    BY DEF Init, NoFutureTimestamps, Known, get_transaction_status
<1> QED
    BY <1>1, MembersAlwaysTyped, TimestampsPast, PTL DEF Spec

(* Types and timestamps are right in every reachable state: what the map   *)
(* and the objects hold stems from transactions that begin_transaction has *)
(* given an id.                                                            *)
THEOREM TypeCorrect == Spec => []TypeOK
<1>1. MembersTyped /\ NoFutureTimestamps => TypeOK
    BY DEF TypeOK
<1> QED
    BY <1>1, MembersAlwaysTyped, TimestampsFromThePast, PTL

(* The timestamps of an object only grow, and an object once logged stays. *)
THEOREM TimestampsGrow == Spec => TimestampsNeverRegress
<1> DEFINE Kept ==
        \A r \in DOMAIN object_timestamps_ :
            /\ Logged(r)'
            /\ object_timestamps_[r].read_ts <= object_timestamps_'[r].read_ts
            /\ object_timestamps_[r].write_ts <= object_timestamps_'[r].write_ts
<1>1. MembersTyped /\ [Next]_vars => [Kept]_vars
    <2> SUFFICES ASSUME MembersTyped, Next, NEW s \in DOMAIN object_timestamps_
                 PROVE  /\ s \in DOMAIN object_timestamps_'
                        /\ object_timestamps_[s].read_ts <= object_timestamps_'[s].read_ts
                        /\ object_timestamps_[s].write_ts <= object_timestamps_'[s].write_ts
        BY DEF Logged
    <2>1. object_timestamps_[s] \in ObjectTimestamp
        BY DEF MembersTyped
    <2>2. CASE UNCHANGED object_timestamps_
        BY <2>1, <2>2 DEF ObjectTimestamp
    <2>3. ASSUME NEW t \in Tids, NEW r \in Records, log_object(t, r)
          PROVE  object_timestamps_'[s] = object_timestamps_[s] /\ s \in DOMAIN object_timestamps_'
        BY <2>3, LogStamps
    <2>4. ASSUME NEW t \in Tids, NEW r \in Records, NEW a \in Actions, AllowAccess(t, r, a)
          PROVE  /\ s \in DOMAIN object_timestamps_'
                 /\ object_timestamps_[s].read_ts <= object_timestamps_'[s].read_ts
                 /\ object_timestamps_[s].write_ts <= object_timestamps_'[s].write_ts
        <3>1. s \in DOMAIN object_timestamps_' /\ t \in Nat
            BY <2>4, AllowStamps, MaxTransactionsAssumption DEF Tids
        <3>2. CASE s # r
            <4>1. object_timestamps_'[s] = object_timestamps_[s]
                BY <2>4, <3>2, AllowStamps
            <4> QED
                BY <2>1, <3>1, <4>1 DEF ObjectTimestamp
        <3>3. CASE s = r
            <4>1. /\ object_timestamps_'[s] = Stamp(object_timestamps_[s], t, a)
                  /\ ~TooLate(t, s, a)
                BY <2>4, <3>3, AllowStamps DEF AllowAccess
            <4>2. object_timestamps_[s].read_ts \in Nat /\ object_timestamps_[s].write_ts \in Nat
                BY <2>1 DEF ObjectTimestamp
            <4>3. CASE a = "READ"
                BY <2>1, <3>1, <4>1, <4>2, <4>3, StampValues
            <4>4. CASE a = "WRITE"
                BY <2>1, <3>1, <4>1, <4>2, <4>4, StampValues DEF TooLate
            <4> QED
                BY <4>3, <4>4 DEF Actions
        <3> QED
            BY <3>2, <3>3
    <2> QED
        BY <2>1, <2>2, <2>3, <2>4
        DEF Next, begin_transaction, end_transaction, validate_object, RefuseAccess, FailAccess,
            vars, ObjectTimestamp
<1> QED
    BY <1>1, MembersAlwaysTyped, PTL DEF Spec, TimestampsNeverRegress

-----------------------------------------------------------------------------
(* The schedules.                                                          *)

(* The manager does not notice that its schedule is written down.          *)
LEMMA ScheduleStep == [ScheduleNext]_allVars => [Next]_vars
<1> SUFFICES ASSUME [ScheduleNext]_allVars
             PROVE  [Next]_vars
    OBVIOUS
<1>1. CASE BeginTransaction
    BY <1>1 DEF BeginTransaction, Next
<1>2. ASSUME NEW t \in Tids, EndTransaction(t)
      PROVE  Next
    BY <1>2 DEF EndTransaction, Next
<1>3. ASSUME NEW t \in Tids, NEW r \in Records, LogObject(t, r)
      PROVE  Next
    BY <1>3 DEF LogObject, Next
<1>4. ASSUME NEW t \in Tids, NEW r \in Records, NEW a \in Actions,
             AccessAllowed(t, r, a) \/ AccessFailed(t, r, a)
      PROVE  Next
    <2>1. validate_object(t, r, a)
        BY <1>4 DEF AccessAllowed, AccessFailed, validate_object
    <2> QED
        BY <2>1 DEF Next
<1>5. CASE UNCHANGED allVars
    BY <1>5 DEF allVars, vars
<1> QED
    BY <1>1, <1>2, <1>3, <1>4, <1>5 DEF ScheduleNext

(* A behaviour of the composition is one of the manager.                   *)
LEMMA ScheduleIsSpec == ScheduleSpec => Spec
<1>1. ScheduleInit => Init
    BY DEF ScheduleInit
<1> QED
    BY <1>1, ScheduleStep, PTL DEF ScheduleSpec, Spec

(* What is known of the manager's own state.                               *)
ManagerInvariant == MembersTyped /\ NoFutureTimestamps

(* Types and timestamps stay in order along a schedule.                    *)
LEMMA ManagerInvariantHolds == ScheduleSpec => []ManagerInvariant
BY ScheduleIsSpec, MembersAlwaysTyped, TimestampsFromThePast, PTL DEF ManagerInvariant

(* The invariant the serial order rests on: an object remembers the        *)
(* youngest of its accesses, which are all of logged objects and of        *)
(* transactions that have begun.                                           *)
ScheduleInvariant ==
    /\ accesses \subseteq Scheduler!Accesses
    /\ \A m \in accesses : Logged(m.record) /\ m.tid <= current_timestamp_
    /\ TimestampsRecordYoungest
    /\ precedes \subseteq Tids \X Tids
    /\ ConflictsFollowTimestamps

(* The accesses an AccessTimes set stands for.                             *)
LEMMA AccessTimesMembers ==
    ASSUME NEW r, NEW a, NEW t
    PROVE  t \in AccessTimes(r, a) <=>
                \E m \in accesses : m.record = r /\ m.action = a /\ m.tid = t
BY DEF AccessTimes

(* An access that is allowed conflicts only with accesses of older         *)
(* transactions: the timestamps of the object would have rejected it.      *)
LEMMA PredecessorsOlder ==
    ASSUME ManagerInvariant, ScheduleInvariant,
           NEW t \in Tids, NEW r \in Records, NEW a \in Actions, AllowAccess(t, r, a),
           NEW u \in Scheduler!Predecessors(accesses, t, r, a)
    PROVE  u \in Tids /\ u < t
<1>1. u \in Tids /\ u # t /\ t \in Nat /\ u \in Nat
    BY MaxTransactionsAssumption DEF Scheduler!Predecessors, Scheduler!Tids, Tids
<1>2. PICK m \in accesses : m.tid = u /\ m.record = r /\ Scheduler!Conflicting(m.action, a)
    BY DEF Scheduler!Predecessors
<1>3. /\ r \in DOMAIN object_timestamps_ /\ ~TooLate(t, r, a)
      /\ object_timestamps_[r].read_ts \in Nat /\ object_timestamps_[r].write_ts \in Nat
    BY DEF AllowAccess, Logged, ManagerInvariant, MembersTyped, ObjectTimestamp
<1>4. m.action \in {"READ", "WRITE"}
    BY <1>2 DEF ScheduleInvariant, Scheduler!Accesses, Scheduler!Actions
<1>5. CASE m.action = "WRITE"
    <2>1. u <= object_timestamps_[r].write_ts
        BY <1>2, <1>3, <1>5, AccessTimesMembers DEF ScheduleInvariant, TimestampsRecordYoungest
    <2> QED
        BY <1>1, <1>3, <2>1 DEF TooLate
<1>6. CASE m.action = "READ"
    <2>1. u <= object_timestamps_[r].read_ts
        BY <1>2, <1>3, <1>6, AccessTimesMembers DEF ScheduleInvariant, TimestampsRecordYoungest
    <2>2. a = "WRITE"
        BY <1>2, <1>6 DEF Scheduler!Conflicting
    <2> QED
        BY <1>1, <1>3, <2>1, <2>2 DEF TooLate
<1> QED
    BY <1>4, <1>5, <1>6

(* The stamp of an access that is allowed keeps the object's memory true.  *)
LEMMA StampRecordsYoungest ==
    ASSUME ManagerInvariant, ScheduleInvariant,
           NEW t \in Tids, NEW r \in Records, NEW a \in Actions, AccessAllowed(t, r, a)
    PROVE  TimestampsRecordYoungest'
<1> DEFINE ts(s) == object_timestamps_[s]
           new == Stamp(object_timestamps_[r], t, a)
<1>1. /\ AllowAccess(t, r, a) /\ ~TooLate(t, r, a)
      /\ accesses' = accesses \cup {Scheduler!Access(t, r, a)}
    BY DEF AccessAllowed, AllowAccess
<1>2. /\ r \in DOMAIN object_timestamps_
      /\ DOMAIN object_timestamps_' = DOMAIN object_timestamps_
      /\ object_timestamps_'[r] = new
      /\ \A s \in DOMAIN object_timestamps_ \ {r} : object_timestamps_'[s] = ts(s)
    BY <1>1, AllowStamps DEF ManagerInvariant
<1>3. ASSUME NEW s \in Records, NEW b \in Actions
      PROVE  AccessTimes(s, b)' =
                AccessTimes(s, b) \cup (IF s = r /\ b = a THEN {t} ELSE {})
    <2> DEFINE acc == [tid |-> t, record |-> r, action |-> a]
    <2>1. ASSUME NEW u
          PROVE  u \in AccessTimes(s, b)' <=>
                    u \in AccessTimes(s, b) \/ (s = r /\ b = a /\ u = t)
        <3>1. u \in AccessTimes(s, b)' <=>
                \E m \in accesses \cup {acc} : m.record = s /\ m.action = b /\ m.tid = u
            BY <1>1 DEF AccessTimes, Scheduler!Access
        <3>2. u \in AccessTimes(s, b) <=>
                \E m \in accesses : m.record = s /\ m.action = b /\ m.tid = u
            BY AccessTimesMembers
        <3>3. acc.record = r /\ acc.action = a /\ acc.tid = t
            OBVIOUS
        <3> HIDE DEF acc
        <3> QED
            BY <3>1, <3>2, <3>3
    <2>2. CASE s = r /\ b = a
        BY <2>1, <2>2
    <2>3. CASE ~(s = r /\ b = a)
        BY <2>1, <2>3
    <2> QED
        BY <2>2, <2>3
<1>4. /\ t \in Nat /\ ts(r) \in ObjectTimestamp
      /\ ts(r).read_ts \in Nat /\ ts(r).write_ts \in Nat
    BY <1>2, MaxTransactionsAssumption DEF ManagerInvariant, MembersTyped, ObjectTimestamp, Tids
<1>5. ASSUME NEW s \in DOMAIN object_timestamps_
      PROVE  /\ ts(s).read_ts \in AccessTimes(s, "READ") \cup {0}
             /\ ts(s).write_ts \in AccessTimes(s, "WRITE") \cup {0}
             /\ \A u \in AccessTimes(s, "READ") : u \in Tids /\ u <= ts(s).read_ts
             /\ \A u \in AccessTimes(s, "WRITE") : u \in Tids /\ u <= ts(s).write_ts
    <2>1. \A u \in AccessTimes(s, "READ") \cup AccessTimes(s, "WRITE") : u \in Tids
        BY DEF ScheduleInvariant, AccessTimes, Scheduler!Accesses, Scheduler!Tids, Tids
    <2> QED
        BY <2>1 DEF ScheduleInvariant, TimestampsRecordYoungest
<1> HIDE DEF ts, new
<1>6. ASSUME NEW s \in DOMAIN object_timestamps_ \ {r}
      PROVE  /\ AccessTimes(s, "READ")' = AccessTimes(s, "READ")
             /\ AccessTimes(s, "WRITE")' = AccessTimes(s, "WRITE")
    <2>1. s \in Records /\ s # r
        BY DEF ManagerInvariant, MembersTyped
    <2> QED
        BY <1>3, <2>1 DEF Actions
<1>7. /\ new.read_ts \in AccessTimes(r, "READ")' \cup {0}
      /\ new.write_ts \in AccessTimes(r, "WRITE")' \cup {0}
      /\ \A u \in AccessTimes(r, "READ")' : u <= new.read_ts
      /\ \A u \in AccessTimes(r, "WRITE")' : u <= new.write_ts
    <2>1. CASE a = "READ"
        <3>1. /\ AccessTimes(r, "READ")' = AccessTimes(r, "READ") \cup {t}
              /\ AccessTimes(r, "WRITE")' = AccessTimes(r, "WRITE")
            BY <1>3, <2>1 DEF Actions
        <3>2. /\ new.write_ts = ts(r).write_ts
              /\ new.read_ts = IF t > ts(r).read_ts THEN t ELSE ts(r).read_ts
            BY <1>4, <2>1, StampValues DEF ts, new
        <3>3. \A u \in AccessTimes(r, "READ") : u \in Nat /\ u <= ts(r).read_ts
            BY <1>2, <1>5, MaxTransactionsAssumption DEF Tids
        <3> QED
            BY <1>2, <1>4, <1>5, <3>1, <3>2, <3>3
    <2>2. CASE a = "WRITE"
        <3>1. /\ AccessTimes(r, "WRITE")' = AccessTimes(r, "WRITE") \cup {t}
              /\ AccessTimes(r, "READ")' = AccessTimes(r, "READ")
            BY <1>3, <2>2 DEF Actions
        <3>2. new.read_ts = ts(r).read_ts /\ new.write_ts = t
            BY <1>4, <2>2, StampValues DEF ts, new
        <3>3. ts(r).write_ts <= t
            BY <1>1, <1>4 DEF TooLate, ts
        <3>4. \A u \in AccessTimes(r, "WRITE") : u \in Nat /\ u <= ts(r).write_ts
            BY <1>2, <1>5, MaxTransactionsAssumption DEF Tids
        <3> QED
            BY <1>2, <1>4, <1>5, <3>1, <3>2, <3>3, <3>4
    <2> QED
        BY <2>1, <2>2 DEF Actions
<1> QED
    BY <1>2, <1>5, <1>6, <1>7 DEF TimestampsRecordYoungest, ts

(* Every step keeps the schedule invariant.                                *)
LEMMA ScheduleInductive ==
    ManagerInvariant /\ ScheduleInvariant /\ [ScheduleNext]_allVars => ScheduleInvariant'
<1> SUFFICES ASSUME ManagerInvariant, ScheduleInvariant, [ScheduleNext]_allVars
             PROVE  ScheduleInvariant'
    OBVIOUS
<1> USE DEF ManagerInvariant
<1>1. ASSUME UNCHANGED <<schedule, object_timestamps_>>,
             current_timestamp_' >= current_timestamp_, current_timestamp_' \in Nat
      PROVE  ScheduleInvariant'
    <2>1. ASSUME NEW m \in accesses
          PROVE  m.tid <= current_timestamp_'
        <3>1. m.tid \in Nat /\ current_timestamp_ \in Nat
            BY MaxTransactionsAssumption
            DEF ScheduleInvariant, Scheduler!Accesses, Scheduler!Tids, MembersTyped
        <3> QED
            BY <1>1, <3>1 DEF ScheduleInvariant
    <2> QED
        BY <1>1, <2>1 DEF ScheduleInvariant, schedule, Logged, TimestampsRecordYoungest,
                          AccessTimes, ConflictsFollowTimestamps
<1>2. CASE BeginTransaction
    BY <1>1, <1>2, MaxTransactionsAssumption DEF BeginTransaction, begin_transaction, MembersTyped
<1>3. ASSUME NEW t \in Tids, EndTransaction(t)
      PROVE  ScheduleInvariant'
    BY <1>1, <1>3, MaxTransactionsAssumption DEF EndTransaction, end_transaction, MembersTyped
<1>4. ASSUME NEW t \in Tids, NEW r \in Records, NEW a \in Actions, AccessFailed(t, r, a)
      PROVE  ScheduleInvariant'
    BY <1>1, <1>4, MaxTransactionsAssumption DEF AccessFailed, FailAccess, MembersTyped
<1>5. ASSUME NEW t \in Tids, NEW r \in Records, LogObject(t, r)
      PROVE  ScheduleInvariant'
    <2>1. /\ log_object(t, r) /\ current_timestamp_' = current_timestamp_
          /\ accesses' = accesses /\ precedes' = precedes
        BY <1>5 DEF LogObject, log_object, schedule
    <2>2. \A m \in accesses : Logged(m.record)'
        BY <2>1, LogStamps DEF ScheduleInvariant, Logged
    <2>3. ASSUME NEW s \in DOMAIN object_timestamps_', s \in DOMAIN object_timestamps_
          PROVE  object_timestamps_'[s] = object_timestamps_[s]
        BY <2>1, <2>3, LogStamps
    <2>4. ASSUME NEW s \in DOMAIN object_timestamps_', s \notin DOMAIN object_timestamps_
          PROVE  /\ object_timestamps_'[s] = [read_ts |-> 0, write_ts |-> 0]
                 /\ AccessTimes(s, "READ") = {} /\ AccessTimes(s, "WRITE") = {}
        <3>1. s = r
            BY <2>1, <2>4, LogStamps
        <3>2. \A m \in accesses : m.record # s
            BY <2>4 DEF ScheduleInvariant, Logged
        <3> QED
            BY <2>1, <2>4, <3>1, <3>2, LogStamps DEF AccessTimes
    <2>5. TimestampsRecordYoungest'
        <3> SUFFICES ASSUME NEW s \in DOMAIN object_timestamps_'
                     PROVE  LET ts == object_timestamps_'[s]
                            IN  /\ ts.read_ts \in AccessTimes(s, "READ") \cup {0}
                                /\ ts.write_ts \in AccessTimes(s, "WRITE") \cup {0}
                                /\ \A t_1 \in AccessTimes(s, "READ") : t_1 <= ts.read_ts
                                /\ \A t_1 \in AccessTimes(s, "WRITE") : t_1 <= ts.write_ts
            BY <2>1 DEF TimestampsRecordYoungest, AccessTimes
        <3>1. CASE s \in DOMAIN object_timestamps_
            BY <2>3, <3>1 DEF ScheduleInvariant, TimestampsRecordYoungest
        <3>2. CASE s \notin DOMAIN object_timestamps_
            BY <2>4, <3>2
        <3> QED
            BY <3>1, <3>2
    <2> QED
        BY <2>1, <2>2, <2>5 DEF ScheduleInvariant, ConflictsFollowTimestamps
<1>6. ASSUME NEW t \in Tids, NEW r \in Records, NEW a \in Actions, AccessAllowed(t, r, a)
      PROVE  ScheduleInvariant'
    <2> DEFINE before == Scheduler!Predecessors(accesses, t, r, a)
    <2>1. /\ AllowAccess(t, r, a) /\ current_timestamp_' = current_timestamp_
          /\ DOMAIN object_timestamps_' = DOMAIN object_timestamps_ /\ Logged(r)
          /\ accesses' = accesses \cup {Scheduler!Access(t, r, a)}
          /\ precedes' = precedes \cup (before \X {t})
        BY <1>6, AllowStamps DEF AccessAllowed, AllowAccess
    <2>2. \A u \in before : u \in Tids /\ u < t
        BY <2>1, PredecessorsOlder
    <2> HIDE DEF before
    <2>3. accesses' \subseteq Scheduler!Accesses
        BY <2>1 DEF ScheduleInvariant, Scheduler!Accesses, Scheduler!Access, Scheduler!Tids, Tids,
                    Scheduler!Actions, Actions
    <2>4. t <= current_timestamp_
        BY <2>1 DEF AllowAccess, NoFutureTimestamps, Known
    <2>5. \A m \in accesses' : Logged(m.record)' /\ m.tid <= current_timestamp_'
        BY <2>1, <2>4 DEF ScheduleInvariant, Logged, Scheduler!Access
    <2>6. TimestampsRecordYoungest'
        BY <1>6, StampRecordsYoungest
    <2>7. precedes' \subseteq Tids \X Tids /\ ConflictsFollowTimestamps'
        BY <2>1, <2>2 DEF ScheduleInvariant, ConflictsFollowTimestamps
    <2> QED
        BY <2>3, <2>5, <2>6, <2>7 DEF ScheduleInvariant
<1>7. CASE UNCHANGED allVars
    BY <1>1, <1>7, MaxTransactionsAssumption DEF allVars, schedule, MembersTyped
<1> QED
    BY <1>2, <1>3, <1>4, <1>5, <1>6, <1>7 DEF ScheduleNext

(* The schedule invariant holds from the empty schedule on.                *)
LEMMA ScheduleInvariantHolds == ScheduleSpec => []ScheduleInvariant
<1>1. ScheduleInit => ScheduleInvariant
    BY DEF ScheduleInit, Init, ScheduleInvariant, TimestampsRecordYoungest,
           ConflictsFollowTimestamps
<1> QED
    BY <1>1, ScheduleInductive, ManagerInvariantHolds, PTL DEF ScheduleSpec

(* The timestamps of an object are those of its youngest accesses.         *)
THEOREM ObjectsRememberYoungest == ScheduleSpec => []TimestampsRecordYoungest
<1>1. ScheduleInvariant => TimestampsRecordYoungest
    BY DEF ScheduleInvariant
<1> QED
    BY <1>1, ScheduleInvariantHolds, PTL

(* Conflicting accesses are made in the order of the timestamps.           *)
THEOREM TimestampsOrderConflicts == ScheduleSpec => []ConflictsFollowTimestamps
<1>1. ScheduleInvariant => ConflictsFollowTimestamps
    BY DEF ScheduleInvariant
<1> QED
    BY <1>1, ScheduleInvariantHolds, PTL

(* Nobody fails without a younger transaction's conflicting access.        *)
THEOREM FailuresHaveAYoungerRival == ScheduleSpec => RejectionsAreJustified
<1> DEFINE Justified ==
        \A t \in Tids, r \in Records, a \in Actions :
            AccessFailed(t, r, a) =>
                \E m \in accesses :
                    /\ m.record = r
                    /\ m.tid > t
                    /\ Scheduler!Conflicting(m.action, a)
<1>1. ManagerInvariant /\ ScheduleInvariant => Justified
    <2> SUFFICES ASSUME ManagerInvariant, ScheduleInvariant,
                        NEW t \in Tids, NEW r \in Records, NEW a \in Actions,
                        AccessFailed(t, r, a)
                 PROVE  \E m \in accesses :
                            /\ m.record = r
                            /\ m.tid > t
                            /\ Scheduler!Conflicting(m.action, a)
        OBVIOUS
    <2> DEFINE ts == object_timestamps_[r]
    <2>1. r \in DOMAIN object_timestamps_ /\ TooLate(t, r, a) /\ t \in Nat /\ t > 0
        BY MaxTransactionsAssumption DEF AccessFailed, FailAccess, Logged, Tids
    <2>2. /\ ts.read_ts \in AccessTimes(r, "READ") \cup {0}
          /\ ts.write_ts \in AccessTimes(r, "WRITE") \cup {0}
        BY <2>1 DEF ScheduleInvariant, TimestampsRecordYoungest
    <2> HIDE DEF ts
    <2>3. CASE t < ts.write_ts
        <3>1. ts.write_ts \in AccessTimes(r, "WRITE")
            BY <2>1, <2>2, <2>3
        <3>2. PICK m \in accesses : m.record = r /\ m.action = "WRITE" /\ m.tid = ts.write_ts
            BY <3>1, AccessTimesMembers
        <3>3. m.tid \in Nat
            BY MaxTransactionsAssumption DEF ScheduleInvariant, Scheduler!Accesses, Scheduler!Tids
        <3> QED
            BY <2>1, <2>3, <3>2, <3>3 DEF Scheduler!Conflicting
    <2>4. CASE a = "WRITE" /\ t < ts.read_ts
        <3>1. ts.read_ts \in AccessTimes(r, "READ")
            BY <2>1, <2>2, <2>4
        <3>2. PICK m \in accesses : m.record = r /\ m.action = "READ" /\ m.tid = ts.read_ts
            BY <3>1, AccessTimesMembers
        <3>3. m.tid \in Nat
            BY MaxTransactionsAssumption DEF ScheduleInvariant, Scheduler!Accesses, Scheduler!Tids
        <3> QED
            BY <2>1, <2>4, <3>2, <3>3 DEF Scheduler!Conflicting
    <2> QED
        BY <2>1, <2>3, <2>4 DEF TooLate, ts
<1> QED
    BY <1>1, ManagerInvariantHolds, ScheduleInvariantHolds, PTL
    DEF ScheduleSpec, RejectionsAreJustified

-----------------------------------------------------------------------------
(* Refinement.                                                             *)

(* An order that follows the timestamps has no cycle: of any set of        *)
(* transactions the youngest precedes no other.                            *)
LEMMA TimestampOrderSerializable ==
    ASSUME NEW order, \A p \in order : p[1] < p[2]
    PROVE  Scheduler!Serializable(order)
<1> SUFFICES ASSUME NEW C \in SUBSET Tids, C # {}
             PROVE  \E u \in C : \A t \in C : <<u, t>> \notin order
    BY DEF Scheduler!Serializable, Scheduler!Tids, Tids
<1>1. C \in SUBSET (0..MaxTransactions)
    BY MaxTransactionsAssumption DEF Tids
<1>2. PICK u \in C : \A t \in C : t =< u
    BY <1>1, GreatestBelow, MaxTransactionsAssumption
<1>3. ASSUME NEW t \in C, <<u, t>> \in order
      PROVE  FALSE
    <2>1. u < t
        BY <1>3
    <2>2. t \in Nat /\ u \in Nat
        BY <1>1
    <2> QED
        BY <1>2, <2>1, <2>2
<1> QED
    BY <1>3

(* The transactions the scheduler sees running.                            *)
Running == {t \in Tids : get_transaction_status(t) = "ACTIVE"}

(* Every step of the schedule is a step of the scheduler or a stutter.     *)
LEMMA StepRefines ==
    ManagerInvariant /\ ScheduleInvariant /\ ScheduleInvariant' /\ [ScheduleNext]_allVars
        => [Scheduler!Next]_Scheduler!vars
<1> SUFFICES ASSUME ManagerInvariant, ScheduleInvariant, ScheduleInvariant',
                    [ScheduleNext]_allVars
             PROVE  [Scheduler!Next]_Scheduler!vars
    OBVIOUS
<1> USE DEF ManagerInvariant
<1>1. ASSUME UNCHANGED <<transactions_, schedule>>
      PROVE  UNCHANGED Scheduler!vars
    BY <1>1 DEF schedule, Scheduler!vars, get_transaction_status
<1>2. ASSUME NEW t \in Tids, NEW s \in {"TERMINATED", "FAILED"}, UNCHANGED schedule,
             transactions_' = [transactions_ EXCEPT ![t] = s]
      PROVE  [Scheduler!Next]_Scheduler!vars
    <2>1. Running' = Running \ {t}
        BY <1>2 DEF Running, get_transaction_status, MembersTyped
    <2>2. CASE t \in Running
        <3>1. Scheduler!Finish(t)
            BY <1>2, <2>1, <2>2 DEF Scheduler!Finish, Running, schedule
        <3> QED
            BY <3>1 DEF Scheduler!Next, Scheduler!Tids, Tids
    <2>3. CASE t \notin Running
        <3>1. Running' = Running
            BY <2>1, <2>3
        <3> QED
            BY <1>2, <3>1 DEF Running, schedule, Scheduler!vars
    <2> QED
        BY <2>2, <2>3
<1>3. CASE BeginTransaction
    <2> DEFINE new == current_timestamp_'
    <2>1. /\ new \in Tids /\ new > current_timestamp_ /\ new \in Nat /\ current_timestamp_ \in Nat
          /\ transactions_' = [transactions_ EXCEPT ![new] = "ACTIVE"] /\ UNCHANGED schedule
        BY <1>3, MaxTransactionsAssumption
        DEF BeginTransaction, begin_transaction, MembersTyped, Tids
    <2> HIDE DEF new
    <2>2. get_transaction_status(new) = "TERMINATED"
        BY <2>1 DEF NoFutureTimestamps, Known
    <2>3. Running' = Running \cup {new}
        BY <2>1 DEF Running, get_transaction_status, MembersTyped
    <2>4. \A acc \in accesses : acc.tid # new
        BY <2>1 DEF ScheduleInvariant
    <2>5. Scheduler!Begin(new)
        BY <2>1, <2>2, <2>3, <2>4 DEF Scheduler!Begin, Running, schedule
    <2> QED
        BY <2>1, <2>5 DEF Scheduler!Next, Scheduler!Tids, Tids
<1>4. ASSUME NEW t \in Tids, EndTransaction(t)
      PROVE  [Scheduler!Next]_Scheduler!vars
    BY <1>2, <1>4 DEF EndTransaction, end_transaction
<1>5. ASSUME NEW t \in Tids, NEW r \in Records, NEW a \in Actions, AccessFailed(t, r, a)
      PROVE  [Scheduler!Next]_Scheduler!vars
    BY <1>2, <1>5 DEF AccessFailed, FailAccess
<1>6. ASSUME NEW t \in Tids, NEW r \in Records, LogObject(t, r)
      PROVE  [Scheduler!Next]_Scheduler!vars
    BY <1>1, <1>6 DEF LogObject, log_object
<1>7. ASSUME NEW t \in Tids, NEW r \in Records, NEW a \in Actions, AccessAllowed(t, r, a)
      PROVE  [Scheduler!Next]_Scheduler!vars
    <2>1. /\ get_transaction_status(t) = "ACTIVE" /\ transactions_' = transactions_
          /\ accesses' = accesses \cup {Scheduler!Access(t, r, a)}
          /\ precedes' = precedes \cup (Scheduler!Predecessors(accesses, t, r, a) \X {t})
        BY <1>7 DEF AccessAllowed, AllowAccess
    <2>2. Running' = Running
        BY <2>1 DEF Running, get_transaction_status
    <2>3. \A p \in precedes' : p[1] < p[2]
        BY DEF ScheduleInvariant, ConflictsFollowTimestamps
    <2>4. Scheduler!Serializable(precedes')
        BY <2>3, TimestampOrderSerializable
    <2>5. Scheduler!Grant(t, r, a)
        BY <2>1, <2>2, <2>4 DEF Scheduler!Grant, Running
    <2> QED
        BY <2>5 DEF Scheduler!Next, Scheduler!Tids, Tids, Scheduler!Actions, Actions
<1>8. CASE UNCHANGED allVars
    BY <1>1, <1>8 DEF allVars, schedule
<1> QED
    BY <1>3, <1>4, <1>5, <1>6, <1>7, <1>8 DEF ScheduleNext

(* Timestamp ordering lets only serializable schedules through.            *)
THEOREM TimestampsAreSerializable == ScheduleSpec => ImplementsScheduler
<1>1. ScheduleInit => Scheduler!Init
    BY DEF ScheduleInit, Init, Scheduler!Init, get_transaction_status
<1> QED
    BY <1>1, StepRefines, ManagerInvariantHolds, ScheduleInvariantHolds, PTL
    DEF ScheduleSpec, ImplementsScheduler, Scheduler!Spec

=============================================================================
