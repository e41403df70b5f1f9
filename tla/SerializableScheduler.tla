------------------------ MODULE SerializableScheduler ------------------------
(***************************************************************************)
(* What the ConcurrencyControlManager promises its callers, whichever      *)
(* protocol is plugged in behind the CCManager interface: transactions     *)
(* begin, are granted READ and WRITE accesses to records, and finish.  The *)
(* scheduler may refuse any access, but the accesses it grants must leave  *)
(* an order in which the transactions could have run one after another.    *)
(*                                                                         *)
(* TwoPhaseLockingSchedule and TimestampOrderingSchedule implement this    *)
(* module.                                                                 *)
(***************************************************************************)
EXTENDS Integers, FiniteSets

CONSTANTS
    Records,            \* the objects access is requested for (row hashes)
    MaxTransactions     \* how many transactions the behaviour may begin

VARIABLES
    running,            \* the transactions that may still be granted accesses
    accesses,           \* every access granted so far
    precedes            \* u -> t: an access of u came before a conflicting one of t

vars == <<running, accesses, precedes>>

Tids == 1..MaxTransactions
Actions == {"READ", "WRITE"}
Accesses == [tid : Tids, record : Records, action : Actions]

(* Two accesses of one record conflict unless both only read it. *)
Conflicting(a, b) == a = "WRITE" \/ b = "WRITE"

(* The transactions that t must come after once it accesses r with action  *)
(* a, given the accesses granted before.                                   *)
Predecessors(granted, t, r, a) ==
    {u \in Tids \ {t} : \E acc \in granted :
        acc.tid = u /\ acc.record = r /\ Conflicting(acc.action, a)}

(* A precedence relation is serializable when it has no cycle: every       *)
(* nonempty set of transactions has one that precedes no other of the set. *)
Serializable(order) ==
    \A C \in SUBSET Tids :
        C # {} => \E u \in C : \A t \in C : <<u, t>> \notin order

Access(t, r, a) == [tid |-> t, record |-> r, action |-> a]

-----------------------------------------------------------------------------

Init ==
    /\ running = {}
    /\ accesses = {}
    /\ precedes = {}

Begin(t) ==
    /\ t \notin running
    /\ \A acc \in accesses : acc.tid # t
    /\ running' = running \cup {t}
    /\ UNCHANGED <<accesses, precedes>>

Grant(t, r, a) ==
    /\ t \in running
    /\ accesses' = accesses \cup {Access(t, r, a)}
    /\ precedes' = precedes \cup (Predecessors(accesses, t, r, a) \X {t})
    /\ Serializable(precedes')
    /\ UNCHANGED running

(* The transaction committed, was aborted or was told it has failed. *)
Finish(t) ==
    /\ t \in running
    /\ running' = running \ {t}
    /\ UNCHANGED <<accesses, precedes>>

Next ==
    \E t \in Tids :
        \/ Begin(t)
        \/ Finish(t)
        \/ \E r \in Records, a \in Actions : Grant(t, r, a)

Spec == Init /\ [][Next]_vars

=============================================================================
