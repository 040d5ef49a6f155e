------------------------------- MODULE MdbSpec ------------------------------
(* What glim::Mdb promises of the database: it goes from one state to the    *)
(* next by whole operations, each of them together with the changes that the *)
(* triggers in force make to their indexes, or not at all.  Nothing is said  *)
(* here of transactions, locks and failures: Mdb.tla implements it.          *)
EXTENDS Integers

CONSTANTS Pairs, Indexes, MaxOps

VARIABLES
    table,      \* the set of <<key, value>> in the database
    index,      \* per index, its set of <<value, key>>
    kept        \* the indexes that triggers keep

Operations ==
    {[op |-> "add", k |-> p[1], v |-> p[2]] : p \in Pairs}
    \cup {[op |-> "eraseKV", k |-> p[1], v |-> p[2]] : p \in Pairs}
    \cup {[op |-> "erase", k |-> p[1]] : p \in Pairs}

Init == /\ table = {} /\ index = [ix \in Indexes |-> {}] /\ kept = {}

\* The pairs an operation is about.
Subject(db, o) ==
    IF o.op = "erase" THEN {p \in db.table : p[1] = o.k} ELSE {<<o.k, o.v>>}

\* The pairs S are put into the table, or taken out of it, and the kept indexes follow.
Perform(db, o) ==
    LET S == Subject(db, o)
        mirrored == {<<p[2], p[1]>> : p \in S}
    IN  IF o.op = "add"
        THEN [table |-> db.table \cup S,
              index |-> [ix \in Indexes |->
                            IF ix \in kept THEN db.index[ix] \cup mirrored ELSE db.index[ix]]]
        ELSE [table |-> db.table \ S,
              index |-> [ix \in Indexes |->
                            IF ix \in kept THEN db.index[ix] \ mirrored ELSE db.index[ix]]]

\* What n operations in a row can make of the database.
After[n \in 0 .. MaxOps] ==
    IF n = 0 THEN {[table |-> table, index |-> index]}
             ELSE {Perform(db, o) : db \in After[n - 1], o \in Operations}

\* A transaction: whole operations in a row, seen by others at once.
Transaction ==
    /\ \E n \in 1 .. MaxOps : \E db \in After[n] : table' = db.table /\ index' = db.index
    /\ UNCHANGED kept

\* Triggers are set, replaced, or gone with the process.
Retrigger ==
    /\ kept' \in SUBSET Indexes
    /\ UNCHANGED <<table, index>>

Next == Transaction \/ Retrigger

Spec == Init /\ [][Next]_<<table, index, kept>>
=============================================================================
