-------------------------------- MODULE Mdb --------------------------------
(* Mdb (mdb.hpp): a table of an LMDB environment with triggers, here those   *)
(* of SimpleIndexTrigger, which keep the reverse index of the table in       *)
(* databases of their own.  LMDB is external: a write transaction, which     *)
(* beginTransaction() opens, waits until no other one is open and is seen by *)
(* others when it is committed; one of MDB_RDONLY sees what was committed    *)
(* when it was begun.  Nobody sees an open write transaction from inside, so *)
(* that an operation within it is one action.                                *)
EXTENDS Integers, SequencesExt

CONSTANTS
    Threads,
    Pairs,          \* the <<key, value>> that callers use; numbers, for their order
    Indexes,        \* the databases of the index triggers
    TriggerName,    \* of each index: what its trigger's getTriggerName() returns
    Dup,            \* the parameter dup of the constructor
    Habits,         \* what callers do that the code does not survive
    MaxOps,         \* bound: the operations in a transaction of the user
    MaxUnindexed,   \* bound: the rows that there are when a trigger is first set
    None

ASSUME MdbAssumption ==
    /\ Pairs \subseteq Nat \X Nat /\ MaxOps \in Nat /\ MaxOps > 0 /\ MaxUnindexed \in Nat
    /\ TriggerName \in [Indexes -> Nat] /\ Dup \in BOOLEAN
    /\ Habits \subseteq {"commitAfterThrow", "writeWhileIterating", "writeBeforeSetTrigger"}
    /\ None \notin Threads

VARIABLES
    table, index,   \* what is committed: <<key, value>>, and <<value, key>> per index
    triggers,       \* _triggers: from names to the indexes of the triggers
    writer,         \* who has the write transaction open
    work,           \* what that transaction made of the table and the indexes
    pc, call,       \* per thread: where it is, in which call
    cursor,         \* per thread: its iterator, or the cursor of all() and first()
    fresh, lost,    \* ghosts: the indexes never set; those of the triggers that
                    \* were gone with the process
    before          \* ghost: per index, the table when its trigger was first set

vars == <<table, index, triggers, writer, work, pc, call, cursor, fresh, lost, before>>

Keys == {p[1] : p \in Pairs}
Values == {p[2] : p \in Pairs}
Operations ==
    {[op |-> "add", k |-> p[1], v |-> p[2]] : p \in Pairs}
    \cup {[op |-> "eraseKV", k |-> p[1], v |-> p[2]] : p \in Pairs}
    \cup {[op |-> "erase", k |-> p[1]] : p \in Pairs}
Reads == [op : {"all", "first"}, k : Keys]
Iterations == {[op |-> "begin"]} \cup [op : {"values"}, k : Keys]
NoCall == [op |-> "none"]
NoTriggers == [n \in {} |-> None]

Mirror(pairs) == {<<p[2], p[1]>> : p \in pairs}
PairsOf(tab, k) == {p \in tab : p[1] = k}

Init ==
    /\ table = {} /\ index = [ix \in Indexes |-> {}]
    /\ triggers = NoTriggers /\ fresh = Indexes /\ lost = {} /\ before = [ix \in Indexes |-> {}]
    /\ writer = None /\ work = [table |-> table, index |-> index, ops |-> 0]
    /\ pc = [t \in Threads |-> "idle"] /\ call = [t \in Threads |-> NoCall]
    /\ cursor = [t \in Threads |-> None]
-----------------------------------------------------------------------------
(* The operations of a write transaction.                                    *)

\* What SimpleIndexTrigger makes of its index; erase() takes the values from a
\* cursor on the table.
Triggered(ix, o, w) ==
    CASE o.op = "add"     -> w.index[ix] \cup {<<o.v, o.k>>}
      [] o.op = "eraseKV" -> w.index[ix] \ {<<o.v, o.k>>}
      [] o.op = "erase"   -> w.index[ix] \ Mirror(PairsOf(w.table, o.k))

\* What it leaves when a call of LMDB fails: erase() may have begun.
HalfTriggered(ix, o, w) ==
    IF o.op = "erase"
    THEN {w.index[ix] \ Mirror({p \in PairsOf(w.table, o.k) : p[2] < b}) : b \in Values}
    ELSE {w.index[ix]}

\* mdb_put and mdb_del; a key that is not there is only told to the caller.
Stored(tab, o) ==
    CASE o.op = "add"     -> (IF Dup THEN tab ELSE tab \ PairsOf(tab, o.k)) \cup {<<o.k, o.v>>}
      [] o.op = "eraseKV" -> tab \ {<<o.k, o.v>>}
      [] o.op = "erase"   -> tab \ PairsOf(tab, o.k)

\* The operation with every trigger, in the order of the code: they see the
\* table before it is changed.  Mutation: after.
Done_PutFirst(o, w) ==
    LET stored == [w EXCEPT !.table = Stored(w.table, o)]
    IN  [stored EXCEPT !.index = [ix \in Indexes |->
            IF ix \in Range(triggers) THEN Triggered(ix, o, stored) ELSE w.index[ix]],
                       !.ops = w.ops + 1]
Done(o, w) ==
    [table |-> Stored(w.table, o),
     index |-> [ix \in Indexes |-> IF ix \in Range(triggers) THEN Triggered(ix, o, w)
                                                             ELSE w.index[ix]],
     ops   |-> w.ops + 1]

\* What is left when trigger n throws, the ones with lesser names being done;
\* or mdb_put or mdb_del after all of them.
Thrown(o, w) ==
    LET Ran(n) == {triggers[m] : m \in {l \in DOMAIN triggers : l < n}}
        Some(n) == [ix \in Indexes |-> IF ix \in Ran(n) THEN Triggered(ix, o, w) ELSE w.index[ix]]
    IN  {[w EXCEPT !.index = Done(o, w).index, !.ops = w.ops + 1]}
        \cup UNION {{[w EXCEPT !.index = [Some(n) EXCEPT ![triggers[n]] = half], !.ops = w.ops + 1] :
                        half \in HalfTriggered(triggers[n], o, w)} : n \in DOMAIN triggers}
-----------------------------------------------------------------------------
(* Write transactions, of one operation or of the user.                      *)

\* The transaction is gone, committed or not.
Close(t) ==
    /\ writer' = None /\ work' = [table |-> table', index |-> index', ops |-> 0]
    /\ pc' = [pc EXCEPT ![t] = "idle"] /\ call' = [call EXCEPT ![t] = NoCall]

\* The destructor of Transaction: mdb_txn_abort.
Abort(t) == UNCHANGED <<table, index>> /\ Close(t)

\* An exception leaves add() and so on, and with it the scope of the
\* Transaction.  Mutation: it is committed as it is.
Unwind_Commits(t, o) ==
    \E w \in Thrown(o, work) : table' = w.table /\ index' = w.index /\ Close(t)
Unwind(t, o) == Abort(t)

\* A call of add(k, v), eraseKV(k, v), erase(k), begin(), values(k) or of
\* beginTransaction() by the user is in mdb_txn_begin, which may throw.  What
\* for is chosen when it returns.
CallBegin(t) ==
    /\ \/ pc[t] = "idle"
       \/ pc[t] = "iterating" /\ "writeWhileIterating" \in Habits
    /\ pc' = [pc EXCEPT ![t] = "beginning"]
    /\ UNCHANGED <<table, index, triggers, writer, work, call, cursor, fresh, lost, before>>

\* An exception, which leaves an iteration alone.
BeginFails(t) ==
    /\ pc[t] = "beginning"
    /\ pc' = [pc EXCEPT ![t] = IF writer = t /\ cursor[t] # None THEN "iterating"
                                                                   ELSE "idle"]
    /\ UNCHANGED <<table, index, triggers, writer, work, call, cursor, fresh, lost, before>>

\* It returned, to an operation or to the user.
BeginTransaction(t, c) ==
    /\ pc[t] = "beginning" /\ writer = None
    /\ lost = {} \/ "writeBeforeSetTrigger" \in Habits
    /\ writer' = t
    /\ pc' = [pc EXCEPT ![t] = "writing"] /\ call' = [call EXCEPT ![t] = c]
    /\ UNCHANGED <<table, index, triggers, work, cursor, fresh, lost, before>>

\* An operation in the transaction of thread t, which throws or does not.
Operate(t, o) ==
    \/ /\ work' = Done(o, work)
       /\ pc' = [pc EXCEPT ![t] = IF call[t].op = "txn" THEN "writing" ELSE "committing"]
       /\ UNCHANGED <<table, index, writer, call>>
    \/ Unwind(t, o)
    \/ /\ call[t].op = "txn" /\ "commitAfterThrow" \in Habits
       /\ work' \in Thrown(o, work)
       /\ UNCHANGED <<table, index, writer, pc, call>>

\* add, eraseKV and erase with a transaction of their own.
Write(t) ==
    /\ pc[t] = "writing" /\ call[t] \in Operations
    /\ Operate(t, call[t])
    /\ UNCHANGED <<triggers, cursor, fresh, lost, before>>

\* add, eraseKV and erase with the user's.
WriteIn(t, o) ==
    /\ pc[t] = "writing" /\ call[t].op = "txn" /\ work.ops < MaxOps
    /\ Operate(t, o)
    /\ UNCHANGED <<triggers, cursor, fresh, lost, before>>

\* commitTransaction: mdb_txn_commit may fail, and the transaction is gone all the same.
Commit(t) ==
    /\ \/ pc[t] = "committing"
       \/ pc[t] = "writing" /\ call[t].op = "txn"
    /\ \/ table' = work.table /\ index' = work.index /\ Close(t)
       \/ Abort(t)
    /\ UNCHANGED <<triggers, cursor, fresh, lost, before>>
-----------------------------------------------------------------------------
(* Cursors.  rows is what the transaction sees, in the order of the bytes;   *)
(* live is false of an Iterator whose _entry was cleared.                    *)
Before(p, q) == p[1] < q[1] \/ (p[1] = q[1] /\ p[2] < q[2])
Sorted(rows) == \A i, j \in DOMAIN rows : i < j => Before(rows[i], rows[j])
Rows(tab) == CHOOSE rows \in [1 .. Cardinality(tab) -> tab] : Sorted(rows)

\* MDB_FIRST and MDB_SET_KEY: the first row, or the first one of the key.
FirstRow(rows) == IF rows = << >> THEN 0 ELSE 1
KeyRow(rows, k) == SelectInSeq(rows, LAMBDA p : p[1] = k)

Cursor(rows, pos, stay) ==
    [rows |-> rows, pos |-> pos, live |-> pos # 0, stay |-> stay, forth |-> TRUE,
     seen |-> IF pos = 0 THEN << >> ELSE <<rows[pos]>>]

\* MDB_NEXT and MDB_PREV, or MDB_NEXT_DUP and MDB_PREV_DUP when it stays in the
\* key.  Beyond an end, MDB_NEXT and MDB_PREV go back to it (mdb.hpp:419-426).
Moved(c, d) ==
    LET to == c.pos + d
        there == /\ to \in DOMAIN c.rows
                 /\ c.stay => c.rows[to][1] = c.rows[c.pos][1]
    IN  [c EXCEPT !.live = there,
                  !.pos = IF there \/ (~c.stay /\ to \in 0 .. Len(c.rows) + 1) THEN to ELSE c.pos,
                  !.forth = c.forth /\ d = 1,
                  !.seen = IF there /\ c.forth /\ d = 1 THEN Append(c.seen, c.rows[to])
                                                     ELSE c.seen]

\* mdb_txn_begin returned to begin() or values(k).  begin() throws when there is
\* no row, its transaction being committed by ~IteratorImpl.
Opened(c) ==
    LET rows == Rows(table)
    IN  IF c.op = "begin" THEN Cursor(rows, FirstRow(rows), FALSE)
                          ELSE Cursor(rows, KeyRow(rows, c.k), TRUE)

\* Mutation: the transaction is MDB_RDONLY and does not keep writers out.
OpenIterator_ReadOnly(t, c) ==
    /\ pc[t] = "beginning" /\ (c.op = "begin" => table # {})
    /\ pc' = [pc EXCEPT ![t] = "iterating"] /\ call' = [call EXCEPT ![t] = c]
    /\ cursor' = [cursor EXCEPT ![t] = Opened(c)]
    /\ UNCHANGED <<table, index, triggers, writer, work, fresh, lost, before>>
OpenIterator(t, c) ==
    /\ pc[t] = "beginning" /\ writer = None
    /\ IF c.op = "begin" /\ table = {}
       THEN /\ pc' = [pc EXCEPT ![t] = "idle"]
            /\ UNCHANGED <<writer, call, cursor>>
       ELSE /\ writer' = t
            /\ pc' = [pc EXCEPT ![t] = "iterating"] /\ call' = [call EXCEPT ![t] = c]
            /\ cursor' = [cursor EXCEPT ![t] = Opened(c)]
    /\ UNCHANGED <<table, index, triggers, work, fresh, lost, before>>

\* ++ and --.  What a cursor does that left its key is not known, and no range does it.
Move(t, d) ==
    /\ pc[t] = "iterating" /\ (cursor[t].stay => cursor[t].live)
    /\ cursor' = [cursor EXCEPT ![t] = Moved(cursor[t], d)]
    /\ UNCHANGED <<table, index, triggers, writer, work, pc, call, fresh, lost, before>>

\* The last copy of the Iterator is gone: ~IteratorImpl commits.  Mutation: it
\* only closes the cursor.
CloseIterator_KeepsTxn(t) ==
    /\ pc[t] = "iterating"
    /\ pc' = [pc EXCEPT ![t] = "idle"] /\ call' = [call EXCEPT ![t] = NoCall]
    /\ cursor' = [cursor EXCEPT ![t] = None]
    /\ UNCHANGED <<table, index, triggers, writer, work, fresh, lost, before>>
CloseIterator(t) ==
    /\ pc[t] = "iterating"
    /\ Abort(t) /\ cursor' = [cursor EXCEPT ![t] = None]
    /\ UNCHANGED <<triggers, fresh, lost, before>>

\* all(k) and first(k), which never wait, as far as the first value.
CallRead(t, c) ==
    /\ pc[t] = "idle"
    /\ LET rows == Rows(table)
       IN  cursor' = [cursor EXCEPT ![t] = Cursor(rows, KeyRow(rows, c.k), TRUE)]
    /\ pc' = [pc EXCEPT ![t] = "reading"] /\ call' = [call EXCEPT ![t] = c]
    /\ UNCHANGED <<table, index, triggers, writer, work, fresh, lost, before>>

\* The visitor wants more, and MDB_NEXT_DUP finds more or does not.
Visit(t) ==
    /\ pc[t] = "reading" /\ call[t].op = "all" /\ cursor[t].live
    /\ cursor' = [cursor EXCEPT ![t] = Moved(cursor[t], 1)]
    /\ UNCHANGED <<table, index, triggers, writer, work, pc, call, fresh, lost, before>>

\* Nothing is left, the visitor has enough, or something throws.
EndRead(t) ==
    /\ pc[t] = "reading"
    /\ pc' = [pc EXCEPT ![t] = "idle"] /\ call' = [call EXCEPT ![t] = NoCall]
    /\ cursor' = [cursor EXCEPT ![t] = None]
    /\ UNCHANGED <<table, index, triggers, writer, work, fresh, lost, before>>
-----------------------------------------------------------------------------
(* Triggers, and the end of the process.                                     *)

\* setTrigger: a trigger that has the name replaces the one that had it.  It is
\* not synchronized, so that nobody may be in a call.
SetTrigger(ix) ==
    /\ ix \in lost \/ (ix \in fresh /\ Cardinality(table) <= MaxUnindexed)
    /\ \A t \in Threads : pc[t] = "idle"
    /\ triggers' = [n \in DOMAIN triggers \cup {TriggerName[ix]} |->
                       IF n = TriggerName[ix] THEN ix ELSE triggers[n]]
    /\ before' = IF ix \in fresh THEN [before EXCEPT ![ix] = table] ELSE before
    /\ fresh' = fresh \ {ix} /\ lost' = lost \ {ix}
    /\ UNCHANGED <<table, index, writer, work, pc, call, cursor>>

\* The process dies and is started again: what was committed is there.
Restart ==
    /\ writer' = None /\ work' = [table |-> table, index |-> index, ops |-> 0]
    /\ pc' = [t \in Threads |-> "idle"] /\ call' = [t \in Threads |-> NoCall]
    /\ cursor' = [t \in Threads |-> None]
    /\ triggers' = NoTriggers /\ lost' = lost \cup Range(triggers)
    /\ UNCHANGED <<table, index, fresh, before>>

Next ==
    \/ \E t \in Threads :
          \/ CallBegin(t) \/ BeginFails(t)
          \/ \E c \in Operations \cup {[op |-> "txn"]} : BeginTransaction(t, c)
          \/ Write(t) \/ Commit(t)
          \/ \E o \in Operations : WriteIn(t, o)
          \/ \E c \in Iterations : OpenIterator(t, c)
          \/ CloseIterator(t) \/ \E d \in {1, -1} : Move(t, d)
          \/ \E c \in Reads : CallRead(t, c)
          \/ Visit(t) \/ EndRead(t)
    \/ \E ix \in Indexes : SetTrigger(ix)
    \/ Restart

Spec == Init /\ [][Next]_vars

\* Who is in a call is scheduled, and a user ends the transactions and
\* iterations that it began.  Nothing is said of who gets the write transaction.
Fairness ==
    \A t \in Threads : WF_vars(Write(t)) /\ WF_vars(Commit(t)) /\ WF_vars(CloseIterator(t))

FairSpec == Spec /\ Fairness
-----------------------------------------------------------------------------
(* Properties.                                                               *)

\* Types.
Shape ==
    /\ table \subseteq Pairs /\ work.table \subseteq Pairs
    /\ index \in [Indexes -> SUBSET Mirror(Pairs)]
    /\ work = [table |-> work.table, index |-> work.index, ops |-> work.ops]
    /\ work.index \in [Indexes -> SUBSET Mirror(Pairs)] /\ work.ops \in Nat
    /\ DOMAIN triggers \subseteq Nat /\ Range(triggers) \subseteq Indexes
    /\ \A n \in DOMAIN triggers : TriggerName[triggers[n]] = n
    /\ fresh \subseteq Indexes /\ lost \subseteq Indexes
    /\ before \in [Indexes -> SUBSET Pairs]
    /\ writer \in Threads \cup {None}
    /\ pc \in [Threads -> {"idle", "beginning", "writing", "committing", "iterating",
                            "reading"}]
    /\ call \in [Threads -> Operations \cup Reads \cup Iterations \cup {NoCall, [op |-> "txn"]}]

\* The write transaction belongs to who is in one.
Locked == \A t \in Threads : writer = t <=> pc[t] \in {"writing", "committing", "iterating"}

\* What is committed differs from the open transaction only when there is one.
Unchanged ==
    (writer = None \/ pc[writer] = "iterating") => work.table = table /\ work.index = index

\* An index that nobody keeps yet is empty, the ones that somebody keeps, or will
\* after a restart, were set; nobody writes before they are set again.
Kept == Range(triggers) \cup lost
Untouched ==
    /\ Kept \cap fresh = {}
    /\ \A ix \in fresh : index[ix] = {} /\ work.index[ix] = {}
    /\ lost # {} => (writer = None \/ pc[writer] = "iterating")

\* An index has every pair that was added since its trigger was set, and no
\* pair that the table has not.
Follows(idx, ix, tab) == Mirror(tab \ before[ix]) \subseteq idx /\ idx \subseteq Mirror(tab)

\* Between two operations the open transaction, too, has its indexes right.
Followed ==
    \A ix \in Kept : Follows(index[ix], ix, table) /\ Follows(work.index[ix], ix, work.table)

\* The inductive invariant.
IInv ==
    /\ Shape /\ Locked /\ Unchanged /\ Untouched
    /\ Followed

\* The index that SimpleIndexTrigger keeps is what the table says, whichever
\* step of an operation failed, the commit included (mdb.hpp:254-257, 335-340,
\* 357-362), and after the process died in the middle of one.
IndexFollowsTable == \A ix \in Kept : Follows(index[ix], ix, table)

\* The database changes by whole operations, seen at once or not at all.
AbstractMdb == INSTANCE MdbSpec WITH kept <- Range(triggers)
WholeOperations == AbstractMdb!Spec

\* The open transaction has done its operations one after the other, on what is
\* committed; one that has only begun has done none.
Reached ==
    /\ work.ops \in 0 .. MaxOps
    /\ IF work.ops = 0 THEN work.table = table /\ work.index = index
       ELSE [table |-> work.table, index |-> work.index] \in AbstractMdb!After[work.ops]
    /\ writer = None \/ pc[writer] = "iterating" => work.ops = 0
    /\ \A t \in Threads : pc[t] = "writing" /\ call[t].op # "txn" => work.ops = 0

\* A cursor is at a row that it may visit or beyond the last of them, and one that
\* only went forth has seen those up to where it is, all of them in the end.
Visitable(c, o) == {i \in DOMAIN c.rows : c.stay => c.rows[i][1] = o.k}
CursorType ==
    [rows : Seq(Pairs), pos : Nat, live : BOOLEAN, stay : BOOLEAN, forth : BOOLEAN, seen : Seq(Pairs)]
Placed(c, o) ==
    /\ c \in CursorType
    /\ Sorted(c.rows)
    /\ c.pos \in 0 .. Len(c.rows) + 1 /\ (c.stay <=> o.op # "begin")
    /\ c.live => c.pos \in Visitable(c, o)
    /\ c.stay => c.pos \in {0} \cup Visitable(c, o)
    /\ c.forth => /\ ToSet(c.seen) = {c.rows[i] : i \in {j \in Visitable(c, o) : j <= c.pos}}
                  /\ c.live \/ \A j \in Visitable(c, o) : j <= c.pos
CursorHeld(t) ==
    /\ pc[t] = "reading" => call[t].op \in {"all", "first"} /\ Placed(cursor[t], call[t])
    /\ pc[t] = "iterating" => /\ call[t].op \in {"begin", "values"} /\ Placed(cursor[t], call[t])
                              /\ ToSet(cursor[t].rows) = table
Cursors ==
    /\ IsFiniteSet(table) /\ IsFiniteSet(work.table) /\ DOMAIN cursor = Threads
    /\ \A t \in Threads : CursorHeld(t)

\* A loop over all values of a key that came to its end saw what its transaction
\* saw when it was begun, and a loop over an Iterator what is in the database now:
\* what an Iterator points to is committed as long as it lives (mdb.hpp:115-136,
\* 154-157, 163-176, 305-312).
Wanted(rows, c) == IF c.op \in {"all", "values"} THEN PairsOf(rows, c.k) ELSE rows
Complete(c) == c.forth /\ ~c.live
LoopsAreExact ==
    \A t \in Threads :
        /\ pc[t] = "reading" /\ call[t].op = "all" /\ Complete(cursor[t]) =>
               ToSet(cursor[t].seen) = Wanted(ToSet(cursor[t].rows), call[t])
        /\ pc[t] = "iterating" =>
               /\ cursor[t].live => cursor[t].rows[cursor[t].pos] \in table
               /\ Complete(cursor[t]) => ToSet(cursor[t].seen) = Wanted(table, call[t])

\* Whatever fails, the write transaction is given back (mdb.hpp:100-103, 191-200).
LockReleased == \A t \in Threads : writer = t ~> writer # t

\* Every index for which a trigger was ever set is kept: checked by hand, since
\* getTriggerName of SimpleIndexTrigger does not override that of Trigger
\* (mdb.hpp:179, 431) and all its triggers have the same name.
EveryIndexKept == \A ix \in Indexes \ fresh : Follows(index[ix], ix, table)
=============================================================================
