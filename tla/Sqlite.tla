------------------------------- MODULE Sqlite -------------------------------
(* Sqlite, SqliteSession, SqliteQuery and SqliteParQuery (sqlite.hpp):       *)
(* threads that take turns in using one handler of SQLite, and the queries   *)
(* that they make of it.  A call of the library is one action; a method that *)
(* makes several calls of it takes several.  What the library and the other  *)
(* processes do is external: how many rows there are is left open.           *)
(* The contract with the callers: a session outlives its queries (l. 170),   *)
(* and is not nested in another of its thread; a query is reset after an     *)
(* exception, or not used again.  Each but the first may be broken, by what  *)
(* is in Habits.                                                             *)
EXTENDS Integers, FiniteSets, Sequences

CONSTANTS
    Threads, Queries, Statements,
    Sessions,   \* how many sessions a thread has
    Prepares,   \* how many statements are prepared at once
    Repeat,     \* the `repeat` of SqliteParQuery, 90 in the code
    Schemas,    \* how often other processes change the schema
    Parameters, \* how many parameters a statement has
    Habits, Null

ASSUME SqliteAssumption ==
    /\ Null \notin Threads \cup Queries \cup Statements
    /\ Sessions \in Nat /\ Prepares \in Nat /\ Repeat \in Nat /\ Schemas \in Nat /\ Parameters \in Nat
    /\ Habits \subseteq {"nested", "again"}

VARIABLES
    mutex,      \* the thread that has locked it, or Null
    thread,     \* where a thread is, in which query's method, with which local
                \* `repeat`, and how many sessions it will still have
    query,      \* the SqliteQuery objects
    stmt,       \* external: the statements that queries have prepared
    db          \* external: the connection, and what others do to the file;
                \* and if there are statements that no query has any more

vars == <<mutex, thread, query, stmt, db>>

\* A query also has ghosts: the parameters it was given, how often the library
\* has begun to execute it since it was prepared, reset or ustepped, how many
\* rows that changed, whether it was asked for more after it was DONE, and
\* whether the caller has seen an exception since.
Begin(t, s, par) == [of |-> t, statement |-> s, par |-> par, mChanges |-> -1,
                     bindCounter |-> 0, given |-> {}, ran |-> 0, changed |-> 0, more |-> FALSE,
                     threw |-> FALSE]

Init ==
    /\ mutex = Null
    /\ thread = [t \in Threads |-> [pc |-> "out", in |-> Null, repeat |-> 0, left |-> Sessions]]
    /\ query = << >> /\ stmt = << >>
    /\ db = [open |-> TRUE, changes |-> 0, busy |-> FALSE, schema |-> 0, dropped |-> FALSE]

Put(f, x, v) == [y \in DOMAIN f \cup {x} |-> IF y = x THEN v ELSE f[y]]
Drop(f, x) == [y \in DOMAIN f \ {x} |-> f[y]]

At(t, l) == thread[t].pc = l
Goto(t, l) == thread' = [thread EXCEPT ![t].pc = l]
Back(t) == thread' = [thread EXCEPT ![t] = [@ EXCEPT !.pc = "in", !.in = Null, !.repeat = 0]]
OwnQueries(t) == {q \in DOMAIN query : query[q].of = t}
-----------------------------------------------------------------------------
(* External: the library and the other processes.                            *)

Prepared(dml) == [fresh |-> TRUE, bound |-> {}, dml |-> dml, schema |-> db.schema]

\* What sqlite3_step returns, and then if it began to execute the statement,
\* and how many rows that changed.  A statement that is done, or has failed,
\* begins again when it is stepped again.
Returns(s) ==
    {<<"error", 0, 0>>} \cup
    (IF ~stmt[s].fresh THEN {<<"row", 0, 0>>, <<"done", 0, 0>>}
     ELSE IF db.busy THEN {<<"busy", 0, 0>>}
     ELSE IF stmt[s].schema # db.schema THEN {<<"schema", 0, 0>>}
     ELSE IF stmt[s].dml THEN {<<"done", 1, n>> : n \in 0 .. 1}
     ELSE {<<"row", 1, 0>>, <<"done", 1, 0>>})

sqlite3_step(q, r, again, throws) ==
    LET s == query[q].statement
    IN  /\ r \in Returns(s)
        /\ stmt' = [stmt EXCEPT ![s].fresh = IF r[1] \in {"busy", "schema"} THEN @ ELSE r[1] # "row"]
        /\ db' = [db EXCEPT !.changes = IF stmt[s].dml /\ r[2] = 1 THEN r[3] ELSE @]
        /\ query' = [query EXCEPT ![q] =
              [@ EXCEPT !.ran = r[2] + (IF again THEN query[q].ran ELSE 0),
                        !.changed = IF r[2] = 1 THEN r[3] ELSE query[q].changed,
                        !.threw = throws]]

\* Others lock the file for a while, or change the schema.
Others ==
    /\ db.open
    /\ \/ db' = [db EXCEPT !.busy = ~@]
       \/ db.schema < Schemas /\ ~db.busy /\ db' = [db EXCEPT !.schema = @ + 1]
    /\ UNCHANGED <<mutex, thread, query, stmt>>
-----------------------------------------------------------------------------
(* SqliteSession.                                                            *)

\* A thread is about to construct a session, of its own or in exec.  The mutex
\* is not recursive: if the thread has a session already, it waits for itself.
Ask(t) ==
    /\ At(t, "out") \/ (At(t, "in") /\ "nested" \in Habits)
    /\ thread[t].left > 0
    /\ \E l \in {"session", "exec"} :
          thread' = [thread EXCEPT ![t] = [@ EXCEPT !.pc = l, !.left = thread[t].left - 1]]
    /\ UNCHANGED <<mutex, query, stmt, db>>

Open(t) ==
    /\ At(t, "session") /\ mutex = Null
    /\ mutex' = t /\ Goto(t, "in")
    /\ UNCHANGED <<query, stmt, db>>

\* The scope of the session ends, by its end or by an exception: its queries
\* are destroyed, and it is closed.
Leave(t) ==
    /\ At(t, "in")
    /\ Goto(t, "leaving") /\ UNCHANGED <<mutex, query, stmt, db>>
Close(t) ==
    /\ At(t, "leaving") /\ OwnQueries(t) = {}
    /\ mutex' = Null /\ Goto(t, "out")
    /\ UNCHANGED <<query, stmt, db>>

\* Sqlite::exec: sqlite3_exec in a session of its own.  Mutation: without one.
ExecOpen_NoSession(t) ==
    /\ At(t, "exec")
    /\ Goto(t, "executing") /\ UNCHANGED <<mutex, query, stmt, db>>
ExecOpen(t) ==
    /\ At(t, "exec") /\ mutex = Null
    /\ mutex' = t /\ Goto(t, "executing")
    /\ UNCHANGED <<query, stmt, db>>

Exec(t) ==
    /\ At(t, "executing")
    /\ \E n \in 0 .. 1 : db' = [db EXCEPT !.changes = IF db.busy THEN @ ELSE n]
    /\ Goto(t, "executed") /\ UNCHANGED <<mutex, query, stmt>>

\* Whether it throws or returns, the session is closed.
ExecClose(t) ==
    /\ At(t, "executed")
    /\ mutex' = Null /\ Goto(t, "out")
    /\ UNCHANGED <<query, stmt, db>>
-----------------------------------------------------------------------------
(* SqliteQuery.                                                              *)

\* The constructor prepares the statement, or throws and leaves no object.
Construct(t, q) ==
    /\ At(t, "in") /\ q \notin DOMAIN query
    /\ Cardinality(DOMAIN stmt) < Prepares
    /\ \E s \in Statements \ DOMAIN stmt, par, dml \in BOOLEAN :
          /\ stmt' = Put(stmt, s, Prepared(dml))
          /\ query' = Put(query, q, Begin(t, s, par))
    /\ UNCHANGED <<mutex, thread, db>>

\* The statement goes to the new object.  Nobody reads what else is left of the
\* rvalue, so that is not told apart.
Move(t, q, r) ==
    /\ At(t, "in") /\ r \in OwnQueries(t) /\ q \notin DOMAIN query
    /\ query' = Put([query EXCEPT ![r] = Begin(t, Null, FALSE)], q, query[r])
    /\ UNCHANGED <<mutex, thread, stmt, db>>

Destroy(t, q) ==
    /\ At(t, "in") \/ At(t, "leaving")
    /\ q \in OwnQueries(t)
    /\ query' = Drop(query, q) /\ stmt' = Drop(stmt, query[q].statement)
    /\ UNCHANGED <<mutex, thread, db>>

\* A query whose statement is there.
Usable(t, q) == At(t, "in") /\ q \in OwnQueries(t) /\ query[q].statement # Null

\* operator <<: the next parameter, if there is one and no row is being read,
\* or else an exception, with the parameter counted.  The bound: who has asked
\* for one parameter too many does not ask for another.
MostBound == Parameters + 1
Bind(t, q) ==
    /\ Usable(t, q)
    /\ LET i == query[q].bindCounter + 1  s == query[q].statement
       IN  /\ i <= MostBound
           /\ IF i <= Parameters /\ stmt[s].fresh
              THEN /\ stmt' = [stmt EXCEPT ![s].bound = @ \cup {i}]
                   /\ query' = [query EXCEPT ![q] = [@ EXCEPT !.bindCounter = i, !.given = query[q].given \cup {i}]]
              ELSE query' = [query EXCEPT ![q].bindCounter = i] /\ UNCHANGED stmt
    /\ UNCHANGED <<mutex, thread, db>>

Reset(t, q) ==
    /\ Usable(t, q)
    /\ query' = [query EXCEPT ![q] = [@ EXCEPT !.bindCounter = 0, !.mChanges = -1,
                                               !.ran = 0, !.more = FALSE, !.threw = FALSE]]
    /\ stmt' = [stmt EXCEPT ![query[q].statement].fresh = TRUE]
    /\ UNCHANGED <<mutex, thread, db>>

\* A query that is DONE is not stepped: it has no more rows, and from now on it
\* says that it changed none.  Mutation: it is, if it has changed no row.
Finished_Changed(q) == query[q].mChanges > 0
Finished(q) == query[q].mChanges >= 0
StepNoMore(t, q) ==
    /\ Usable(t, q) /\ Finished(q)
    /\ query' = [query EXCEPT ![q] = [@ EXCEPT !.mChanges = 0, !.more = TRUE]]
    /\ UNCHANGED <<mutex, thread, stmt, db>>

\* The next call of the library after step or ustep has made one.
Done(t, q) == thread' = [thread EXCEPT ![t] = [@ EXCEPT !.pc = "changes", !.in = q, !.repeat = 0]]

\* SqliteQuery::step, and with it qstep; and SqliteParQuery::step, which is
\* not virtual, and which takes care of two errors.
Step(t, q) ==
    /\ Usable(t, q) /\ ~Finished(q)
    /\ query[q].threw => "again" \in Habits
    /\ \E r \in Returns(query[q].statement), par \in {FALSE, query[q].par} :
          /\ sqlite3_step(q, r, TRUE, r[1] = "error" \/ (~par /\ r[1] \in {"busy", "schema"}))
          /\ \/ r[1] = "done" /\ Done(t, q)
             \/ r[1] = "schema" /\ par
                /\ thread' = [thread EXCEPT ![t] = [@ EXCEPT !.pc = "schema", !.in = q]]
             \/ r[1] = "busy" /\ par
                /\ thread' = [thread EXCEPT ![t] = [@ EXCEPT !.pc = "busy", !.in = q, !.repeat = Repeat]]
             \/ (r[1] \in {"row", "error"} \/ (r[1] # "done" /\ ~par)) /\ UNCHANGED thread
    /\ UNCHANGED mutex

\* ustep asks nothing: it executes a statement that is DONE again.
UStep(t, q) ==
    /\ Usable(t, q)
    /\ \E r \in Returns(query[q].statement) :
          /\ sqlite3_step(q, r, ~stmt[query[q].statement].fresh, r[1] \notin {"row", "done"})
          /\ IF r[1] = "done" THEN Done(t, q) ELSE UNCHANGED thread
    /\ UNCHANGED mutex

Changes(t) ==
    /\ At(t, "changes")
    /\ query' = [query EXCEPT ![thread[t].in] = [@ EXCEPT !.mChanges = db.changes, !.more = FALSE]]
    /\ Back(t) /\ UNCHANGED <<mutex, stmt, db>>
-----------------------------------------------------------------------------
(* SqliteParQuery::step, after SQLITE_SCHEMA and SQLITE_BUSY.                *)

\* The statement is prepared anew, and takes over what was bound to the old one.
\* Mutation: it does not.
Reprepare_Unbound(t) ==
    LET q == thread[t].in  old == query[q].statement
    IN  /\ At(t, "schema")
        /\ \E s \in Statements \ DOMAIN stmt :
              /\ stmt' = Put(Drop(stmt, old), s, Prepared(stmt[old].dml))
              /\ query' = [query EXCEPT ![q].statement = s]
        /\ Goto(t, "repeat") /\ UNCHANGED <<mutex, db>>
Reprepare(t) ==
    LET q == thread[t].in  old == query[q].statement
    IN  /\ At(t, "schema")
        /\ \E s \in Statements \ DOMAIN stmt :
              /\ stmt' = Put(Drop(stmt, old), s,
                             [Prepared(stmt[old].dml) EXCEPT !.bound = stmt[old].bound])
              /\ query' = [query EXCEPT ![q].statement = s]
        /\ Goto(t, "repeat") /\ UNCHANGED <<mutex, db>>

\* What others did to the schema leaves the query none: prepare throws, when it
\* has set the statement to NULL.  Nobody finalizes the old one, nor is the query of use then.
Unprepared(t) ==
    LET q == thread[t].in
    IN  /\ At(t, "schema")
        /\ query' = [query EXCEPT ![q] = Begin(t, Null, @.par)]
        /\ stmt' = Drop(stmt, query[q].statement) /\ db' = [db EXCEPT !.dropped = TRUE]
        /\ Back(t) /\ UNCHANGED mutex

\* goto repeat: as Step, without the question whether the query is DONE.
StepAgain(t) ==
    LET q == thread[t].in
    IN  /\ At(t, "repeat")
        /\ \E r \in Returns(query[q].statement) :
              /\ sqlite3_step(q, r, TRUE, r[1] = "error")
              /\ \/ r[1] = "done" /\ Done(t, q)
                 \/ r[1] = "schema" /\ Goto(t, "schema")
                 \/ r[1] = "busy"
                    /\ thread' = [thread EXCEPT ![t] = [@ EXCEPT !.pc = "busy", !.repeat = Repeat]]
                 \/ r[1] \in {"row", "error"} /\ Back(t)
        /\ UNCHANGED mutex

\* One round of the loop, which ends when the library is not busy any more, or
\* when it has been so too often; whichever it is, step throws.  Mutation: it
\* begins again.
RetryBusy_Again(t) ==
    LET q == thread[t].in  goes == thread[t].repeat > 0
    IN  /\ At(t, "busy")
        /\ \E r \in Returns(query[q].statement) :
              /\ sqlite3_step(q, r, TRUE, FALSE)
              /\ IF r[1] = "busy" /\ goes
                 THEN thread' = [thread EXCEPT ![t].repeat = @ - 1] ELSE Goto(t, "repeat")
        /\ UNCHANGED mutex
RetryBusy(t) ==
    LET q == thread[t].in  goes == thread[t].repeat > 0
    IN  /\ At(t, "busy")
        /\ \E r \in Returns(query[q].statement) :
              /\ sqlite3_step(q, r, TRUE, r[1] # "busy" \/ ~goes)
              /\ IF r[1] = "busy" /\ goes
                 THEN thread' = [thread EXCEPT ![t].repeat = @ - 1] ELSE Back(t)
        /\ UNCHANGED mutex
-----------------------------------------------------------------------------
\* ~Sqlite, when the threads are through: SQLite refuses if there are statements.
CloseDb ==
    /\ db.open /\ \A t \in Threads : At(t, "out") /\ thread[t].left = 0
    /\ db' = [db EXCEPT !.open = DOMAIN stmt # {} \/ db.dropped]
    /\ UNCHANGED <<mutex, thread, query, stmt>>

Calls(t) ==
    \/ Changes(t) \/ Reprepare(t) \/ Unprepared(t) \/ StepAgain(t) \/ RetryBusy(t)
    \/ Open(t) \/ Close(t) \/ ExecOpen(t) \/ Exec(t) \/ ExecClose(t)
    \/ At(t, "leaving") /\ \E q \in Queries : Destroy(t, q)

Uses(t, q) ==
    \/ Construct(t, q) \/ Bind(t, q) \/ Reset(t, q)
    \/ StepNoMore(t, q) \/ Step(t, q) \/ UStep(t, q)
    \/ \E r \in Queries : Move(t, q, r)

Ended == ~db.open /\ UNCHANGED vars

Next ==
    \/ \E t \in Threads : \/ Calls(t) \/ Ask(t) \/ Leave(t)
                          \/ \E q \in Queries : Uses(t, q) \/ Destroy(t, q)
    \/ Others \/ CloseDb \/ Ended

\* The code goes on with what it has begun; and however long a caller uses a
\* session, its scope ends.
Fairness == \A t \in Threads : WF_vars(Calls(t)) /\ SF_vars(Leave(t))

Spec == Init /\ [][Next]_vars /\ Fairness
-----------------------------------------------------------------------------
(* Properties.                                                               *)

\* A statement is finalized with the one query that has it, (l. 262-264),
\* or it was dropped (l. 516); and it is bound to what the query was given, also
\* when it was prepared anew.
Owned ==
    /\ DOMAIN stmt = {query[q].statement : q \in DOMAIN query} \ {Null}
    /\ \A q, r \in DOMAIN query : q # r /\ query[q].statement # Null
                                    => query[q].statement # query[r].statement
    /\ \A q \in DOMAIN query : query[q].statement # Null
                                 => stmt[query[q].statement].bound = query[q].given

\* sqlite3_close finds no statement (l. 118-122): it may find one that was dropped.
Finalized == ~db.dropped

\* A query that is stepped until it returns false, and beyond, is executed once,
\* until it is reset (l. 266-268, 283).
Once == \A q \in DOMAIN query : query[q].ran <= 1

\* A query that changes the database reports the rows that its last execution
\* changed, not those of another thread (l. 319-334); unless it was stepped on
\* after it had returned false: then it reports none (l. 283).
Reports(r) == IF r.more THEN 0 ELSE r.changed
OwnChanges ==
    \A q \in DOMAIN query :
        LET s == query[q].statement
        IN  s # Null /\ stmt[s].dml /\ query[q].mChanges >= 0 /\ thread[query[q].of].in # q
                => query[q].mChanges = Reports(query[q])

\* The doc knows of no such exception: changes() is the number of rows changed by
\* the query, or -1 if it was not executed or after reset (l. 320-323).
ChangesAsDocumented ==
    \A q \in DOMAIN query :
        LET s == query[q].statement
        IN  s # Null /\ stmt[s].dml /\ query[q].mChanges >= 0 /\ thread[query[q].of].in # q
                => query[q].mChanges = query[q].changed

\* A step that throws has not changed the database: so it says of SQLITE_BUSY that
\* the attempts are repeated, automatically (l. 463).
ThrowsUnchanged ==
    \A q \in DOMAIN query :
        LET s == query[q].statement
        IN  s # Null /\ query[q].threw /\ stmt[s].dml => query[q].ran = 0

\* The inductive strengthening.  Who is in a session has locked the mutex and
\* the queries are his, also when he waits for himself in a nested one; and who
\* is in a method of a query is in one that has its statement.
Places == {"out", "session", "exec", "in", "leaving", "executing", "executed",
           "changes", "schema", "busy", "repeat"}
ThreadType == [pc : Places, in : Queries \cup {Null}, repeat : Nat, left : Nat]
QueryType == [of : Threads, statement : Statements \cup {Null}, par : BOOLEAN, mChanges : Int,
              bindCounter : Nat, given : SUBSET Nat, ran : Nat, changed : Nat, more : BOOLEAN,
              threw : BOOLEAN]
StmtType == [fresh : BOOLEAN, bound : SUBSET Nat, dml : BOOLEAN, schema : Nat]
DbType == [open : BOOLEAN, changes : Nat, busy : BOOLEAN, schema : Nat, dropped : BOOLEAN]
TypeOK ==
    /\ mutex \in Threads \cup {Null} /\ thread \in [Threads -> ThreadType] /\ db \in DbType
    /\ DOMAIN query \subseteq Queries /\ \A q \in DOMAIN query : query[q] \in QueryType
    /\ DOMAIN stmt \subseteq Statements /\ \A s \in DOMAIN stmt : stmt[s] \in StmtType
InMethod(t) == thread[t].pc \in {"changes", "schema", "busy", "repeat"}
Serialized ==
    /\ \A t \in Threads : \/ thread[t].pc \in {"out", "session", "exec"}
                           \/ mutex = t
    /\ \A q \in DOMAIN query : mutex = query[q].of
    /\ \A t \in Threads : thread[t].pc \in {"executing", "executed"} => DOMAIN query = {}
    /\ \A t \in Threads :
          IF InMethod(t)
          THEN thread[t].in \in DOMAIN query /\ query[thread[t].in].statement # Null
          ELSE thread[t].in = Null

\* A statement that changes the database has no rows, so whoever asks for the
\* changes after it is DONE has just executed it.
ChangesInv ==
    /\ \A s \in DOMAIN stmt : stmt[s].dml => stmt[s].fresh
    /\ \A t \in Threads : InMethod(t) =>
          LET q == query[thread[t].in]
          IN  IF At(t, "changes") THEN stmt[q.statement].dml => db.changes = q.changed
                                  ELSE q.mChanges < 0
    /\ OwnChanges

\* A query that can be stepped has not been executed yet, or is being read.
Ready(q) ==
    /\ query[q].statement # Null /\ stmt[query[q].statement].fresh
    /\ query[q].mChanges < 0 /\ ~query[q].threw
    /\ ~(At(query[q].of, "changes") /\ thread[query[q].of].in = q)
OnceInv ==
    /\ \A t \in Threads : InMethod(t) /\ ~At(t, "changes") =>
          /\ ~query[thread[t].in].threw
          /\ At(t, "schema") => query[thread[t].in].ran = 0
    /\ \A q \in DOMAIN query : Ready(q) => query[q].ran = 0
    /\ Once

\* Who waits for a session has one, and ends it: a step that finds the database
\* busy gives up (l. 136-138, 521-526).  It rests on two bounds.  Where the
\* library reports a changed schema, step prepares the query and repeats as often
\* as that happens (l. 514-520), so that a schema that others change for ever
\* keeps it going; here they change it Schemas times.  And the mutex is not
\* fair; here a thread has at most Sessions sessions to be overtaken by.
Granted ==
    \A t \in Threads : At(t, "session") \/ At(t, "exec") ~> At(t, "out")
=============================================================================
