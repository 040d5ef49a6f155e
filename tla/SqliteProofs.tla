--------------------------- MODULE SqliteProofs ----------------------------
(* Proofs about Sqlite for any sets of threads, queries and statements and   *)
(* whatever the library returns: a statement has one query, and what is bound*)
(* to it; the changes of a query are its own; and, when a query is not used  *)
(* after an exception before it is reset, it is executed once.               *)
EXTENDS Sqlite, TLAPS

\* What the library may return for a statement.
LEMMA ReturnsIs ==
    ASSUME TypeOK, NEW s \in DOMAIN stmt, NEW r \in Returns(s)
    PROVE  /\ r[1] \in {"error", "row", "done", "busy", "schema"}
           /\ r[2] \in {0, 1} /\ r[3] \in {0, 1}
           /\ r[2] = 1 => stmt[s].fresh /\ r[1] \in {"row", "done"}
           /\ r[1] \in {"busy", "schema"} => stmt[s].fresh
           /\ stmt[s].fresh /\ r[1] = "done" => r[2] = 1
           /\ stmt[s].fresh /\ stmt[s].dml => r[1] # "row"
BY DEF Returns

\* What a call of it changes.
LEMMA StepIs ==
    ASSUME TypeOK, NEW q \in DOMAIN query, query[q].statement \in DOMAIN stmt,
           NEW r \in Returns(query[q].statement), NEW again \in BOOLEAN, NEW throws \in BOOLEAN,
           sqlite3_step(q, r, again, throws)
    PROVE  /\ DOMAIN query' = DOMAIN query /\ DOMAIN stmt' = DOMAIN stmt /\ db' \in DbType
           /\ \A p \in DOMAIN query : p # q => query'[p] = query[p]
           /\ \A s \in DOMAIN stmt : s # query[q].statement => stmt'[s] = stmt[s]
           /\ query'[q] \in QueryType /\ stmt'[query[q].statement] \in StmtType
           /\ query'[q].of = query[q].of /\ query'[q].statement = query[q].statement
           /\ query'[q].given = query[q].given /\ query'[q].mChanges = query[q].mChanges
           /\ query'[q].ran = r[2] + (IF again THEN query[q].ran ELSE 0)
           /\ query'[q].changed = (IF r[2] = 1 THEN r[3] ELSE query[q].changed) /\ query'[q].more = query[q].more
           /\ query'[q].threw = throws
           /\ stmt'[query[q].statement].bound = stmt[query[q].statement].bound
           /\ stmt'[query[q].statement].dml = stmt[query[q].statement].dml
           /\ stmt'[query[q].statement].fresh =
                (IF r[1] \in {"busy", "schema"} THEN stmt[query[q].statement].fresh ELSE r[1] # "row")
           /\ db'.changes = (IF stmt[query[q].statement].dml /\ r[2] = 1 THEN r[3] ELSE db.changes)
<1> DEFINE s == query[q].statement
<1>1. /\ r[1] \in {"error", "row", "done", "busy", "schema"} /\ r[2] \in Nat /\ r[3] \in Nat
  BY ReturnsIs
<1>2. /\ query[q] \in QueryType /\ stmt[s] \in StmtType /\ db \in DbType
  BY DEF TypeOK
<1>3. /\ stmt' = [stmt EXCEPT ![s].fresh = IF r[1] \in {"busy", "schema"} THEN @ ELSE r[1] # "row"]
      /\ db' = [db EXCEPT !.changes = IF stmt[s].dml /\ r[2] = 1 THEN r[3] ELSE @]
      /\ query' = [query EXCEPT ![q] =
              [@ EXCEPT !.ran = r[2] + (IF again THEN query[q].ran ELSE 0),
                        !.changed = IF r[2] = 1 THEN r[3] ELSE query[q].changed,
                        !.threw = throws]]
  BY DEF sqlite3_step
<1> DEFINE new == [query[q] EXCEPT !.ran = r[2] + (IF again THEN query[q].ran ELSE 0),
                                 !.changed = IF r[2] = 1 THEN r[3] ELSE query[q].changed,
                                 !.threw = throws]
<1>4. DOMAIN query' = DOMAIN query /\ \A p \in DOMAIN query : query'[p] = IF p = q THEN new ELSE query[p]
  <2>1. query' = [query EXCEPT ![q] = new]
    BY <1>3
  <2> HIDE DEF new
  <2> QED
    BY <2>1
<1>5. /\ DOMAIN stmt' = DOMAIN stmt /\ \A u \in DOMAIN stmt : u # s => stmt'[u] = stmt[u]
      /\ stmt'[s] = [stmt[s] EXCEPT !.fresh = IF r[1] \in {"busy", "schema"} THEN @ ELSE r[1] # "row"]
  BY <1>3
<1>6. /\ query'[q] \in QueryType
      /\ query'[q].of = query[q].of /\ query'[q].statement = query[q].statement
      /\ query'[q].given = query[q].given /\ query'[q].mChanges = query[q].mChanges
      /\ query'[q].ran = r[2] + (IF again THEN query[q].ran ELSE 0)
      /\ query'[q].changed = (IF r[2] = 1 THEN r[3] ELSE query[q].changed) /\ query'[q].more = query[q].more
      /\ query'[q].threw = throws
  <2>1. query'[q] = new
    BY <1>4
  <2>2. r[2] + (IF again THEN query[q].ran ELSE 0) \in Nat
    BY <1>1, <1>2 DEF QueryType
  <2>3. (IF r[2] = 1 THEN r[3] ELSE query[q].changed) \in Nat
    BY <1>1, <1>2 DEF QueryType
  <2>4. new \in QueryType
    BY <1>2, <2>2, <2>3 DEF QueryType
  <2> QED
    BY <1>2, <2>1, <2>4 DEF QueryType
<1>7. /\ stmt'[s] \in StmtType /\ stmt'[s].bound = stmt[s].bound /\ stmt'[s].dml = stmt[s].dml
      /\ stmt'[s].fresh = (IF r[1] \in {"busy", "schema"} THEN stmt[s].fresh ELSE r[1] # "row")
  BY <1>1, <1>2, <1>5 DEF StmtType
<1>8. /\ db' \in DbType
      /\ db'.changes = (IF stmt[s].dml /\ r[2] = 1 THEN r[3] ELSE db.changes)
  BY <1>1, <1>2, <1>3 DEF DbType
<1> QED
  BY <1>4, <1>5, <1>6, <1>7, <1>8

-----------------------------------------------------------------------------
IInv == TypeOK /\ Serialized /\ Owned /\ ChangesInv

\* The statements are those of the queries, and none is without.
LEMMA OwnersAre ==
    ASSUME NEW Q, NEW S
    PROVE  DOMAIN S = {Q[q].statement : q \in DOMAIN Q} \ {Null} <=>
             /\ \A q \in DOMAIN Q : Q[q].statement # Null => Q[q].statement \in DOMAIN S
             /\ \A s \in DOMAIN S : s # Null /\ \E q \in DOMAIN Q : Q[q].statement = s
OBVIOUS

LEMMA OwnersWill ==
    ASSUME \A q \in DOMAIN query' : query'[q].statement # Null => query'[q].statement \in DOMAIN stmt',
           \A s \in DOMAIN stmt' : s # Null /\ \E q \in DOMAIN query' : query'[q].statement = s
    PROVE  DOMAIN stmt' = {query'[q].statement : q \in DOMAIN query'} \ {Null}
OBVIOUS

\* A query that has a statement has one that is there.
LEMMA HasOne ==
    ASSUME TypeOK, Owned, NEW q \in DOMAIN query, query[q].statement # Null
    PROVE  query[q].statement \in DOMAIN stmt
BY OwnersAre DEF Owned

\* As long as the queries keep their statements, they own them.
LEMMA OwnersStay ==
    ASSUME Owned, DOMAIN query' = DOMAIN query, DOMAIN stmt' = DOMAIN stmt,
           \A q \in DOMAIN query :
              /\ query'[q].statement = query[q].statement
              /\ query[q].statement # Null => stmt'[query[q].statement].bound = query'[q].given
    PROVE  Owned'
<1>1. {query'[q].statement : q \in DOMAIN query'} = {query[q].statement : q \in DOMAIN query}
  OBVIOUS
<1> QED
  BY <1>1 DEF Owned

\* Who has a session is the only one that is in a method, or has queries.
LEMMA Alone ==
    ASSUME TypeOK, Serialized, SqliteAssumption, NEW t \in Threads,
           ~(thread[t].pc \in {"out", "session", "exec"})
    PROVE  /\ mutex = t
           /\ \A u \in Threads : InMethod(u) \/ ~(thread[u].pc \in {"out", "session", "exec"}) => u = t
           /\ \A q \in DOMAIN query : query[q].of = t
<1>1. mutex = t
  BY DEF Serialized
<1>2. \A u \in Threads : ~(thread[u].pc \in {"out", "session", "exec"}) => u = t
  BY <1>1 DEF Serialized
<1>3. \A q \in DOMAIN query : query[q].of = t
  BY <1>1 DEF Serialized
<1> QED
  BY <1>1, <1>2, <1>3 DEF InMethod

LEMMA GotoIs ==
    ASSUME TypeOK, NEW t \in Threads, NEW l \in Places, Goto(t, l)
    PROVE  /\ thread' \in [Threads -> ThreadType] /\ thread'[t].pc = l
           /\ \A u \in Threads : thread'[u].in = thread[u].in /\ (u # t => thread'[u] = thread[u])
BY DEF Goto, TypeOK, ThreadType

LEMMA BackIs ==
    ASSUME TypeOK, NEW t \in Threads, Back(t)
    PROVE  /\ thread' \in [Threads -> ThreadType] /\ thread'[t].pc = "in" /\ thread'[t].in = Null
           /\ \A u \in Threads : u # t => thread'[u] = thread[u]
BY DEF Back, TypeOK, ThreadType, Places

\* A step that leaves the queries and their statements alone, and of which no
\* method notices anything.
LEMMA QueriesAlone ==
    ASSUME IInv, UNCHANGED <<query, stmt>>, db' \in DbType, thread' \in [Threads -> ThreadType],
           mutex' \in Threads \cup {Null},
           \A u \in Threads :
              /\ thread'[u].in = thread[u].in
              /\ thread'[u].pc = thread[u].pc \/ (~InMethod(u) /\ ~InMethod(u)'),
           db'.changes = db.changes \/ \A u \in Threads : ~InMethod(u),
           \A u \in Threads : thread'[u].pc \in {"out", "session", "exec"} \/ mutex' = u,
           \A q \in DOMAIN query : mutex' = query[q].of,
           \A u \in Threads : thread'[u].pc \in {"executing", "executed"} => DOMAIN query = {}
    PROVE  IInv' /\ (OnceInv => OnceInv')
<1>0. \A u \in Threads : /\ InMethod(u)' <=> InMethod(u)
                         /\ InMethod(u) => thread'[u].pc = thread[u].pc
  BY DEF InMethod
<1>1. TypeOK'
  <2>1. mutex' \in Threads \cup {Null} /\ thread' \in [Threads -> ThreadType] /\ db' \in DbType
    OBVIOUS
  <2>2. DOMAIN query' \subseteq Queries /\ (\A q \in DOMAIN query' : query'[q] \in QueryType)
    BY DEF IInv, TypeOK
  <2>3. DOMAIN stmt' \subseteq Statements /\ (\A s \in DOMAIN stmt' : stmt'[s] \in StmtType)
    BY DEF IInv, TypeOK
  <2> QED
    BY <2>1, <2>2, <2>3 DEF TypeOK
<1>2. Serialized'
  <2>1. \A u \in Threads : IF InMethod(u)'
          THEN thread'[u].in \in DOMAIN query' /\ query'[thread'[u].in].statement # Null
          ELSE thread'[u].in = Null
    BY <1>0 DEF IInv, Serialized
  <2> QED
    BY <2>1 DEF Serialized
<1>3. Owned'
  BY DEF IInv, Owned
<1>4. ChangesInv'
  <2>1. OwnChanges'
    <3>1. \A q \in DOMAIN query : query[q].of \in Threads
      BY DEF IInv, TypeOK, QueryType
    <3> QED
      BY <3>1 DEF IInv, ChangesInv, OwnChanges
  <2>2. ASSUME NEW u \in Threads, InMethod(u)'
        PROVE  LET q == query'[thread'[u].in]
               IN  IF At(u, "changes")' THEN stmt'[q.statement].dml => db'.changes = q.changed
                                         ELSE q.mChanges < 0
    <3>1. InMethod(u) /\ thread'[u].pc = thread[u].pc /\ db'.changes = db.changes
      BY <1>0, <2>2
    <3> QED
      BY <3>1 DEF IInv, ChangesInv, At
  <2>3. \A s \in DOMAIN stmt' : stmt'[s].dml => stmt'[s].fresh
    BY DEF IInv, ChangesInv
  <2> QED
    BY <2>1, <2>2, <2>3 DEF ChangesInv
<1>5. ASSUME OnceInv PROVE OnceInv'
  <2>1. ASSUME NEW u \in Threads, InMethod(u)', ~At(u, "changes")'
        PROVE  /\ ~query'[thread'[u].in].threw
               /\ At(u, "schema")' => query'[thread'[u].in].ran = 0
    BY <1>0, <1>5, <2>1 DEF OnceInv, At
  <2>2. ASSUME NEW q \in DOMAIN query', Ready(q)' PROVE query'[q].ran = 0
    <3>1. query[q].of \in Threads
      BY DEF IInv, TypeOK, QueryType
    <3>2. At(query[q].of, "changes") => At(query[q].of, "changes")'
      BY <1>0, <3>1 DEF At, InMethod
    <3>3. Ready(q)
      BY <2>2, <3>1, <3>2 DEF Ready
    <3> QED
      BY <1>5, <3>3 DEF OnceInv
  <2> QED
    BY <1>5, <2>1, <2>2 DEF OnceInv, Once
<1> QED
  BY <1>1, <1>2, <1>3, <1>4, <1>5 DEF IInv

\* A step of a thread that is in its session and in no method, with which it
\* goes nowhere.
LEMMA Outside ==
    ASSUME IInv, SqliteAssumption, UNCHANGED <<mutex, thread, db>>,
           NEW t \in Threads, thread[t].pc \in {"in", "leaving"},
           DOMAIN query' \subseteq Queries, DOMAIN stmt' \subseteq Statements,
           \A q \in DOMAIN query' : query'[q] \in QueryType /\ query'[q].of = t,
           \A s \in DOMAIN stmt' : stmt'[s] \in StmtType /\ (stmt'[s].dml => stmt'[s].fresh),
           Owned',
           \A q \in DOMAIN query' :
              query'[q].statement # Null /\ stmt'[query'[q].statement].dml /\ query'[q].mChanges >= 0
                 => query'[q].mChanges = Reports(query'[q])
    PROVE  /\ IInv'
           /\ /\ OnceInv
              /\ \A q \in DOMAIN query' :
                    /\ query'[q].ran <= 1
                    /\ /\ query'[q].statement # Null /\ stmt'[query'[q].statement].fresh
                       /\ query'[q].mChanges < 0 /\ ~query'[q].threw
                       => query'[q].ran = 0
              => OnceInv'
<1>1. /\ mutex = t /\ \A u \in Threads : ~InMethod(u)
      /\ \A u \in Threads : u # t => thread[u].pc \in {"out", "session", "exec"}
  BY Alone DEF IInv, InMethod
<1>2. \A u \in Threads : ~InMethod(u)' /\ thread'[u] = thread[u]
  BY <1>1 DEF InMethod
<1>3. TypeOK'
  <2>1. mutex' \in Threads \cup {Null} /\ thread' \in [Threads -> ThreadType] /\ db' \in DbType
    BY DEF IInv, TypeOK
  <2> QED
    BY <2>1 DEF TypeOK
<1>4. Serialized'
  <2>1. \A u \in Threads : thread[u].in = Null
    BY <1>1 DEF IInv, Serialized
  <2>2. mutex' = t /\ \A u \in Threads : thread'[u].pc \in {"out", "session", "exec"} \/ mutex' = u
    BY <1>1, <1>2
  <2>3. \A u \in Threads : ~(thread'[u].pc \in {"executing", "executed"})
    BY <1>1, <1>2
  <2> QED
    BY <1>2, <2>1, <2>2, <2>3 DEF Serialized
<1>5. ChangesInv'
  BY <1>2 DEF ChangesInv, OwnChanges
<1>6. ASSUME \A q \in DOMAIN query' :
                /\ query'[q].ran <= 1
                /\ /\ query'[q].statement # Null /\ stmt'[query'[q].statement].fresh
                   /\ query'[q].mChanges < 0 /\ ~query'[q].threw
                   => query'[q].ran = 0
      PROVE  OnceInv'
  BY <1>2, <1>6 DEF OnceInv, Once, Ready
<1> QED
  BY <1>3, <1>4, <1>5, <1>6 DEF IInv

\* What holds for each query when its thread is in no method.
LEMMA AtRest ==
    ASSUME IInv, SqliteAssumption, NEW t \in Threads, thread[t].pc \in {"in", "leaving"},
           NEW q \in DOMAIN query
    PROVE  /\ query[q].of = t /\ query[q] \in QueryType
           /\ query[q].statement # Null =>
                /\ query[q].statement \in DOMAIN stmt
                /\ stmt[query[q].statement] \in StmtType
                /\ stmt[query[q].statement].bound = query[q].given
                /\ stmt[query[q].statement].dml => stmt[query[q].statement].fresh
                /\ stmt[query[q].statement].dml /\ query[q].mChanges >= 0
                      => query[q].mChanges = Reports(query[q])
           /\ OnceInv =>
                /\ query[q].ran <= 1
                /\ /\ query[q].statement # Null /\ stmt[query[q].statement].fresh
                   /\ query[q].mChanges < 0 /\ ~query[q].threw
                   => query[q].ran = 0
<1>1. query[q].of = t
  BY Alone DEF IInv
<1>2. query[q].statement # Null => query[q].statement \in DOMAIN stmt
  BY HasOne DEF IInv
<1>3. /\ query[q] \in QueryType
      /\ \A s \in DOMAIN stmt : stmt[s] \in StmtType /\ (stmt[s].dml => stmt[s].fresh)
  BY DEF IInv, TypeOK, ChangesInv
<1>4. thread[t].in # q /\ ~At(t, "changes")
  BY DEF IInv, TypeOK, Serialized, InMethod, SqliteAssumption, At
<1>5. query[q].statement # Null => stmt[query[q].statement].bound = query[q].given
  BY DEF IInv, Owned
<1>6. query[q].statement # Null /\ stmt[query[q].statement].dml /\ query[q].mChanges >= 0
        => query[q].mChanges = Reports(query[q])
  BY <1>1, <1>4 DEF IInv, ChangesInv, OwnChanges
<1>7. OnceInv => /\ query[q].ran <= 1
                 /\ /\ query[q].statement # Null /\ stmt[query[q].statement].fresh
                    /\ query[q].mChanges < 0 /\ ~query[q].threw
                    => query[q].ran = 0
  BY <1>1, <1>4 DEF OnceInv, Once, Ready
<1> QED
  BY <1>1, <1>2, <1>3, <1>5, <1>6, <1>7

\* Constructing a query gives it a statement of its own.
LEMMA ConstructKeeps ==
    ASSUME IInv, SqliteAssumption, NEW t \in Threads, NEW q \in Queries, Construct(t, q)
    PROVE  IInv' /\ (OnceInv => OnceInv')
<1>1. PICK s \in Statements \ DOMAIN stmt, par \in BOOLEAN, dml \in BOOLEAN :
         /\ stmt' = Put(stmt, s, Prepared(dml))
         /\ query' = Put(query, q, Begin(t, s, par))
  BY DEF Construct
<1>2. /\ DOMAIN stmt' = DOMAIN stmt \cup {s} /\ stmt'[s] = Prepared(dml)
      /\ \A u \in DOMAIN stmt : u # s /\ stmt'[u] = stmt[u]
  BY <1>1 DEF Put
<1>3. /\ DOMAIN query' = DOMAIN query \cup {q} /\ query'[q] = Begin(t, s, par)
      /\ \A p \in DOMAIN query : p # q /\ query'[p] = query[p]
  <2>1. q \notin DOMAIN query
    BY DEF Construct
  <2> QED
    BY <1>1, <2>1 DEF Put
<1>4. /\ Prepared(dml) \in StmtType /\ Prepared(dml).fresh /\ Prepared(dml).bound = {}
      /\ Begin(t, s, par) \in QueryType
      /\ Begin(t, s, par).of = t /\ Begin(t, s, par).statement = s /\ Begin(t, s, par).given = {}
      /\ Begin(t, s, par).mChanges = -1 /\ Begin(t, s, par).ran = 0
  BY DEF Prepared, Begin, StmtType, QueryType, IInv, TypeOK, DbType
<1>5. s # Null /\ thread[t].pc = "in" /\ UNCHANGED <<mutex, thread, db>>
  BY DEF SqliteAssumption, Construct, At
<1>6. \A p \in DOMAIN query : query[p].of = t
  BY <1>5, Alone DEF IInv
<1>7. \A p \in DOMAIN query : query[p].statement # Null => query[p].statement \in DOMAIN stmt
  BY HasOne DEF IInv
<1>8. Owned'
  <2>1. \A p \in DOMAIN query' : query'[p].statement # Null => query'[p].statement \in DOMAIN stmt'
    BY <1>2, <1>3, <1>4, <1>7
  <2>2. ASSUME NEW u \in DOMAIN stmt' PROVE u # Null /\ \E p \in DOMAIN query' : query'[p].statement = u
    <3>1. CASE u = s
      BY <3>1, <1>3, <1>4, <1>5
    <3>2. CASE u \in DOMAIN stmt
      <4>1. u # Null /\ \E p \in DOMAIN query : query[p].statement = u
        BY <3>2, OwnersAre DEF IInv, Owned
      <4> QED
        BY <4>1, <1>3
    <3> QED
      BY <3>1, <3>2, <1>2
  <2>3. DOMAIN stmt' = {query'[p].statement : p \in DOMAIN query'} \ {Null}
    BY <2>1, <2>2, OwnersWill
  <2>4. ASSUME NEW p \in DOMAIN query', NEW r \in DOMAIN query', p # r, query'[p].statement # Null
        PROVE  query'[p].statement # query'[r].statement
    BY <2>4, <1>3, <1>4, <1>7 DEF IInv, Owned
  <2>5. ASSUME NEW p \in DOMAIN query', query'[p].statement # Null
        PROVE  stmt'[query'[p].statement].bound = query'[p].given
    <3>1. CASE p = q
      BY <3>1, <1>2, <1>3, <1>4
    <3>2. CASE p \in DOMAIN query
      BY <3>2, <2>5, <1>2, <1>3, <1>7 DEF IInv, Owned
    <3> QED
      BY <3>1, <3>2, <1>3
  <2> QED
    BY <2>3, <2>4, <2>5 DEF Owned
<1>9. /\ \A p \in DOMAIN query' : query'[p] \in QueryType /\ query'[p].of = t
      /\ \A u \in DOMAIN stmt' : stmt'[u] \in StmtType /\ (stmt'[u].dml => stmt'[u].fresh)
      /\ DOMAIN query' \subseteq Queries /\ DOMAIN stmt' \subseteq Statements
  BY <1>2, <1>3, <1>4, <1>6 DEF IInv, TypeOK, ChangesInv
<1>10. ASSUME NEW p \in DOMAIN query', query'[p].statement # Null,
              stmt'[query'[p].statement].dml, query'[p].mChanges >= 0
       PROVE  query'[p].mChanges = Reports(query'[p])
  <2>1. p # q
    BY <1>3, <1>4, <1>10
  <2>2. p \in DOMAIN query /\ query'[p] = query[p] /\ query[p].of = t
    BY <1>3, <1>6, <2>1
  <2>3. thread[t].in = Null
    BY <1>5 DEF IInv, Serialized, InMethod
  <2>4. p # Null
    BY <2>2 DEF IInv, TypeOK, SqliteAssumption
  <2> QED
    BY <1>2, <1>7, <1>10, <2>2, <2>3, <2>4 DEF IInv, ChangesInv, OwnChanges
<1>11. ASSUME OnceInv, NEW p \in DOMAIN query'
       PROVE  /\ query'[p].ran <= 1
              /\ /\ query'[p].statement # Null /\ stmt'[query'[p].statement].fresh
                 /\ query'[p].mChanges < 0 /\ ~query'[p].threw
                 => query'[p].ran = 0
  <2>1. CASE p = q
    BY <2>1, <1>3, <1>4
  <2>2. CASE p \in DOMAIN query
    BY <2>2, <1>2, <1>3, <1>5, <1>6, <1>7, <1>11 DEF OnceInv, Once, Ready, At
  <2> QED
    BY <2>1, <2>2, <1>3
<1> QED
  BY <1>5, <1>8, <1>9, <1>10, <1>11, Outside

\* A moved query takes its statement with it.
LEMMA MoveKeeps ==
    ASSUME IInv, SqliteAssumption, NEW t \in Threads, NEW q \in Queries, NEW r \in Queries,
           Move(t, q, r)
    PROVE  IInv' /\ (OnceInv => OnceInv')
<1> DEFINE empty == Begin(t, Null, FALSE)
<1>1. /\ thread[t].pc = "in" /\ r \in DOMAIN query /\ q \notin DOMAIN query
      /\ query' = Put([query EXCEPT ![r] = empty], q, query[r])
      /\ UNCHANGED <<mutex, thread, stmt, db>>
  BY DEF Move, At, OwnQueries
<1>2. /\ empty \in QueryType /\ empty.of = t /\ empty.statement = Null /\ empty.ran = 0
  BY DEF Begin, QueryType
<1> HIDE DEF empty
<1>3. /\ DOMAIN query' = DOMAIN query \cup {q} /\ query'[q] = query[r] /\ query'[r] = empty
      /\ \A p \in DOMAIN query : p # q /\ (p # r => query'[p] = query[p])
  BY <1>1 DEF Put
<1> DEFINE was(p) == IF p = q THEN r ELSE p
<1>4. \A p \in DOMAIN query' : p # r => was(p) \in DOMAIN query /\ query'[p] = query[was(p)]
  BY <1>1, <1>3
<1>0. \A p, o \in DOMAIN query' : p # r /\ o # r /\ p # o => was(p) # was(o)
  OBVIOUS
<1> HIDE DEF was
<1>5. DOMAIN query' \subseteq Queries /\ DOMAIN stmt' \subseteq Statements
  BY <1>1, <1>3 DEF IInv, TypeOK
<1>6. ASSUME NEW p \in DOMAIN query'
      PROVE  /\ query'[p] \in QueryType /\ query'[p].of = t
             /\ query'[p].statement # Null =>
                  /\ query'[p].statement \in DOMAIN stmt'
                  /\ stmt'[query'[p].statement].bound = query'[p].given
                  /\ stmt'[query'[p].statement].dml /\ query'[p].mChanges >= 0
                        => query'[p].mChanges = Reports(query'[p])
             /\ OnceInv =>
                  /\ query'[p].ran <= 1
                  /\ /\ query'[p].statement # Null /\ stmt'[query'[p].statement].fresh
                     /\ query'[p].mChanges < 0 /\ ~query'[p].threw
                     => query'[p].ran = 0
  <2>1. CASE p = r
    BY <2>1, <1>2, <1>3
  <2>2. CASE p # r
    <3>1. was(p) \in DOMAIN query /\ query'[p] = query[was(p)]
      BY <2>2, <1>4
    <3>2. PICK o \in DOMAIN query : query'[p] = query[o]
      BY <3>1
    <3> QED
      BY <3>2, <1>1, AtRest
  <2> QED
    BY <2>1, <2>2
<1>7. Owned'
  <2>1. \A p \in DOMAIN query' : query'[p].statement # Null => query'[p].statement \in DOMAIN stmt'
    BY <1>6
  <2>2. ASSUME NEW u \in DOMAIN stmt' PROVE u # Null /\ \E p \in DOMAIN query' : query'[p].statement = u
    <3>1. u \in DOMAIN stmt
      BY <1>1
    <3>2. u # Null /\ \E p \in DOMAIN query : query[p].statement = u
      BY <3>1, OwnersAre DEF IInv, Owned
    <3>3. PICK p \in DOMAIN query : query[p].statement = u
      BY <3>2
    <3>4. CASE p = r
      BY <3>2, <3>3, <3>4, <1>3
    <3>5. CASE p # r
      BY <3>2, <3>3, <3>5, <1>3
    <3> QED
      BY <3>4, <3>5
  <2>3. DOMAIN stmt' = {query'[p].statement : p \in DOMAIN query'} \ {Null}
    BY <2>1, <2>2, OwnersWill
  <2>4. ASSUME NEW p \in DOMAIN query', NEW o \in DOMAIN query', p # o, query'[p].statement # Null
        PROVE  query'[p].statement # query'[o].statement
    BY <2>4, <1>0, <1>2, <1>3, <1>4 DEF IInv, Owned
  <2>5. ASSUME NEW p \in DOMAIN query', query'[p].statement # Null
        PROVE  stmt'[query'[p].statement].bound = query'[p].given
    BY <2>5, <1>6
  <2> QED
    BY <2>3, <2>4, <2>5 DEF Owned
<1>8. \A p \in DOMAIN query' : query'[p] \in QueryType /\ query'[p].of = t
  BY <1>6
<1>9. \A u \in DOMAIN stmt' : stmt'[u] \in StmtType /\ (stmt'[u].dml => stmt'[u].fresh)
  BY <1>1 DEF IInv, TypeOK, ChangesInv
<1>10. ASSUME NEW p \in DOMAIN query', query'[p].statement # Null,
              stmt'[query'[p].statement].dml, query'[p].mChanges >= 0
       PROVE  query'[p].mChanges = Reports(query'[p])
  BY <1>6, <1>10
<1>11. ASSUME OnceInv, NEW p \in DOMAIN query'
       PROVE  /\ query'[p].ran <= 1
              /\ /\ query'[p].statement # Null /\ stmt'[query'[p].statement].fresh
                 /\ query'[p].mChanges < 0 /\ ~query'[p].threw
                 => query'[p].ran = 0
  BY <1>6, <1>11
<1> QED
  BY <1>1, <1>5, <1>7, <1>8, <1>9, <1>10, <1>11, Outside

\* A query that is destroyed finalizes its statement.
LEMMA DestroyKeeps ==
    ASSUME IInv, SqliteAssumption, NEW t \in Threads, NEW q \in Queries, Destroy(t, q)
    PROVE  IInv' /\ (OnceInv => OnceInv')
<1>1. /\ thread[t].pc \in {"in", "leaving"} /\ q \in DOMAIN query
      /\ query' = Drop(query, q) /\ stmt' = Drop(stmt, query[q].statement)
      /\ UNCHANGED <<mutex, thread, db>>
  BY DEF Destroy, At, OwnQueries
<1>2. /\ DOMAIN query' = DOMAIN query \ {q} /\ \A p \in DOMAIN query' : query'[p] = query[p]
  BY <1>1 DEF Drop
<1>3. /\ DOMAIN stmt' = DOMAIN stmt \ {query[q].statement}
      /\ \A u \in DOMAIN stmt' : stmt'[u] = stmt[u]
  BY <1>1 DEF Drop
<1>4. \A p \in DOMAIN query' : query[p].statement # Null => query[p].statement \in DOMAIN stmt'
  <2> SUFFICES ASSUME NEW p \in DOMAIN query', query[p].statement # Null
               PROVE  query[p].statement \in DOMAIN stmt'
    OBVIOUS
  <2>1. query[p].statement \in DOMAIN stmt
    BY <1>2, HasOne DEF IInv
  <2>2. query[p].statement # query[q].statement
    BY <1>1, <1>2 DEF IInv, Owned
  <2> QED
    BY <2>1, <2>2, <1>3
<1>5. Owned'
  <2>1. ASSUME NEW u \in DOMAIN stmt' PROVE u # Null /\ \E p \in DOMAIN query' : query'[p].statement = u
    <3>1. u # Null /\ \E p \in DOMAIN query : query[p].statement = u
      BY <1>3, OwnersAre DEF IInv, Owned
    <3> QED
      BY <3>1, <1>2, <1>3
  <2>2. DOMAIN stmt' = {query'[p].statement : p \in DOMAIN query'} \ {Null}
    <3>1. \A p \in DOMAIN query' : query'[p].statement # Null => query'[p].statement \in DOMAIN stmt'
      BY <1>2, <1>4
    <3> QED
      BY <3>1, <2>1, OwnersWill
  <2>3. ASSUME NEW p \in DOMAIN query', NEW o \in DOMAIN query', p # o, query'[p].statement # Null
        PROVE  query'[p].statement # query'[o].statement
    BY <2>3, <1>2 DEF IInv, Owned
  <2>4. ASSUME NEW p \in DOMAIN query', query'[p].statement # Null
        PROVE  stmt'[query'[p].statement].bound = query'[p].given
    BY <2>4, <1>2, <1>3, <1>4 DEF IInv, Owned
  <2> QED
    BY <2>2, <2>3, <2>4 DEF Owned
<1>6. /\ \A p \in DOMAIN query' : query'[p] \in QueryType /\ query'[p].of = t
      /\ \A u \in DOMAIN stmt' : stmt'[u] \in StmtType /\ (stmt'[u].dml => stmt'[u].fresh)
      /\ DOMAIN query' \subseteq Queries /\ DOMAIN stmt' \subseteq Statements
  BY <1>1, <1>2, <1>3, AtRest DEF IInv, TypeOK, ChangesInv
<1>7. ASSUME NEW p \in DOMAIN query', query'[p].statement # Null,
              stmt'[query'[p].statement].dml, query'[p].mChanges >= 0
      PROVE  query'[p].mChanges = Reports(query'[p])
  BY <1>1, <1>2, <1>3, <1>4, <1>7, AtRest
<1>8. ASSUME OnceInv, NEW p \in DOMAIN query'
      PROVE  /\ query'[p].ran <= 1
             /\ /\ query'[p].statement # Null /\ stmt'[query'[p].statement].fresh
                /\ query'[p].mChanges < 0 /\ ~query'[p].threw
                => query'[p].ran = 0
  BY <1>1, <1>2, <1>3, <1>4, <1>8, AtRest
<1> QED
  BY <1>1, <1>5, <1>6, <1>7, <1>8, Outside

\* A query and its statement change.
LEMMA InPlace ==
    ASSUME IInv, SqliteAssumption, NEW t \in Threads, NEW q \in DOMAIN query,
           thread[t].pc = "in", query[q].statement # Null, UNCHANGED <<mutex, thread, db>>,
           DOMAIN query' = DOMAIN query, DOMAIN stmt' = DOMAIN stmt,
           \A p \in DOMAIN query : p # q => query'[p] = query[p],
           \A u \in DOMAIN stmt : u # query[q].statement => stmt'[u] = stmt[u],
           query'[q] \in QueryType, query'[q].of = t, query'[q].statement = query[q].statement,
           stmt'[query[q].statement] \in StmtType,
           stmt'[query[q].statement].bound = query'[q].given,
           stmt'[query[q].statement].dml => stmt'[query[q].statement].fresh,
           stmt'[query[q].statement].dml /\ query'[q].mChanges >= 0
              => query'[q].mChanges = Reports(query'[q]),
           OnceInv =>
                /\ query'[q].ran <= 1
                /\ /\ stmt'[query[q].statement].fresh /\ query'[q].mChanges < 0 /\ ~query'[q].threw
                   => query'[q].ran = 0
    PROVE  IInv' /\ (OnceInv => OnceInv')
<1>1. ASSUME NEW p \in DOMAIN query
      PROVE  /\ query'[p] \in QueryType /\ query'[p].of = t
             /\ query'[p].statement = query[p].statement
             /\ query[p].statement # Null =>
                  /\ stmt'[query[p].statement].bound = query'[p].given
                  /\ stmt'[query'[p].statement].dml /\ query'[p].mChanges >= 0
                        => query'[p].mChanges = Reports(query'[p])
             /\ OnceInv =>
                  /\ query'[p].ran <= 1
                  /\ /\ query'[p].statement # Null /\ stmt'[query'[p].statement].fresh
                     /\ query'[p].mChanges < 0 /\ ~query'[p].threw
                     => query'[p].ran = 0
  <2>1. CASE p = q
    BY <2>1
  <2>2. CASE p # q
    <3>1. query'[p] = query[p]
      BY <2>2
    <3>2. query[p].statement # Null => stmt'[query[p].statement] = stmt[query[p].statement]
      <4>1. query[p].statement # Null => query[p].statement # query[q].statement
        BY <2>2 DEF IInv, Owned
      <4>2. query[p].statement # Null => query[p].statement \in DOMAIN stmt
        BY HasOne DEF IInv
      <4> QED
        BY <4>1, <4>2
    <3> QED
      BY <3>1, <3>2, AtRest
  <2> QED
    BY <2>1, <2>2
<1>2. Owned'
  BY <1>1, OwnersStay DEF IInv
<1>3. \A u \in DOMAIN stmt' : stmt'[u] \in StmtType /\ (stmt'[u].dml => stmt'[u].fresh)
  BY DEF IInv, TypeOK, ChangesInv
<1>4. DOMAIN query' \subseteq Queries /\ DOMAIN stmt' \subseteq Statements
  BY DEF IInv, TypeOK
<1> QED
  BY <1>1, <1>2, <1>3, <1>4, Outside

\* Binding a parameter keeps what is bound and what was given the same.
LEMMA BindKeeps ==
    ASSUME IInv, SqliteAssumption, NEW t \in Threads, NEW q \in Queries, Bind(t, q)
    PROVE  IInv' /\ (OnceInv => OnceInv')
<1> DEFINE s == query[q].statement  i == query[q].bindCounter + 1
<1>1. /\ thread[t].pc = "in" /\ q \in DOMAIN query /\ s # Null
      /\ UNCHANGED <<mutex, thread, db>>
  BY DEF Bind, Usable, At, OwnQueries
<1>2. /\ query[q].of = t /\ query[q] \in QueryType /\ s \in DOMAIN stmt /\ stmt[s] \in StmtType
      /\ stmt[s].bound = query[q].given
      /\ stmt[s].dml => stmt[s].fresh
      /\ stmt[s].dml /\ query[q].mChanges >= 0 => query[q].mChanges = Reports(query[q])
      /\ OnceInv =>
            /\ query[q].ran <= 1
            /\ stmt[s].fresh /\ query[q].mChanges < 0 /\ ~query[q].threw => query[q].ran = 0
  BY <1>1, AtRest
<1>3. i \in Nat
  BY <1>2 DEF QueryType
<1>4. CASE /\ stmt' = [stmt EXCEPT ![s].bound = @ \cup {i}]
           /\ query' = [query EXCEPT ![q] =
                  [@ EXCEPT !.bindCounter = i, !.given = query[q].given \cup {i}]]
  <2>1. /\ DOMAIN query' = DOMAIN query /\ DOMAIN stmt' = DOMAIN stmt
        /\ \A p \in DOMAIN query : p # q => query'[p] = query[p]
        /\ \A u \in DOMAIN stmt : u # s => stmt'[u] = stmt[u]
        /\ query'[q] = [query[q] EXCEPT !.bindCounter = i, !.given = query[q].given \cup {i}]
        /\ stmt'[s] = [stmt[s] EXCEPT !.bound = @ \cup {i}]
    BY <1>1, <1>2, <1>4
  <2> HIDE DEF i
  <2>2. /\ query'[q] \in QueryType /\ query'[q].of = t /\ query'[q].statement = s
        /\ query'[q].given = query[q].given \cup {i} /\ query'[q].mChanges = query[q].mChanges
        /\ query'[q].changed = query[q].changed /\ query'[q].ran = query[q].ran
        /\ query'[q].threw = query[q].threw /\ query'[q].more = query[q].more
    <3>1. query'[q] \in QueryType
      <4>1. query[q] \in QueryType /\ query[q].given \cup {i} \in SUBSET Nat
        BY <1>2, <1>3 DEF QueryType
      <4>2. query'[q] = [query[q] EXCEPT !.bindCounter = i, !.given = query[q].given \cup {i}]
        BY <2>1
      <4> QED
        BY <1>3, <4>1, <4>2 DEF QueryType
    <3> QED
      BY <1>2, <2>1, <3>1 DEF QueryType
  <2>3. /\ stmt'[s] \in StmtType /\ stmt'[s].bound = stmt[s].bound \cup {i}
        /\ stmt'[s].dml = stmt[s].dml /\ stmt'[s].fresh = stmt[s].fresh
    BY <1>2, <1>3, <2>1 DEF StmtType
  <2> QED
    <3>1. stmt'[s] \in StmtType /\ stmt'[s].bound = query'[q].given /\ (stmt'[s].dml => stmt'[s].fresh)
      BY <1>1, <1>2, <2>1, <2>2, <2>3
    <3>2. stmt'[s].dml /\ query'[q].mChanges >= 0 => query'[q].mChanges = Reports(query'[q])
      BY <1>1, <1>2, <2>1, <2>2, <2>3 DEF Reports
    <3>3. OnceInv =>
            /\ query'[q].ran <= 1
            /\ stmt'[s].fresh /\ query'[q].mChanges < 0 /\ ~query'[q].threw => query'[q].ran = 0
      BY <1>1, <1>2, <2>1, <2>2, <2>3
    <3> QED
      BY <1>1, <1>2, <2>1, <2>2, <2>3, <3>1, <3>2, <3>3, InPlace
<1>5. CASE query' = [query EXCEPT ![q].bindCounter = i] /\ UNCHANGED stmt
  <2>1. /\ DOMAIN query' = DOMAIN query /\ DOMAIN stmt' = DOMAIN stmt
        /\ \A p \in DOMAIN query : p # q => query'[p] = query[p]
        /\ query'[q] = [query[q] EXCEPT !.bindCounter = i]
    BY <1>1, <1>5
  <2> HIDE DEF i
  <2>2. /\ query'[q] \in QueryType /\ query'[q].of = t /\ query'[q].statement = s
        /\ query'[q].given = query[q].given /\ query'[q].mChanges = query[q].mChanges
        /\ query'[q].changed = query[q].changed /\ query'[q].ran = query[q].ran
        /\ query'[q].threw = query[q].threw /\ query'[q].more = query[q].more
    <3>1. query'[q] \in QueryType
      BY <1>2, <1>3, <2>1 DEF QueryType
    <3> QED
      BY <1>2, <2>1, <3>1 DEF QueryType
  <2> QED
    <3>1. stmt'[s] \in StmtType /\ stmt'[s].bound = query'[q].given /\ (stmt'[s].dml => stmt'[s].fresh)
      BY <1>1, <1>2, <1>5, <2>1, <2>2
    <3>2. stmt'[s].dml /\ query'[q].mChanges >= 0 => query'[q].mChanges = Reports(query'[q])
      BY <1>1, <1>2, <1>5, <2>1, <2>2 DEF Reports
    <3>3. OnceInv =>
            /\ query'[q].ran <= 1
            /\ stmt'[s].fresh /\ query'[q].mChanges < 0 /\ ~query'[q].threw => query'[q].ran = 0
      BY <1>1, <1>2, <1>5, <2>1, <2>2
    <3> QED
      BY <1>1, <1>2, <1>5, <2>1, <2>2, <3>1, <3>2, <3>3, InPlace
<1> QED
  BY <1>4, <1>5 DEF Bind

LEMMA ResetKeeps ==
    ASSUME IInv, SqliteAssumption, NEW t \in Threads, NEW q \in Queries, Reset(t, q)
    PROVE  IInv' /\ (OnceInv => OnceInv')
<1> DEFINE s == query[q].statement
<1>1. /\ thread[t].pc = "in" /\ q \in DOMAIN query /\ s # Null
      /\ UNCHANGED <<mutex, thread, db>>
  BY DEF Reset, Usable, At, OwnQueries
<1>2. /\ query[q].of = t /\ query[q] \in QueryType /\ s \in DOMAIN stmt /\ stmt[s] \in StmtType
      /\ stmt[s].bound = query[q].given
  BY <1>1, AtRest
<1>3. /\ DOMAIN query' = DOMAIN query /\ DOMAIN stmt' = DOMAIN stmt
      /\ \A p \in DOMAIN query : p # q => query'[p] = query[p]
      /\ \A u \in DOMAIN stmt : u # s => stmt'[u] = stmt[u]
      /\ query'[q] = [query[q] EXCEPT !.bindCounter = 0, !.mChanges = -1, !.ran = 0, !.more = FALSE,
                       !.threw = FALSE]
      /\ stmt'[s] = [stmt[s] EXCEPT !.fresh = TRUE]
  BY <1>1, <1>2 DEF Reset
<1>4. /\ query'[q] \in QueryType /\ query'[q].of = t /\ query'[q].statement = s
      /\ query'[q].given = query[q].given /\ query'[q].mChanges = -1 /\ query'[q].ran = 0
  <2>1. query'[q] \in QueryType
    <3>1. query[q] \in QueryType
      BY <1>2
    <3>2. query'[q] = [query[q] EXCEPT !.bindCounter = 0, !.mChanges = -1, !.ran = 0, !.more = FALSE,
                       !.threw = FALSE]
      BY <1>3
    <3>3. \A x \in QueryType, b \in Nat, m \in Int, n \in Nat, e, w \in BOOLEAN :
             [x EXCEPT !.bindCounter = b, !.mChanges = m, !.ran = n, !.more = e, !.threw = w] \in QueryType
      BY DEF QueryType
    <3>4. 0 \in Nat /\ -1 \in Int /\ FALSE \in BOOLEAN
      OBVIOUS
    <3>5. [query[q] EXCEPT !.bindCounter = 0, !.mChanges = -1, !.ran = 0, !.more = FALSE,
                       !.threw = FALSE] \in QueryType
      BY <3>1, <3>3, <3>4, Zenon
    <3> QED
      BY <3>2, <3>5, Zenon
  <2> QED
    BY <1>2, <1>3, <2>1 DEF QueryType
<1>5. stmt'[s] \in StmtType /\ stmt'[s].bound = stmt[s].bound /\ stmt'[s].fresh
  BY <1>2, <1>3 DEF StmtType
<1> QED
  <2>1. stmt'[s] \in StmtType /\ stmt'[s].bound = query'[q].given /\ (stmt'[s].dml => stmt'[s].fresh)
    BY <1>1, <1>2, <1>3, <1>4, <1>5
  <2>2. stmt'[s].dml /\ query'[q].mChanges >= 0 => query'[q].mChanges = Reports(query'[q])
    BY <1>1, <1>2, <1>3, <1>4, <1>5
  <2>3. OnceInv =>
          /\ query'[q].ran <= 1
          /\ stmt'[s].fresh /\ query'[q].mChanges < 0 /\ ~query'[q].threw => query'[q].ran = 0
    BY <1>1, <1>2, <1>3, <1>4, <1>5
  <2> QED
    BY <1>1, <1>2, <1>3, <1>4, <1>5, <2>1, <2>2, <2>3, InPlace

LEMMA StepNoMoreKeeps ==
    ASSUME IInv, SqliteAssumption, NEW t \in Threads, NEW q \in Queries, StepNoMore(t, q)
    PROVE  IInv' /\ (OnceInv => OnceInv')
<1> DEFINE s == query[q].statement
<1>1. /\ thread[t].pc = "in" /\ q \in DOMAIN query /\ s # Null
      /\ UNCHANGED <<mutex, thread, stmt, db>>
  BY DEF StepNoMore, Usable, At, OwnQueries
<1>2. /\ query[q].of = t /\ query[q] \in QueryType /\ s \in DOMAIN stmt /\ stmt[s] \in StmtType
      /\ stmt[s].bound = query[q].given /\ (stmt[s].dml => stmt[s].fresh)
      /\ OnceInv => query[q].ran <= 1
  BY <1>1, AtRest
<1>3. /\ DOMAIN query' = DOMAIN query
      /\ \A p \in DOMAIN query : p # q => query'[p] = query[p]
      /\ query'[q] = [query[q] EXCEPT !.mChanges = 0, !.more = TRUE]
  BY <1>1 DEF StepNoMore
<1>4. /\ query'[q] \in QueryType /\ query'[q].of = t /\ query'[q].statement = s
      /\ query'[q].given = query[q].given /\ query'[q].mChanges = 0 /\ query'[q].more
      /\ query'[q].ran = query[q].ran
  <2>1. query'[q] \in QueryType
    <3>1. query[q] \in QueryType
      BY <1>2
    <3>2. query'[q] = [query[q] EXCEPT !.mChanges = 0, !.more = TRUE]
      BY <1>3
    <3>3. \A x \in QueryType, m \in Int, e \in BOOLEAN :
             [x EXCEPT !.mChanges = m, !.more = e] \in QueryType
      BY DEF QueryType
    <3>4. 0 \in Int /\ TRUE \in BOOLEAN
      OBVIOUS
    <3>5. [query[q] EXCEPT !.mChanges = 0, !.more = TRUE] \in QueryType
      BY <3>1, <3>3, <3>4, Zenon
    <3> QED
      BY <3>2, <3>5, Zenon
  <2> QED
    BY <1>2, <1>3, <2>1 DEF QueryType
<1> QED
  <2>1. stmt'[s] \in StmtType /\ stmt'[s].bound = query'[q].given /\ (stmt'[s].dml => stmt'[s].fresh)
    BY <1>1, <1>2, <1>3, <1>4
  <2>2. stmt'[s].dml /\ query'[q].mChanges >= 0 => query'[q].mChanges = Reports(query'[q])
    BY <1>4 DEF Reports
  <2>3. OnceInv =>
          /\ query'[q].ran <= 1
          /\ stmt'[s].fresh /\ query'[q].mChanges < 0 /\ ~query'[q].threw => query'[q].ran = 0
    BY <1>1, <1>2, <1>3, <1>4
  <2> QED
    BY <1>1, <1>2, <1>3, <1>4, <2>1, <2>2, <2>3, InPlace

\* A call of sqlite3_step in a method of the query q, and where the method goes.
Stepped(t, q, r, again, throws) ==
    /\ q \in DOMAIN query /\ query[q].of = t /\ query[q].statement # Null
    /\ thread[t].pc \in {"in", "repeat", "busy"} /\ thread[t].in \in {Null, q}
    /\ r \in Returns(query[q].statement) /\ sqlite3_step(q, r, again, throws)
    /\ UNCHANGED mutex
    /\ thread' \in [Threads -> ThreadType] /\ \A u \in Threads : u # t => thread'[u] = thread[u]
    /\ \/ /\ thread'[t].pc = "in" /\ thread'[t].in = Null
          /\ query[q].mChanges < 0 \/ r[1] # "done"
       \/ thread'[t].pc = "changes" /\ thread'[t].in = q /\ r[1] = "done"
       \/ /\ thread'[t].pc \in {"schema", "busy", "repeat"} /\ thread'[t].in = q
          /\ query[q].mChanges < 0

\* The others are not affected.
OthersStay(t, q) ==
    /\ query[q].statement \in DOMAIN stmt
    /\ \A u \in Threads : u # t => ~InMethod(u) /\ ~InMethod(u)'
                                    /\ thread'[u].pc \in {"out", "session", "exec"}
    /\ \A p \in DOMAIN query : p # q =>
         /\ query'[p] = query[p] /\ query[p].of = t
         /\ thread[t].in # p /\ thread'[t].in # p
         /\ query[p].statement # Null =>
               /\ query[p].statement \in DOMAIN stmt
               /\ stmt'[query[p].statement] = stmt[query[p].statement]

LEMMA SteppedOthers ==
    ASSUME IInv, SqliteAssumption, NEW t \in Threads, NEW q, NEW r,
           NEW again \in BOOLEAN, NEW throws \in BOOLEAN, Stepped(t, q, r, again, throws)
    PROVE  OthersStay(t, q)
<1>1. /\ q \in DOMAIN query /\ query[q].of = t /\ query[q].statement # Null
      /\ thread[t].pc \in {"in", "repeat", "busy"} /\ thread[t].in \in {Null, q}
      /\ r \in Returns(query[q].statement) /\ sqlite3_step(q, r, again, throws)
      /\ \A u \in Threads : u # t => thread'[u] = thread[u]
      /\ thread'[t].in \in {Null, q}
  BY DEF Stepped
<1>2. query[q].statement \in DOMAIN stmt
  BY <1>1, HasOne DEF IInv
<1>3. /\ \A p \in DOMAIN query : p # q => query'[p] = query[p]
      /\ \A s \in DOMAIN stmt : s # query[q].statement => stmt'[s] = stmt[s]
  BY <1>1, <1>2, StepIs DEF IInv
<1>4. /\ \A u \in Threads : u # t => ~InMethod(u) /\ thread[u].pc \in {"out", "session", "exec"}
      /\ \A p \in DOMAIN query : query[p].of = t
  BY <1>1, Alone DEF IInv
<1>5. \A u \in Threads : u # t => ~InMethod(u)' /\ thread'[u].pc \in {"out", "session", "exec"}
  BY <1>1, <1>4 DEF InMethod
<1>6. ASSUME NEW p \in DOMAIN query, p # q PROVE thread[t].in # p /\ thread'[t].in # p
  <2>1. p # Null
    BY DEF IInv, TypeOK, SqliteAssumption
  <2> QED
    BY <1>1, <1>6, <2>1
<1>7. ASSUME NEW p \in DOMAIN query, p # q, query[p].statement # Null
      PROVE  /\ query[p].statement \in DOMAIN stmt
             /\ stmt'[query[p].statement] = stmt[query[p].statement]
  <2>1. query[p].statement \in DOMAIN stmt
    BY <1>7, HasOne DEF IInv
  <2>2. query[p].statement # query[q].statement
    BY <1>1, <1>7 DEF IInv, Owned
  <2> QED
    BY <1>3, <2>1, <2>2
<1> QED
  BY <1>2, <1>3, <1>4, <1>5, <1>6, <1>7 DEF OthersStay

LEMMA SteppedKeeps ==
    ASSUME IInv, SqliteAssumption, NEW t \in Threads, NEW q, NEW r,
           NEW again \in BOOLEAN, NEW throws \in BOOLEAN, Stepped(t, q, r, again, throws)
    PROVE  IInv'
<1> DEFINE s == query[q].statement
<1>1. /\ q \in DOMAIN query /\ query[q].of = t /\ s # Null
      /\ thread[t].pc \in {"in", "repeat", "busy"} /\ thread[t].in \in {Null, q}
      /\ r \in Returns(s) /\ sqlite3_step(q, r, again, throws)
      /\ UNCHANGED mutex
      /\ thread' \in [Threads -> ThreadType] /\ \A u \in Threads : u # t => thread'[u] = thread[u]
  BY DEF Stepped
<1>2. \/ /\ thread'[t].pc = "in" /\ thread'[t].in = Null
         /\ query[q].mChanges < 0 \/ r[1] # "done"
      \/ thread'[t].pc = "changes" /\ thread'[t].in = q /\ r[1] = "done"
      \/ /\ thread'[t].pc \in {"schema", "busy", "repeat"} /\ thread'[t].in = q
         /\ query[q].mChanges < 0
  BY DEF Stepped
<1>3. /\ s \in DOMAIN stmt
      /\ \A u \in Threads : u # t => ~InMethod(u) /\ ~InMethod(u)'
                                      /\ thread'[u].pc \in {"out", "session", "exec"}
      /\ \A p \in DOMAIN query : p # q =>
           /\ query'[p] = query[p] /\ query[p].of = t
           /\ thread[t].in # p /\ thread'[t].in # p
           /\ query[p].statement # Null =>
                 /\ query[p].statement \in DOMAIN stmt
                 /\ stmt'[query[p].statement] = stmt[query[p].statement]
  <2>1. OthersStay(t, q)
    BY SteppedOthers
  <2> QED
    BY <2>1 DEF OthersStay
<1>4. /\ r[1] \in {"error", "row", "done", "busy", "schema"}
      /\ r[2] = 1 => stmt[s].fresh /\ r[1] \in {"row", "done"}
      /\ r[1] \in {"busy", "schema"} => stmt[s].fresh
      /\ stmt[s].fresh /\ r[1] = "done" => r[2] = 1
      /\ stmt[s].fresh /\ stmt[s].dml => r[1] # "row"
  BY <1>1, <1>3, ReturnsIs DEF IInv
<1>5. /\ DOMAIN query' = DOMAIN query /\ DOMAIN stmt' = DOMAIN stmt /\ db' \in DbType
      /\ \A u \in DOMAIN stmt : u # s => stmt'[u] = stmt[u]
      /\ query'[q] \in QueryType /\ stmt'[s] \in StmtType
      /\ query'[q].of = query[q].of /\ query'[q].statement = s
      /\ query'[q].given = query[q].given /\ query'[q].mChanges = query[q].mChanges
      /\ query'[q].changed = (IF r[2] = 1 THEN r[3] ELSE query[q].changed) /\ query'[q].more = query[q].more
      /\ stmt'[s].bound = stmt[s].bound /\ stmt'[s].dml = stmt[s].dml
      /\ stmt'[s].fresh = (IF r[1] \in {"busy", "schema"} THEN stmt[s].fresh ELSE r[1] # "row")
      /\ db'.changes = (IF stmt[s].dml /\ r[2] = 1 THEN r[3] ELSE db.changes)
  BY <1>1, <1>3, StepIs DEF IInv
<1>6. stmt[s].dml => stmt[s].fresh /\ stmt'[s].fresh
  BY <1>3, <1>4, <1>5 DEF IInv, ChangesInv
<1>7. TypeOK'
  <2>1. \A p \in DOMAIN query : query'[p] \in QueryType
    BY <1>3, <1>5 DEF IInv, TypeOK
  <2>2. \A u \in DOMAIN stmt : stmt'[u] \in StmtType
    BY <1>5 DEF IInv, TypeOK
  <2> QED
    BY <1>1, <1>5, <2>1, <2>2 DEF IInv, TypeOK
<1>8. Serialized'
  <2>1. mutex = t /\ \A p \in DOMAIN query : query[p].of = t
    BY <1>1, Alone DEF IInv
  <2>2. \A p \in DOMAIN query' : mutex' = query'[p].of
    BY <1>1, <1>3, <1>5, <2>1
  <2>3. \A u \in Threads : thread'[u].pc \in {"out", "session", "exec"} \/ mutex' = u
    BY <1>1, <1>3, <2>1
  <2>4. \A u \in Threads : ~(thread'[u].pc \in {"executing", "executed"})
    BY <1>2, <1>3
  <2>5. ASSUME NEW u \in Threads
        PROVE  IF InMethod(u)'
               THEN thread'[u].in \in DOMAIN query' /\ query'[thread'[u].in].statement # Null
               ELSE thread'[u].in = Null
    <3>1. CASE u = t
      BY <3>1, <1>1, <1>2, <1>5 DEF InMethod
    <3>2. CASE u # t
      <4>1. ~InMethod(u)' /\ thread'[u].in = thread[u].in /\ thread[u].in = Null
        BY <3>2, <1>1, <1>3 DEF IInv, Serialized
      <4> QED
        BY <4>1
    <3> QED
      BY <3>1, <3>2
  <2> QED
    BY <2>2, <2>3, <2>4, <2>5 DEF Serialized
<1>9. Owned'
  <2>1. ASSUME NEW p \in DOMAIN query
        PROVE  /\ query'[p].statement = query[p].statement
               /\ query[p].statement # Null => stmt'[query[p].statement].bound = query'[p].given
    <3>1. query[p].statement # Null => stmt[query[p].statement].bound = query[p].given
      BY DEF IInv, Owned
    <3>2. CASE p = q
      BY <3>1, <3>2, <1>5
    <3>3. CASE p # q
      BY <3>1, <3>3, <1>3
    <3> QED
      BY <3>2, <3>3
  <2> QED
    BY <2>1, <1>5, OwnersStay DEF IInv
<1>10. ChangesInv'
  <2>1. \A u \in DOMAIN stmt' : stmt'[u].dml => stmt'[u].fresh
    BY <1>5, <1>6 DEF IInv, ChangesInv
  <2>2. ASSUME NEW u \in Threads, InMethod(u)'
        PROVE  LET p == query'[thread'[u].in]
               IN  IF At(u, "changes")' THEN stmt'[p.statement].dml => db'.changes = p.changed
                                         ELSE p.mChanges < 0
    <3>1. u = t
      BY <2>2, <1>3
    <3>2. CASE thread'[t].pc = "changes"
      <4>1. thread'[t].in = q /\ r[1] = "done"
        BY <3>2, <1>2
      <4>2. stmt'[s].dml => r[2] = 1
        BY <4>1, <1>4, <1>5, <1>6
      <4>3. stmt'[s].dml => db'.changes = query'[q].changed
        BY <4>2, <1>5
      <4> QED
        BY <3>1, <3>2, <4>1, <4>3, <1>5 DEF At
    <3>3. CASE thread'[t].pc # "changes"
      <4>1. thread'[t].in = q /\ query[q].mChanges < 0
        BY <3>1, <3>3, <2>2, <1>2 DEF InMethod
      <4> QED
        BY <3>1, <3>3, <4>1, <1>5 DEF At
    <3> QED
      BY <3>2, <3>3
  <2>3. ASSUME NEW p \in DOMAIN query', query'[p].statement # Null, stmt'[query'[p].statement].dml,
               query'[p].mChanges >= 0, thread'[query'[p].of].in # p
        PROVE  query'[p].mChanges = Reports(query'[p])
    <3>1. CASE p = q
      <4>1. /\ stmt[s].dml /\ query[q].mChanges >= 0 /\ thread'[t].in # q
        BY <3>1, <2>3, <1>1, <1>5
      <4>2. thread'[t].pc = "in" /\ r[1] # "done" /\ query[q].mChanges >= 0
        <5>1. query[q].mChanges \in Int
          BY <1>1 DEF IInv, TypeOK, QueryType
        <5> QED
          BY <4>1, <5>1, <1>2
      <4>3. r[2] # 1
        BY <4>1, <4>2, <1>4, <1>6
      <4>4. thread[t].in # q
        <5>1. ~(thread[t].pc \in {"repeat", "busy"})
          <6>1. InMethod(t) /\ ~At(t, "changes") => query[thread[t].in].mChanges < 0
            BY DEF IInv, ChangesInv
          <6>2. InMethod(t) => thread[t].in = q
            <7>1. InMethod(t) => thread[t].in \in DOMAIN query
              BY DEF IInv, Serialized
            <7>2. Null \notin DOMAIN query
              BY DEF IInv, TypeOK, SqliteAssumption
            <7> QED
              BY <7>1, <7>2, <1>1
          <6>3. query[q].mChanges \in Int
            BY <1>1 DEF IInv, TypeOK, QueryType
          <6> QED
            BY <6>1, <6>2, <6>3, <4>1 DEF InMethod, At
        <5>2. thread[t].pc = "in"
          BY <5>1, <1>1
        <5>3. thread[t].in = Null
          BY <5>2 DEF IInv, Serialized, InMethod
        <5> QED
          BY <5>3, <1>1 DEF IInv, TypeOK, SqliteAssumption
      <4>5. query[q].mChanges = Reports(query[q])
        BY <4>1, <4>4, <1>1 DEF IInv, ChangesInv, OwnChanges
      <4> QED
        BY <3>1, <4>3, <4>5, <1>5 DEF Reports
    <3>2. CASE p # q
      <4>1. /\ p \in DOMAIN query /\ query'[p] = query[p] /\ query[p].of = t /\ thread[t].in # p
            /\ query[p].statement # Null => stmt'[query[p].statement] = stmt[query[p].statement]
        BY <3>2, <1>3, <1>5
      <4> QED
        BY <4>1, <2>3 DEF IInv, ChangesInv, OwnChanges
    <3> QED
      BY <3>1, <3>2
  <2>4. OwnChanges'
    BY <2>3 DEF OwnChanges
  <2> QED
    BY <2>1, <2>2, <2>4 DEF ChangesInv
<1> QED
  BY <1>7, <1>8, <1>9, <1>10 DEF IInv

\* A query is executed once: what is stepped has not been executed before when
\* it begins, and what was executed is DONE, is being read, or has failed.
Begins(t, q, r, again, throws) ==
    /\ again /\ stmt[query[q].statement].fresh => query[q].ran = 0
    /\ ~again => stmt[query[q].statement].fresh
    /\ r[1] = "error" => throws
    /\ r[1] = "done" => throws \/ thread'[t].pc = "changes"
    /\ thread'[t].pc \in {"schema", "busy", "repeat"} => ~throws
    /\ thread'[t].pc = "schema" => r[1] = "schema"

LEMMA SteppedOnce ==
    ASSUME IInv, OnceInv, SqliteAssumption, NEW t \in Threads, NEW q, NEW r,
           NEW again \in BOOLEAN, NEW throws \in BOOLEAN, Stepped(t, q, r, again, throws),
           Begins(t, q, r, again, throws)
    PROVE  OnceInv'
<1> DEFINE s == query[q].statement
<1>1. /\ q \in DOMAIN query /\ query[q].of = t /\ s # Null
      /\ thread[t].pc \in {"in", "repeat", "busy"} /\ thread[t].in \in {Null, q}
      /\ r \in Returns(s) /\ sqlite3_step(q, r, again, throws)
      /\ thread'[t].in \in {Null, q} /\ (thread'[t].pc # "in" => thread'[t].in = q)
  BY DEF Stepped
<1>2. OthersStay(t, q)
  BY SteppedOthers
<1>3. s \in DOMAIN stmt
  BY <1>2 DEF OthersStay
<1>4. /\ r[1] \in {"error", "row", "done", "busy", "schema"} /\ r[2] \in {0, 1}
      /\ r[2] = 1 => stmt[s].fresh /\ r[1] \in {"row", "done"}
      /\ r[1] \in {"busy", "schema"} => stmt[s].fresh
  BY <1>1, <1>3, ReturnsIs DEF IInv
<1>5. /\ DOMAIN query' = DOMAIN query
      /\ query'[q].of = query[q].of /\ query'[q].statement = s
      /\ query'[q].ran = r[2] + (IF again THEN query[q].ran ELSE 0)
      /\ query'[q].threw = throws
      /\ stmt'[s].fresh = (IF r[1] \in {"busy", "schema"} THEN stmt[s].fresh ELSE r[1] # "row")
  BY <1>1, <1>3, StepIs DEF IInv
<1>6. query[q].ran \in Nat /\ query[q].ran <= 1
  BY <1>1 DEF IInv, TypeOK, QueryType, OnceInv, Once
<1>7. (IF again THEN query[q].ran ELSE 0) \in {0, 1} /\ (stmt[s].fresh => query'[q].ran = r[2])
  BY <1>4, <1>5, <1>6 DEF Begins
<1>8. query'[q].ran <= 1
  BY <1>4, <1>5, <1>7
<1>9. ASSUME NEW p \in DOMAIN query', p # q
      PROVE  query'[p].ran <= 1 /\ (Ready(p)' => query'[p].ran = 0)
  <2>1. /\ p \in DOMAIN query /\ query'[p] = query[p] /\ query[p].of = t
        /\ thread[t].in # p /\ thread'[t].in # p
        /\ query[p].statement # Null => stmt'[query[p].statement] = stmt[query[p].statement]
    BY <1>2, <1>5, <1>9 DEF OthersStay
  <2>2. Ready(p)' => Ready(p)
    BY <2>1 DEF Ready
  <2> QED
    BY <2>1, <2>2 DEF OnceInv, Once
<1>10. ASSUME Ready(q)' PROVE query'[q].ran = 0
  <2>1. /\ stmt'[s].fresh /\ ~throws /\ ~(thread'[t].pc = "changes" /\ thread'[t].in = q)
    BY <1>1, <1>5, <1>10 DEF Ready, At
  <2>2. r[1] \in {"busy", "schema"}
    BY <1>1, <1>4, <1>5, <2>1 DEF Begins
  <2> QED
    BY <1>4, <1>7, <2>2
<1>11. ASSUME NEW u \in Threads, InMethod(u)', ~At(u, "changes")'
       PROVE  /\ ~query'[thread'[u].in].threw
              /\ At(u, "schema")' => query'[thread'[u].in].ran = 0
  <2>1. u = t
    BY <1>2, <1>11 DEF OthersStay
  <2>2. thread'[t].pc \in {"schema", "busy", "repeat"} /\ thread'[t].in = q
    BY <1>1, <1>11, <2>1 DEF InMethod, At
  <2>3. ~throws
    BY <2>2 DEF Begins
  <2>4. thread'[t].pc = "schema" => query'[q].ran = 0
    BY <1>4, <1>7 DEF Begins
  <2> QED
    BY <1>5, <2>1, <2>2, <2>3, <2>4 DEF At
<1> QED
  BY <1>8, <1>9, <1>10, <1>11 DEF OnceInv, Once

LEMMA DoneIs ==
    ASSUME TypeOK, NEW t \in Threads, NEW q \in Queries, Done(t, q)
    PROVE  /\ thread' \in [Threads -> ThreadType] /\ thread'[t].pc = "changes" /\ thread'[t].in = q
           /\ \A u \in Threads : u # t => thread'[u] = thread[u]
BY DEF Done, TypeOK, ThreadType, Places

\* step and ustep in the session.
LEMMA StepKeeps ==
    ASSUME IInv, SqliteAssumption, NEW t \in Threads, NEW q \in Queries, Step(t, q)
    PROVE  IInv' /\ (OnceInv /\ "again" \notin Habits => OnceInv')
<1>1. PICK r \in Returns(query[q].statement), par \in {FALSE, query[q].par} :
        /\ sqlite3_step(q, r, TRUE, r[1] = "error" \/ (~par /\ r[1] \in {"busy", "schema"}))
        /\ \/ r[1] = "done" /\ Done(t, q)
           \/ r[1] = "schema" /\ par
              /\ thread' = [thread EXCEPT ![t] = [@ EXCEPT !.pc = "schema", !.in = q]]
           \/ r[1] = "busy" /\ par
              /\ thread' = [thread EXCEPT ![t] = [@ EXCEPT !.pc = "busy", !.in = q, !.repeat = Repeat]]
           \/ (r[1] \in {"row", "error"} \/ (r[1] # "done" /\ ~par)) /\ UNCHANGED thread
  BY DEF Step
<1>2. /\ thread[t].pc = "in" /\ q \in DOMAIN query /\ query[q].of = t /\ query[q].statement # Null
      /\ ~(query[q].mChanges >= 0) /\ UNCHANGED mutex
      /\ query[q].threw => "again" \in Habits
  BY DEF Step, Usable, At, OwnQueries, Finished
<1>3. /\ thread \in [Threads -> ThreadType] /\ thread[t].in = Null /\ query[q].mChanges < 0
      /\ query[q].threw \in BOOLEAN
  <2>1. thread \in [Threads -> ThreadType] /\ query[q] \in QueryType
    BY <1>2 DEF IInv, TypeOK
  <2>2. query[q].mChanges \in Int /\ query[q].threw \in BOOLEAN
    BY <2>1 DEF QueryType
  <2>3. thread[t].in = Null
    BY <1>2 DEF IInv, Serialized, InMethod
  <2> QED
    BY <1>2, <2>1, <2>2, <2>3
<1> DEFINE throws == r[1] = "error" \/ (~par /\ r[1] \in {"busy", "schema"})
<1>4. /\ thread' \in [Threads -> ThreadType] /\ \A u \in Threads : u # t => thread'[u] = thread[u]
      /\ \/ thread'[t].pc = "in" /\ thread'[t].in = Null /\ r[1] # "done"
         \/ thread'[t].pc = "changes" /\ thread'[t].in = q /\ r[1] = "done"
         \/ thread'[t].pc = r[1] /\ r[1] \in {"schema", "busy"} /\ thread'[t].in = q /\ ~throws
  <2>1. CASE r[1] = "done" /\ Done(t, q)
    BY <2>1, DoneIs DEF IInv
  <2>2. CASE r[1] = "schema" /\ par
              /\ thread' = [thread EXCEPT ![t] = [@ EXCEPT !.pc = "schema", !.in = q]]
    <3>1. thread'[t] = [thread[t] EXCEPT !.pc = "schema", !.in = q]
      BY <2>2, <1>3
    <3>2. thread[t] \in ThreadType /\ thread'[t].pc = r[1] /\ thread'[t].in = q
      BY <2>2, <1>3, <3>1 DEF ThreadType
    <3>3. thread'[t] \in ThreadType
      BY <3>1, <3>2 DEF ThreadType, Places
    <3>4. \A u \in Threads : u # t => thread'[u] = thread[u]
      BY <2>2, <1>3
    <3>5. thread' \in [Threads -> ThreadType]
      BY <2>2, <1>3, <3>1, <3>3
    <3> QED
      BY <2>2, <3>2, <3>4, <3>5
  <2>3. CASE r[1] = "busy" /\ par
              /\ thread' = [thread EXCEPT ![t] = [@ EXCEPT !.pc = "busy", !.in = q, !.repeat = Repeat]]
    <3>1. thread'[t] = [thread[t] EXCEPT !.pc = "busy", !.in = q, !.repeat = Repeat]
      BY <2>3, <1>3
    <3>2. thread[t] \in ThreadType /\ thread'[t].pc = r[1] /\ thread'[t].in = q
      BY <2>3, <1>3, <3>1 DEF ThreadType
    <3>3. thread'[t] \in ThreadType
      BY <3>1, <3>2 DEF ThreadType, Places, SqliteAssumption
    <3>4. \A u \in Threads : u # t => thread'[u] = thread[u]
      BY <2>3, <1>3
    <3>5. thread' \in [Threads -> ThreadType]
      BY <2>3, <1>3, <3>1, <3>3
    <3> QED
      BY <2>3, <3>2, <3>4, <3>5
  <2>4. CASE (r[1] \in {"row", "error"} \/ (r[1] # "done" /\ ~par)) /\ UNCHANGED thread
    BY <2>4, <1>2, <1>3
  <2> QED
    BY <1>1, <2>1, <2>2, <2>3, <2>4
<1>5. Stepped(t, q, r, TRUE, throws)
  BY <1>1, <1>2, <1>3, <1>4 DEF Stepped
<1>6. IInv'
  BY <1>5, SteppedKeeps
<1>7. ASSUME OnceInv, "again" \notin Habits PROVE OnceInv'
  <2>1. stmt[query[q].statement].fresh => query[q].ran = 0
    BY <1>2, <1>3, <1>7 DEF OnceInv, Ready, At
  <2>2. /\ r[1] = "error" => throws
        /\ r[1] = "done" => throws \/ thread'[t].pc = "changes"
        /\ thread'[t].pc \in {"schema", "busy", "repeat"} => ~throws
        /\ thread'[t].pc = "schema" => r[1] = "schema"
    BY <1>4
  <2>3. Begins(t, q, r, TRUE, throws)
    BY <2>1, <2>2 DEF Begins
  <2>4. throws \in BOOLEAN
    OBVIOUS
  <2> HIDE DEF throws
  <2> QED
    BY <1>5, <1>7, <2>3, <2>4, SteppedOnce
<1> QED
  BY <1>6, <1>7

LEMMA UStepKeeps ==
    ASSUME IInv, SqliteAssumption, NEW t \in Threads, NEW q \in Queries, UStep(t, q)
    PROVE  IInv' /\ (OnceInv => OnceInv')
<1> DEFINE again == ~stmt[query[q].statement].fresh
<1>1. PICK r \in Returns(query[q].statement) :
        /\ sqlite3_step(q, r, again, r[1] \notin {"row", "done"})
        /\ IF r[1] = "done" THEN Done(t, q) ELSE UNCHANGED thread
  BY DEF UStep
<1>2. /\ thread[t].pc = "in" /\ q \in DOMAIN query /\ query[q].of = t /\ query[q].statement # Null
      /\ UNCHANGED mutex
  BY DEF UStep, Usable, At, OwnQueries
<1>3. thread \in [Threads -> ThreadType] /\ thread[t].in = Null
  BY <1>2 DEF IInv, TypeOK, Serialized, InMethod
<1>4. /\ thread' \in [Threads -> ThreadType] /\ \A u \in Threads : u # t => thread'[u] = thread[u]
      /\ \/ thread'[t].pc = "in" /\ thread'[t].in = Null /\ r[1] # "done"
         \/ thread'[t].pc = "changes" /\ thread'[t].in = q /\ r[1] = "done"
  <2>1. CASE r[1] = "done"
    BY <2>1, <1>1, DoneIs DEF IInv
  <2>2. CASE r[1] # "done"
    BY <2>2, <1>1, <1>2, <1>3
  <2> QED
    BY <2>1, <2>2
<1> DEFINE throws == r[1] \notin {"row", "done"}
<1>5. again \in BOOLEAN
  OBVIOUS
<1>6. Stepped(t, q, r, again, throws)
  BY <1>1, <1>2, <1>3, <1>4 DEF Stepped
<1>7. IInv'
  BY <1>5, <1>6, SteppedKeeps
<1>8. ASSUME OnceInv PROVE OnceInv'
  <2>1. /\ r[1] = "error" => throws
        /\ r[1] = "done" => throws \/ thread'[t].pc = "changes"
        /\ ~(thread'[t].pc \in {"schema", "busy", "repeat"}) /\ thread'[t].pc # "schema"
    BY <1>4
  <2>2. /\ again /\ stmt[query[q].statement].fresh => query[q].ran = 0
        /\ ~again => stmt[query[q].statement].fresh
    OBVIOUS
  <2>3. Begins(t, q, r, again, throws)
    BY <2>1, <2>2 DEF Begins
  <2>4. throws \in BOOLEAN
    OBVIOUS
  <2> HIDE DEF throws, again
  <2> QED
    BY <1>5, <1>6, <1>8, <2>3, <2>4, SteppedOnce
<1> QED
  BY <1>7, <1>8

\* Who is in a method, is in one of its own query.
LEMMA Inside ==
    ASSUME IInv, SqliteAssumption, NEW t \in Threads, InMethod(t)
    PROVE  LET q == thread[t].in
           IN  /\ q \in DOMAIN query /\ q \in Queries /\ query[q] \in QueryType /\ query[q].of = t
               /\ query[q].statement # Null /\ query[q].statement \in DOMAIN stmt
               /\ stmt[query[q].statement] \in StmtType
               /\ thread[t].pc # "changes" =>
                     /\ query[q].mChanges < 0
                     /\ OnceInv => /\ ~query[q].threw
                                   /\ stmt[query[q].statement].fresh => query[q].ran = 0
                                   /\ thread[t].pc = "schema" => query[q].ran = 0
<1> DEFINE q == thread[t].in
<1>1. q \in DOMAIN query /\ query[q].statement # Null
  BY DEF IInv, Serialized
<1>2. query[q].of = t
  BY <1>1, Alone DEF IInv, InMethod
<1>3. query[q].statement \in DOMAIN stmt
  BY <1>1, HasOne DEF IInv
<1>4. q \in Queries /\ query[q] \in QueryType /\ stmt[query[q].statement] \in StmtType
  BY <1>1, <1>3 DEF IInv, TypeOK
<1>5. thread[t].pc # "changes" => query[q].mChanges < 0
  BY DEF IInv, ChangesInv, At
<1>6. ASSUME thread[t].pc # "changes", OnceInv
      PROVE  /\ ~query[q].threw
             /\ stmt[query[q].statement].fresh => query[q].ran = 0
             /\ thread[t].pc = "schema" => query[q].ran = 0
  <2>1. ~query[q].threw /\ (thread[t].pc = "schema" => query[q].ran = 0)
    BY <1>6 DEF OnceInv, At
  <2>2. stmt[query[q].statement].fresh => Ready(q)
    BY <1>1, <1>2, <1>5, <1>6, <2>1 DEF Ready, At
  <2> QED
    BY <1>1, <1>6, <2>1, <2>2 DEF OnceInv
<1> QED
  BY <1>1, <1>2, <1>3, <1>4, <1>5, <1>6

\* step again, after SQLITE_SCHEMA and SQLITE_BUSY.
LEMMA StepAgainKeeps ==
    ASSUME IInv, SqliteAssumption, NEW t \in Threads, StepAgain(t)
    PROVE  IInv' /\ (OnceInv => OnceInv')
<1> DEFINE q == thread[t].in
<1>1. PICK r \in Returns(query[q].statement) :
        /\ sqlite3_step(q, r, TRUE, r[1] = "error")
        /\ \/ r[1] = "done" /\ Done(t, q)
           \/ r[1] = "schema" /\ Goto(t, "schema")
           \/ r[1] = "busy" /\ thread' = [thread EXCEPT ![t] = [@ EXCEPT !.pc = "busy", !.repeat = Repeat]]
           \/ r[1] \in {"row", "error"} /\ Back(t)
  BY DEF StepAgain
<1>2. thread[t].pc = "repeat" /\ InMethod(t) /\ UNCHANGED mutex
  BY DEF StepAgain, At, InMethod
<1>3. /\ q \in DOMAIN query /\ q \in Queries /\ query[q].of = t /\ query[q].statement # Null
      /\ query[q].mChanges < 0
      /\ OnceInv => (stmt[query[q].statement].fresh => query[q].ran = 0)
  BY <1>2, Inside
<1>4. thread \in [Threads -> ThreadType]
  BY DEF IInv, TypeOK
<1> DEFINE throws == r[1] = "error"
<1>5. /\ thread' \in [Threads -> ThreadType] /\ \A u \in Threads : u # t => thread'[u] = thread[u]
      /\ \/ thread'[t].pc = "in" /\ thread'[t].in = Null /\ r[1] # "done"
         \/ thread'[t].pc = "changes" /\ thread'[t].in = q /\ r[1] = "done"
         \/ thread'[t].pc = r[1] /\ r[1] \in {"schema", "busy"} /\ thread'[t].in = q
  <2>1. CASE r[1] = "done" /\ Done(t, q)
    BY <2>1, <1>3, DoneIs DEF IInv
  <2>2. CASE r[1] = "schema" /\ Goto(t, "schema")
    <3>1. "schema" \in Places
      BY DEF Places
    <3> QED
      BY <2>2, <3>1, GotoIs DEF IInv
  <2>3. CASE r[1] = "busy" /\ thread' = [thread EXCEPT ![t] = [@ EXCEPT !.pc = "busy", !.repeat = Repeat]]
    BY <2>3, <1>4 DEF ThreadType, Places, SqliteAssumption
  <2>4. CASE r[1] \in {"row", "error"} /\ Back(t)
    BY <2>4, BackIs DEF IInv
  <2> QED
    BY <1>1, <2>1, <2>2, <2>3, <2>4
<1>6. Stepped(t, q, r, TRUE, throws)
  BY <1>1, <1>2, <1>3, <1>5 DEF Stepped
<1>7. IInv'
  BY <1>6, SteppedKeeps
<1>8. ASSUME OnceInv PROVE OnceInv'
  <2>1. /\ r[1] = "error" => throws
        /\ r[1] = "done" => throws \/ thread'[t].pc = "changes"
        /\ thread'[t].pc \in {"schema", "busy", "repeat"} => ~throws
        /\ thread'[t].pc = "schema" => r[1] = "schema"
    BY <1>5
  <2>2. Begins(t, q, r, TRUE, throws)
    BY <1>3, <1>8, <2>1 DEF Begins
  <2>3. throws \in BOOLEAN
    OBVIOUS
  <2> HIDE DEF throws
  <2> QED
    BY <1>6, <1>8, <2>2, <2>3, SteppedOnce
<1> QED
  BY <1>7, <1>8

\* The loop of SQLITE_BUSY executes the statement and throws: the query is not
\* stepped again.
LEMMA RetryBusyKeeps ==
    ASSUME IInv, SqliteAssumption, NEW t \in Threads, RetryBusy(t)
    PROVE  IInv' /\ (OnceInv => OnceInv')
<1> DEFINE q == thread[t].in  goes == thread[t].repeat > 0
<1>1. PICK r \in Returns(query[q].statement) :
        /\ sqlite3_step(q, r, TRUE, r[1] # "busy" \/ ~goes)
        /\ IF r[1] = "busy" /\ goes
           THEN thread' = [thread EXCEPT ![t].repeat = @ - 1] ELSE Back(t)
  BY DEF RetryBusy
<1>2. thread[t].pc = "busy" /\ InMethod(t) /\ UNCHANGED mutex
  BY DEF RetryBusy, At, InMethod
<1>3. /\ q \in DOMAIN query /\ q \in Queries /\ query[q].of = t /\ query[q].statement # Null
      /\ query[q].mChanges < 0
      /\ OnceInv => (stmt[query[q].statement].fresh => query[q].ran = 0)
  BY <1>2, Inside
<1>4. thread \in [Threads -> ThreadType] /\ thread[t].repeat \in Nat
  BY DEF IInv, TypeOK, ThreadType
<1> DEFINE throws == r[1] # "busy" \/ ~goes
<1>5. /\ thread' \in [Threads -> ThreadType] /\ \A u \in Threads : u # t => thread'[u] = thread[u]
      /\ \/ thread'[t].pc = "in" /\ thread'[t].in = Null /\ throws
         \/ thread'[t].pc = "busy" /\ thread'[t].in = q /\ ~throws
  <2>1. CASE r[1] = "busy" /\ goes
    <3>1. thread[t].repeat - 1 \in Nat
      BY <2>1, <1>4
    <3> QED
      BY <2>1, <3>1, <1>1, <1>2, <1>4 DEF ThreadType
  <2>2. CASE ~(r[1] = "busy" /\ goes)
    BY <2>2, <1>1, BackIs DEF IInv
  <2> QED
    BY <2>1, <2>2
<1>6. Stepped(t, q, r, TRUE, throws)
  BY <1>1, <1>2, <1>3, <1>5 DEF Stepped
<1>7. IInv'
  BY <1>6, SteppedKeeps
<1>8. ASSUME OnceInv PROVE OnceInv'
  <2>1. /\ r[1] = "error" => throws
        /\ r[1] = "done" => throws \/ thread'[t].pc = "changes"
        /\ thread'[t].pc \in {"schema", "busy", "repeat"} => ~throws
        /\ thread'[t].pc # "schema"
    BY <1>5
  <2>2. Begins(t, q, r, TRUE, throws)
    BY <1>3, <1>8, <2>1 DEF Begins
  <2>3. throws \in BOOLEAN
    OBVIOUS
  <2> HIDE DEF throws
  <2> QED
    BY <1>6, <1>8, <2>2, <2>3, SteppedOnce
<1> QED
  BY <1>7, <1>8

\* The others, when the method of the query q goes on without a step.
MethodOthers(t) ==
    LET q == thread[t].in
    IN  /\ mutex = t
        /\ \A u \in Threads : u # t =>
              ~InMethod(u) /\ thread[u].in = Null /\ thread[u].pc \in {"out", "session", "exec"}
        /\ \A p \in DOMAIN query : p # q =>
              /\ query[p].of = t
              /\ query[p].statement # Null =>
                    query[p].statement \in DOMAIN stmt /\ query[p].statement # query[q].statement

LEMMA MethodAlone ==
    ASSUME IInv, SqliteAssumption, NEW t \in Threads, InMethod(t)
    PROVE  MethodOthers(t)
<1> DEFINE q == thread[t].in
<1>1. /\ mutex = t /\ \A u \in Threads : u # t => ~InMethod(u) /\ thread[u].pc \in {"out", "session", "exec"}
      /\ \A p \in DOMAIN query : query[p].of = t
  BY Alone DEF IInv, InMethod
<1>2. \A u \in Threads : u # t => thread[u].in = Null
  BY <1>1 DEF IInv, Serialized
<1>3. q \in DOMAIN query /\ query[q].statement # Null
  BY Inside
<1>4. ASSUME NEW p \in DOMAIN query, p # q, query[p].statement # Null
      PROVE  query[p].statement \in DOMAIN stmt /\ query[p].statement # query[q].statement
  BY <1>3, <1>4, HasOne DEF IInv, Owned
<1> QED
  BY <1>1, <1>2, <1>3, <1>4 DEF MethodOthers

\* The method of the query q goes on, or returns.
Goes(t) ==
    LET q == thread[t].in
    IN  /\ UNCHANGED mutex /\ db' \in DbType
        /\ thread' \in [Threads -> ThreadType] /\ \A u \in Threads : u # t => thread'[u] = thread[u]
        /\ \/ thread'[t].pc = "in" /\ thread'[t].in = Null
           \/ /\ thread'[t].pc = "repeat" /\ thread'[t].in = q
              /\ query'[q].statement # Null /\ query'[q].mChanges < 0
        /\ DOMAIN query' = DOMAIN query /\ DOMAIN stmt' \subseteq Statements
        /\ \A p \in DOMAIN query : p # q =>
              /\ query'[p] = query[p]
              /\ query[p].statement # Null => stmt'[query[p].statement] = stmt[query[p].statement]
        /\ query'[q] \in QueryType /\ query'[q].of = t
        /\ \A u \in DOMAIN stmt' : stmt'[u] \in StmtType /\ (stmt'[u].dml => stmt'[u].fresh)
        /\ /\ query'[q].statement # Null /\ stmt'[query'[q].statement].dml /\ query'[q].mChanges >= 0
           => query'[q].mChanges = Reports(query'[q])

LEMMA GoesKeeps ==
    ASSUME IInv, SqliteAssumption, NEW t \in Threads, InMethod(t), Goes(t), Owned'
    PROVE  IInv'
<1> DEFINE q == thread[t].in
<1>1. MethodOthers(t)
  BY MethodAlone
<1>2. q \in DOMAIN query /\ q \in Queries
  BY Inside
<1>3. /\ thread' \in [Threads -> ThreadType] /\ \A u \in Threads : u # t => thread'[u] = thread[u]
      /\ \/ thread'[t].pc = "in" /\ thread'[t].in = Null
         \/ /\ thread'[t].pc = "repeat" /\ thread'[t].in = q
            /\ query'[q].statement # Null /\ query'[q].mChanges < 0
      /\ DOMAIN query' = DOMAIN query /\ UNCHANGED mutex
  BY DEF Goes
<1>4. \A u \in Threads : u # t => ~InMethod(u)' /\ thread'[u].in = Null
                                     /\ thread'[u].pc \in {"out", "session", "exec"}
  BY <1>1, <1>3 DEF MethodOthers, InMethod
<1>5. TypeOK'
  <2>1. \A p \in DOMAIN query : query'[p] \in QueryType
    BY DEF Goes, IInv, TypeOK
  <2>2. \A u \in DOMAIN stmt' : stmt'[u] \in StmtType
    BY DEF Goes
  <2>3. DOMAIN stmt' \subseteq Statements /\ db' \in DbType
    BY DEF Goes
  <2> QED
    BY <1>3, <2>1, <2>2, <2>3 DEF IInv, TypeOK
<1>6. Serialized'
  <2>1. \A p \in DOMAIN query' : mutex' = query'[p].of
    BY <1>1, <1>3 DEF Goes, MethodOthers
  <2>2. \A u \in Threads : thread'[u].pc \in {"out", "session", "exec"} \/ mutex' = u
    BY <1>1, <1>3, <1>4 DEF MethodOthers
  <2>3. \A u \in Threads : ~(thread'[u].pc \in {"executing", "executed"})
    BY <1>3, <1>4
  <2>4. ASSUME NEW u \in Threads
        PROVE  IF InMethod(u)'
               THEN thread'[u].in \in DOMAIN query' /\ query'[thread'[u].in].statement # Null
               ELSE thread'[u].in = Null
    <3>1. CASE u = t
      BY <3>1, <1>2, <1>3 DEF InMethod
    <3>2. CASE u # t
      BY <3>2, <1>4
    <3> QED
      BY <3>1, <3>2
  <2> QED
    BY <2>1, <2>2, <2>3, <2>4 DEF Serialized
<1>7. ChangesInv'
  <2>1. \A u \in DOMAIN stmt' : stmt'[u].dml => stmt'[u].fresh
    BY DEF Goes
  <2>2. ASSUME NEW u \in Threads, InMethod(u)'
        PROVE  LET p == query'[thread'[u].in]
               IN  IF At(u, "changes")' THEN stmt'[p.statement].dml => db'.changes = p.changed
                                         ELSE p.mChanges < 0
    <3>1. u = t
      BY <2>2, <1>4
    <3>2. thread'[t].pc = "repeat" /\ thread'[t].in = q /\ query'[q].mChanges < 0
      BY <2>2, <3>1, <1>3 DEF InMethod
    <3> QED
      BY <3>1, <3>2 DEF At
  <2>3. ASSUME NEW p \in DOMAIN query', query'[p].statement # Null, stmt'[query'[p].statement].dml,
               query'[p].mChanges >= 0, thread'[query'[p].of].in # p
        PROVE  query'[p].mChanges = Reports(query'[p])
    <3>1. CASE p = q
      BY <2>3, <3>1 DEF Goes
    <3>2. CASE p # q
      <4>1. /\ p \in DOMAIN query /\ query'[p] = query[p] /\ query[p].of = t /\ thread[t].in # p
            /\ query[p].statement # Null => stmt'[query[p].statement] = stmt[query[p].statement]
        BY <3>2, <1>1, <1>3 DEF Goes, MethodOthers
      <4> QED
        BY <4>1, <2>3 DEF IInv, ChangesInv, OwnChanges
    <3> QED
      BY <3>1, <3>2
  <2>4. OwnChanges'
    BY <2>3 DEF OwnChanges
  <2> QED
    BY <2>1, <2>2, <2>4 DEF ChangesInv
<1> QED
  BY <1>5, <1>6, <1>7 DEF IInv

\* What the query may have been executed by then.
Ran(t, q) ==
    /\ q = thread[t].in /\ query'[q].ran <= 1
    /\ thread'[t].pc = "repeat" => ~query'[q].threw
    /\ /\ query'[q].statement # Null /\ stmt'[query'[q].statement].fresh
       /\ query'[q].mChanges < 0 /\ ~query'[q].threw
       => query'[q].ran = 0

LEMMA GoesOnce ==
    ASSUME IInv, OnceInv, SqliteAssumption, NEW t \in Threads, InMethod(t), Goes(t),
           NEW q, Ran(t, q)
    PROVE  OnceInv'
<1>1. MethodOthers(t)
  BY MethodAlone
<1>2. /\ \A u \in Threads : u # t => thread'[u] = thread[u]
      /\ \/ thread'[t].pc = "in" /\ thread'[t].in = Null
         \/ thread'[t].pc = "repeat" /\ thread'[t].in = q
      /\ DOMAIN query' = DOMAIN query
  BY DEF Goes, Ran
<1>3. \A u \in Threads : u # t => ~InMethod(u)'
  BY <1>1, <1>2 DEF MethodOthers, InMethod
<1>4. ASSUME NEW p \in DOMAIN query', p # q
      PROVE  query'[p].ran <= 1 /\ (Ready(p)' => query'[p].ran = 0)
  <2>1. /\ p \in DOMAIN query /\ query'[p] = query[p] /\ query[p].of = t /\ thread[t].in # p
        /\ query[p].statement # Null => stmt'[query[p].statement] = stmt[query[p].statement]
    BY <1>1, <1>2, <1>4 DEF Goes, MethodOthers, Ran
  <2>2. Ready(p)' => Ready(p)
    BY <2>1 DEF Ready
  <2> QED
    BY <2>1, <2>2 DEF OnceInv, Once
<1>5. Ready(q)' => query'[q].ran = 0
  BY DEF Ready, Ran
<1>6. ASSUME NEW u \in Threads, InMethod(u)', ~At(u, "changes")'
      PROVE  /\ ~query'[thread'[u].in].threw
             /\ At(u, "schema")' => query'[thread'[u].in].ran = 0
  <2>1. u = t
    BY <1>3, <1>6
  <2>2. thread'[t].pc = "repeat" /\ thread'[t].in = q
    BY <1>2, <1>6, <2>1 DEF InMethod
  <2> QED
    BY <2>1, <2>2 DEF At, Ran
<1> QED
  BY <1>4, <1>5, <1>6 DEF OnceInv, Once, Ran

\* The changes that are asked for are those of the query: it has just been done.
LEMMA ChangesKeeps ==
    ASSUME IInv, SqliteAssumption, NEW t \in Threads, Changes(t)
    PROVE  IInv' /\ (OnceInv => OnceInv')
<1>1. PICK q : q = thread[t].in
  OBVIOUS
<1> DEFINE s == query[q].statement
<1>2. InMethod(t) /\ thread[t].pc = "changes" /\ UNCHANGED <<mutex, stmt, db>>
  BY DEF Changes, At, InMethod
<1>3. /\ q \in DOMAIN query /\ q \in Queries /\ query[q] \in QueryType /\ query[q].of = t
      /\ s # Null /\ s \in DOMAIN stmt
  BY <1>1, <1>2, Inside
<1>4. /\ thread' \in [Threads -> ThreadType] /\ thread'[t].pc = "in" /\ thread'[t].in = Null
      /\ \A u \in Threads : u # t => thread'[u] = thread[u]
  BY BackIs DEF Changes, IInv
<1>5. /\ DOMAIN query' = DOMAIN query /\ \A p \in DOMAIN query : p # q => query'[p] = query[p]
      /\ query'[q] = [query[q] EXCEPT !.mChanges = db.changes, !.more = FALSE]
  BY <1>1, <1>3 DEF Changes
<1>6. db.changes \in Nat
  BY DEF IInv, TypeOK, DbType
<1>7. /\ query'[q] \in QueryType /\ query'[q].of = t /\ query'[q].statement = s
      /\ query'[q].given = query[q].given /\ query'[q].mChanges = db.changes
      /\ query'[q].changed = query[q].changed /\ query'[q].ran = query[q].ran /\ ~query'[q].more
  <2>1. \A x \in QueryType, m \in Int, e \in BOOLEAN : [x EXCEPT !.mChanges = m, !.more = e] \in QueryType
    BY DEF QueryType
  <2>2. db.changes \in Int /\ FALSE \in BOOLEAN
    BY <1>6
  <2>3. [query[q] EXCEPT !.mChanges = db.changes, !.more = FALSE] \in QueryType
    BY <1>3, <2>1, <2>2, Zenon
  <2>4. query'[q] \in QueryType
    BY <1>5, <2>3, Zenon
  <2> QED
    BY <1>3, <1>5, <2>4 DEF QueryType
<1>8. stmt[s].dml => db.changes = query[q].changed
  BY <1>1, <1>2 DEF IInv, ChangesInv, At
<1>9. Goes(t)
  <2>1. \A u \in DOMAIN stmt' : stmt'[u] \in StmtType /\ (stmt'[u].dml => stmt'[u].fresh)
    BY <1>2 DEF IInv, TypeOK, ChangesInv
  <2>2. db' \in DbType /\ DOMAIN stmt' \subseteq Statements
    BY <1>2 DEF IInv, TypeOK
  <2>3. /\ query'[q].statement # Null /\ stmt'[query'[q].statement].dml /\ query'[q].mChanges >= 0
        => query'[q].mChanges = Reports(query'[q])
    BY <1>2, <1>7, <1>8 DEF Reports
  <2> QED
    BY <1>1, <1>2, <1>4, <1>5, <1>7, <2>1, <2>2, <2>3 DEF Goes
<1>10. Owned'
  <2>1. ASSUME NEW p \in DOMAIN query
        PROVE  /\ query'[p].statement = query[p].statement
               /\ query[p].statement # Null => stmt'[query[p].statement].bound = query'[p].given
    <3>1. query[p].statement # Null => stmt[query[p].statement].bound = query[p].given
      BY DEF IInv, Owned
    <3> QED
      BY <3>1, <1>2, <1>5, <1>7
  <2> QED
    BY <2>1, <1>2, <1>5, OwnersStay DEF IInv
<1>11. IInv'
  BY <1>2, <1>9, <1>10, GoesKeeps
<1>12. ASSUME OnceInv PROVE OnceInv'
  <2>1. query'[q].ran <= 1
    BY <1>3, <1>7, <1>12 DEF OnceInv, Once
  <2>2. ~(query'[q].mChanges < 0)
    BY <1>6, <1>7
  <2> QED
    <3>1. Ran(t, q)
      BY <1>1, <1>4, <2>1, <2>2 DEF Ran
    <3> QED
      BY <1>2, <1>9, <1>12, <3>1, GoesOnce
<1> QED
  BY <1>11, <1>12

\* A statement that is prepared anew has what was bound to the old one.
LEMMA ReprepareKeeps ==
    ASSUME IInv, SqliteAssumption, NEW t \in Threads, Reprepare(t)
    PROVE  IInv' /\ (OnceInv => OnceInv')
<1>1. PICK q : q = thread[t].in
  OBVIOUS
<1> DEFINE old == query[q].statement
<1>2. PICK s \in Statements \ DOMAIN stmt :
        /\ stmt' = Put(Drop(stmt, old), s, [Prepared(stmt[old].dml) EXCEPT !.bound = stmt[old].bound])
        /\ query' = [query EXCEPT ![q].statement = s]
  BY <1>1 DEF Reprepare
<1>3. InMethod(t) /\ thread[t].pc = "schema" /\ UNCHANGED <<mutex, db>> /\ Goto(t, "repeat")
  BY DEF Reprepare, At, InMethod
<1>4. /\ q \in DOMAIN query /\ q \in Queries /\ query[q] \in QueryType /\ query[q].of = t
      /\ old # Null /\ old \in DOMAIN stmt /\ stmt[old] \in StmtType
      /\ query[q].mChanges < 0
      /\ OnceInv => ~query[q].threw /\ query[q].ran = 0
  BY <1>1, <1>3, Inside
<1>5. MethodOthers(t)
  BY <1>3, MethodAlone
<1>6. /\ thread' \in [Threads -> ThreadType] /\ thread'[t].pc = "repeat" /\ thread'[t].in = q
      /\ \A u \in Threads : u # t => thread'[u] = thread[u]
  <2>1. "repeat" \in Places
    BY DEF Places
  <2> QED
    BY <1>1, <1>3, <2>1, GotoIs DEF IInv
<1>7. /\ DOMAIN query' = DOMAIN query /\ \A p \in DOMAIN query : p # q => query'[p] = query[p]
      /\ query'[q] = [query[q] EXCEPT !.statement = s]
  BY <1>2, <1>4
<1>8. /\ query'[q] \in QueryType /\ query'[q].of = t /\ query'[q].statement = s
      /\ query'[q].given = query[q].given /\ query'[q].mChanges = query[q].mChanges
      /\ query'[q].ran = query[q].ran /\ query'[q].threw = query[q].threw
  BY <1>2, <1>4, <1>7 DEF QueryType
<1> DEFINE new == [Prepared(stmt[old].dml) EXCEPT !.bound = stmt[old].bound]
<1>9. new \in StmtType /\ new.bound = stmt[old].bound /\ new.fresh
  BY <1>4 DEF Prepared, StmtType, IInv, TypeOK, DbType
<1>10. stmt' = Put(Drop(stmt, old), s, new)
  BY <1>2
<1> HIDE DEF new
<1>11. /\ DOMAIN stmt' = (DOMAIN stmt \ {old}) \cup {s} /\ stmt'[s] = new
       /\ \A u \in DOMAIN stmt \ {old} : u # s /\ stmt'[u] = stmt[u]
  BY <1>2, <1>10 DEF Put, Drop
<1>12. s # Null
  BY <1>2 DEF SqliteAssumption
<1>13. \A p \in DOMAIN query : p # q /\ query[p].statement # Null =>
          query[p].statement \in DOMAIN stmt \ {old}
  BY <1>1, <1>5 DEF MethodOthers
<1>14. Goes(t)
  <2>1. \A u \in DOMAIN stmt' : stmt'[u] \in StmtType /\ (stmt'[u].dml => stmt'[u].fresh)
    BY <1>9, <1>11 DEF IInv, TypeOK, ChangesInv
  <2>2. db' \in DbType /\ DOMAIN stmt' \subseteq Statements
    BY <1>2, <1>3, <1>11 DEF IInv, TypeOK
  <2>3. \A p \in DOMAIN query : p # q =>
           /\ query'[p] = query[p]
           /\ query[p].statement # Null => stmt'[query[p].statement] = stmt[query[p].statement]
    BY <1>7, <1>11, <1>13
  <2>4. ~(query'[q].mChanges >= 0)
    BY <1>4, <1>8 DEF QueryType
  <2> QED
    BY <1>1, <1>3, <1>4, <1>6, <1>7, <1>8, <1>12, <2>1, <2>2, <2>3, <2>4 DEF Goes
<1>15. Owned'
  <2>1. \A p \in DOMAIN query' : query'[p].statement # Null => query'[p].statement \in DOMAIN stmt'
    BY <1>7, <1>8, <1>11, <1>13
  <2>2. ASSUME NEW u \in DOMAIN stmt' PROVE u # Null /\ \E p \in DOMAIN query' : query'[p].statement = u
    <3>1. CASE u = s
      BY <3>1, <1>4, <1>7, <1>8, <1>12
    <3>2. CASE u # s
      <4>1. u \in DOMAIN stmt /\ u # old
        BY <3>2, <1>11
      <4>2. u # Null /\ \E p \in DOMAIN query : query[p].statement = u
        BY <4>1, OwnersAre DEF IInv, Owned
      <4> QED
        BY <4>1, <4>2, <1>7
    <3> QED
      BY <3>1, <3>2
  <2>3. DOMAIN stmt' = {query'[p].statement : p \in DOMAIN query'} \ {Null}
    BY <2>1, <2>2, OwnersWill
  <2>4. ASSUME NEW p \in DOMAIN query', NEW o \in DOMAIN query', p # o, query'[p].statement # Null
        PROVE  query'[p].statement # query'[o].statement
    BY <2>4, <1>2, <1>7, <1>8, <1>13 DEF IInv, Owned
  <2>5. ASSUME NEW p \in DOMAIN query', query'[p].statement # Null
        PROVE  stmt'[query'[p].statement].bound = query'[p].given
    <3>1. CASE p = q
      BY <3>1, <1>4, <1>8, <1>9, <1>11 DEF IInv, Owned
    <3>2. CASE p # q
      BY <3>2, <2>5, <1>7, <1>11, <1>13 DEF IInv, Owned
    <3> QED
      BY <3>1, <3>2
  <2> QED
    BY <2>3, <2>4, <2>5 DEF Owned
<1>16. IInv'
  BY <1>3, <1>14, <1>15, GoesKeeps
<1>17. ASSUME OnceInv PROVE OnceInv'
  <2>1. query'[q].ran = 0 /\ query'[q].ran <= 1 /\ ~query'[q].threw
    BY <1>4, <1>8, <1>17
  <2> QED
    <3>1. Ran(t, q)
      BY <1>1, <2>1 DEF Ran
    <3> QED
      BY <1>3, <1>14, <1>17, <3>1, GoesOnce
<1> QED
  BY <1>16, <1>17

\* A query that could not be prepared anew has no statement, and the old one is
\* nobody's.
LEMMA UnpreparedKeeps ==
    ASSUME IInv, SqliteAssumption, NEW t \in Threads, Unprepared(t)
    PROVE  IInv' /\ (OnceInv => OnceInv')
<1>1. PICK q : q = thread[t].in
  OBVIOUS
<1> DEFINE old == query[q].statement  empty == Begin(t, Null, query[q].par)
<1>2. /\ query' = [query EXCEPT ![q] = empty] /\ stmt' = Drop(stmt, old)
      /\ db' = [db EXCEPT !.dropped = TRUE]
  BY <1>1 DEF Unprepared
<1>3. InMethod(t) /\ thread[t].pc = "schema" /\ UNCHANGED mutex /\ Back(t)
  BY DEF Unprepared, At, InMethod
<1>4. /\ q \in DOMAIN query /\ q \in Queries /\ query[q] \in QueryType /\ query[q].of = t
      /\ old # Null /\ old \in DOMAIN stmt
  BY <1>1, <1>3, Inside
<1>5. MethodOthers(t)
  BY <1>3, MethodAlone
<1>6. /\ thread' \in [Threads -> ThreadType] /\ thread'[t].pc = "in" /\ thread'[t].in = Null
      /\ \A u \in Threads : u # t => thread'[u] = thread[u]
  BY <1>3, BackIs DEF IInv
<1>7. empty \in QueryType /\ empty.of = t /\ empty.statement = Null /\ empty.ran = 0
  <2>1. query[q].par \in BOOLEAN
    BY <1>4 DEF QueryType
  <2> QED
    BY <2>1 DEF Begin, QueryType
<1> HIDE DEF empty
<1>8. /\ DOMAIN query' = DOMAIN query /\ \A p \in DOMAIN query : p # q => query'[p] = query[p]
      /\ query'[q] = empty
  BY <1>2, <1>4
<1>9. DOMAIN stmt' = DOMAIN stmt \ {old} /\ \A u \in DOMAIN stmt' : stmt'[u] = stmt[u]
  BY <1>2 DEF Drop
<1>10. \A p \in DOMAIN query : p # q /\ query[p].statement # Null =>
          query[p].statement \in DOMAIN stmt'
  BY <1>1, <1>5, <1>9 DEF MethodOthers
<1>11. Goes(t)
  <2>1. \A u \in DOMAIN stmt' : stmt'[u] \in StmtType /\ (stmt'[u].dml => stmt'[u].fresh)
    BY <1>9 DEF IInv, TypeOK, ChangesInv
  <2>2. db' \in DbType /\ DOMAIN stmt' \subseteq Statements
    <3>1. db \in DbType
      BY DEF IInv, TypeOK
    <3>2. db' \in DbType
      BY <3>1, <1>2 DEF DbType
    <3> QED
      BY <3>2, <1>9 DEF IInv, TypeOK
  <2>3. \A p \in DOMAIN query : p # q =>
           /\ query'[p] = query[p]
           /\ query[p].statement # Null => stmt'[query[p].statement] = stmt[query[p].statement]
    BY <1>8, <1>9, <1>10
  <2> QED
    BY <1>1, <1>3, <1>4, <1>6, <1>7, <1>8, <2>1, <2>2, <2>3 DEF Goes
<1>12. Owned'
  <2>1. \A p \in DOMAIN query' : query'[p].statement # Null => query'[p].statement \in DOMAIN stmt'
    BY <1>7, <1>8, <1>10
  <2>2. ASSUME NEW u \in DOMAIN stmt' PROVE u # Null /\ \E p \in DOMAIN query' : query'[p].statement = u
    <3>1. u # Null /\ \E p \in DOMAIN query : query[p].statement = u
      BY <1>9, OwnersAre DEF IInv, Owned
    <3> QED
      BY <3>1, <1>8, <1>9
  <2>3. DOMAIN stmt' = {query'[p].statement : p \in DOMAIN query'} \ {Null}
    BY <2>1, <2>2, OwnersWill
  <2>4. ASSUME NEW p \in DOMAIN query', NEW o \in DOMAIN query', p # o, query'[p].statement # Null
        PROVE  query'[p].statement # query'[o].statement
    BY <2>4, <1>7, <1>8 DEF IInv, Owned
  <2>5. ASSUME NEW p \in DOMAIN query', query'[p].statement # Null
        PROVE  stmt'[query'[p].statement].bound = query'[p].given
    BY <2>5, <1>7, <1>8, <1>9, <1>10 DEF IInv, Owned
  <2> QED
    BY <2>3, <2>4, <2>5 DEF Owned
<1>13. IInv'
  BY <1>3, <1>11, <1>12, GoesKeeps
<1>14. ASSUME OnceInv PROVE OnceInv'
  <2>1. query'[q].ran <= 1 /\ query'[q].statement = Null
    BY <1>7, <1>8
  <2> QED
    <3>1. Ran(t, q)
      BY <1>1, <1>6, <2>1 DEF Ran
    <3> QED
      BY <1>3, <1>11, <1>14, <3>1, GoesOnce
<1> QED
  BY <1>13, <1>14
-----------------------------------------------------------------------------
\* A thread that goes from one place outside of the methods to another.
LEMMA MovesKeeps ==
    ASSUME IInv, SqliteAssumption, NEW t \in Threads, UNCHANGED <<query, stmt>>,
           thread' \in [Threads -> ThreadType],
           thread'[t].in = thread[t].in, \A u \in Threads : u # t => thread'[u] = thread[u],
           ~InMethod(t), ~InMethod(t)',
           thread'[t].pc \in {"out", "session", "exec"} \/ mutex' = t,
           thread'[t].pc \in {"executing", "executed"} => DOMAIN query = {},
           mutex' \in Threads \cup {Null}, db' \in DbType,
           \/ mutex' = mutex
           \/ mutex \in {t, Null} /\ DOMAIN query = {},
           db'.changes = db.changes \/ mutex = t
    PROVE  IInv' /\ (OnceInv => OnceInv')
<1>1. \A u \in Threads : /\ thread'[u].in = thread[u].in
                         /\ thread'[u].pc = thread[u].pc \/ (~InMethod(u) /\ ~InMethod(u)')
  <2> SUFFICES ASSUME NEW u \in Threads
               PROVE  /\ thread'[u].in = thread[u].in
                      /\ thread'[u].pc = thread[u].pc \/ (~InMethod(u) /\ ~InMethod(u)')
    OBVIOUS
  <2>1. CASE u = t
    BY <2>1
  <2>2. CASE u # t
    BY <2>2
  <2> QED
    BY <2>1, <2>2
<1>2. Null \notin Threads
  BY DEF SqliteAssumption
<1>3. ASSUME NEW u \in Threads, u # t
      PROVE  thread'[u].pc \in {"out", "session", "exec"} \/ mutex' = u
  <2>1. thread'[u].pc = thread[u].pc /\ (thread[u].pc \in {"out", "session", "exec"} \/ mutex = u)
    BY <1>3 DEF IInv, Serialized
  <2> QED
    BY <1>2, <1>3, <2>1
<1>4. \A u \in Threads : thread'[u].pc \in {"out", "session", "exec"} \/ mutex' = u
  BY <1>3
<1>5. \A q \in DOMAIN query : mutex' = query[q].of
  BY DEF IInv, Serialized
<1>6. ASSUME NEW u \in Threads, thread'[u].pc \in {"executing", "executed"} PROVE DOMAIN query = {}
  <2>1. CASE u = t
    BY <1>6, <2>1
  <2>2. CASE u # t
    BY <1>6, <2>2 DEF IInv, Serialized
  <2> QED
    BY <2>1, <2>2
<1>7. ASSUME mutex = t PROVE \A u \in Threads : ~InMethod(u)
  <2> SUFFICES ASSUME NEW u \in Threads, InMethod(u) PROVE FALSE
    OBVIOUS
  <2>1. mutex = u
    BY Alone DEF IInv, InMethod
  <2> QED
    BY <1>7, <2>1
<1>8. db'.changes = db.changes \/ \A u \in Threads : ~InMethod(u)
  BY <1>7
<1> QED
  BY <1>1, <1>4, <1>5, <1>6, <1>8, QueriesAlone

\* A thread asks for a session, has it, leaves it and ends it.
LEMMA SessionsKeep ==
    ASSUME IInv, SqliteAssumption, NEW t \in Threads,
           \/ Ask(t) \/ Open(t) \/ Leave(t) \/ Close(t) \/ ExecOpen(t) \/ Exec(t) \/ ExecClose(t)
    PROVE  IInv' /\ (OnceInv => OnceInv')
<1>1. /\ thread \in [Threads -> ThreadType] /\ mutex \in Threads \cup {Null} /\ db \in DbType
      /\ Null \notin Threads
      /\ \A q \in DOMAIN query : query[q].of = mutex /\ query[q].of \in Threads
  BY DEF IInv, TypeOK, QueryType, Serialized, SqliteAssumption
<1>2. \A l \in {"out", "session", "exec", "in", "leaving", "executing", "executed"} :
         /\ l \in Places
         /\ Goto(t, l) =>
              /\ thread' \in [Threads -> ThreadType] /\ thread'[t].pc = l
              /\ thread'[t].in = thread[t].in /\ \A u \in Threads : u # t => thread'[u] = thread[u]
  BY GotoIs DEF IInv, Places
<1>3. mutex = Null => DOMAIN query = {}
  BY <1>1
<1>4. thread[t].pc \in {"out", "session", "exec"} \/ mutex = t
  BY DEF IInv, Serialized
<1>5. CASE Ask(t)
  <2>1. PICK l \in {"session", "exec"} :
           thread' = [thread EXCEPT ![t] = [@ EXCEPT !.pc = l, !.left = thread[t].left - 1]]
    BY <1>5 DEF Ask
  <2>2. /\ thread[t].left > 0 /\ thread[t].pc \in {"out", "in"}
        /\ UNCHANGED <<mutex, query, stmt, db>>
    BY <1>5 DEF Ask, At
  <2>3. thread[t].left - 1 \in Nat /\ thread[t] \in ThreadType
    BY <1>1, <2>2 DEF ThreadType
  <2>4. /\ thread'[t] = [thread[t] EXCEPT !.pc = l, !.left = thread[t].left - 1]
        /\ \A u \in Threads : u # t => thread'[u] = thread[u]
    BY <1>1, <2>1
  <2>5. thread'[t] \in ThreadType /\ thread'[t].pc = l /\ thread'[t].in = thread[t].in
    <3>1. l \in Places
      BY DEF Places
    <3> QED
      BY <2>3, <2>4, <3>1 DEF ThreadType
  <2>6. thread' \in [Threads -> ThreadType]
    BY <1>1, <2>1, <2>4, <2>5
  <2>7. ~InMethod(t) /\ ~InMethod(t)'
    BY <2>2, <2>5 DEF InMethod
  <2> QED
    BY <1>1, <2>2, <2>4, <2>5, <2>6, <2>7, MovesKeeps
<1>6. CASE Open(t)
  <2>1. /\ thread[t].pc = "session" /\ mutex = Null /\ mutex' = t /\ Goto(t, "in")
        /\ UNCHANGED <<query, stmt, db>>
    BY <1>6 DEF Open, At
  <2>2. /\ thread' \in [Threads -> ThreadType] /\ thread'[t].pc = "in"
        /\ thread'[t].in = thread[t].in /\ \A u \in Threads : u # t => thread'[u] = thread[u]
    BY <1>2, <2>1
  <2>3. ~InMethod(t) /\ ~InMethod(t)'
    BY <2>1, <2>2 DEF InMethod
  <2> QED
    BY <1>1, <1>3, <2>1, <2>2, <2>3, MovesKeeps
<1>7. CASE Leave(t)
  <2>1. /\ thread[t].pc = "in" /\ Goto(t, "leaving") /\ UNCHANGED <<mutex, query, stmt, db>>
    BY <1>7 DEF Leave, At
  <2>2. /\ thread' \in [Threads -> ThreadType] /\ thread'[t].pc = "leaving"
        /\ thread'[t].in = thread[t].in /\ \A u \in Threads : u # t => thread'[u] = thread[u]
    BY <1>2, <2>1
  <2>3. ~InMethod(t) /\ ~InMethod(t)'
    BY <2>1, <2>2 DEF InMethod
  <2>4. mutex' = t
    BY <1>4, <2>1
  <2> QED
    BY <1>1, <2>1, <2>2, <2>3, <2>4, MovesKeeps
<1>8. CASE Close(t)
  <2>1. /\ thread[t].pc = "leaving" /\ mutex' = Null /\ Goto(t, "out") /\ OwnQueries(t) = {}
        /\ UNCHANGED <<query, stmt, db>>
    BY <1>8 DEF Close, At
  <2>2. /\ thread' \in [Threads -> ThreadType] /\ thread'[t].pc = "out"
        /\ thread'[t].in = thread[t].in /\ \A u \in Threads : u # t => thread'[u] = thread[u]
    BY <1>2, <2>1
  <2>3. ~InMethod(t) /\ ~InMethod(t)'
    BY <2>1, <2>2 DEF InMethod
  <2>4. mutex = t /\ DOMAIN query = {}
    BY <1>1, <1>4, <2>1 DEF OwnQueries
  <2> QED
    BY <1>1, <2>1, <2>2, <2>3, <2>4, MovesKeeps
<1>9. CASE ExecOpen(t)
  <2>1. /\ thread[t].pc = "exec" /\ mutex = Null /\ mutex' = t /\ Goto(t, "executing")
        /\ UNCHANGED <<query, stmt, db>>
    BY <1>9 DEF ExecOpen, At
  <2>2. /\ thread' \in [Threads -> ThreadType] /\ thread'[t].pc = "executing"
        /\ thread'[t].in = thread[t].in /\ \A u \in Threads : u # t => thread'[u] = thread[u]
    BY <1>2, <2>1
  <2>3. ~InMethod(t) /\ ~InMethod(t)'
    BY <2>1, <2>2 DEF InMethod
  <2> QED
    BY <1>1, <1>3, <2>1, <2>2, <2>3, MovesKeeps
<1>10. CASE Exec(t)
  <2>1. /\ thread[t].pc = "executing" /\ Goto(t, "executed") /\ UNCHANGED <<mutex, query, stmt>>
    BY <1>10 DEF Exec, At
  <2>2. /\ thread' \in [Threads -> ThreadType] /\ thread'[t].pc = "executed"
        /\ thread'[t].in = thread[t].in /\ \A u \in Threads : u # t => thread'[u] = thread[u]
    BY <1>2, <2>1
  <2>3. ~InMethod(t) /\ ~InMethod(t)'
    BY <2>1, <2>2 DEF InMethod
  <2>4. mutex = t /\ DOMAIN query = {}
    BY <1>4, <2>1 DEF IInv, Serialized
  <2>5. db' \in DbType
    <3>1. PICK n \in 0 .. 1 : db' = [db EXCEPT !.changes = IF db.busy THEN @ ELSE n]
      BY <1>10 DEF Exec
    <3>2. (IF db.busy THEN db.changes ELSE n) \in Nat
      BY <1>1 DEF DbType
    <3> QED
      BY <1>1, <3>1, <3>2 DEF DbType
  <2> QED
    BY <1>1, <2>1, <2>2, <2>3, <2>4, <2>5, MovesKeeps
<1>11. CASE ExecClose(t)
  <2>1. /\ thread[t].pc = "executed" /\ mutex' = Null /\ Goto(t, "out")
        /\ UNCHANGED <<query, stmt, db>>
    BY <1>11 DEF ExecClose, At
  <2>2. /\ thread' \in [Threads -> ThreadType] /\ thread'[t].pc = "out"
        /\ thread'[t].in = thread[t].in /\ \A u \in Threads : u # t => thread'[u] = thread[u]
    BY <1>2, <2>1
  <2>3. ~InMethod(t) /\ ~InMethod(t)'
    BY <2>1, <2>2 DEF InMethod
  <2>4. mutex = t /\ DOMAIN query = {}
    BY <1>4, <2>1 DEF IInv, Serialized
  <2> QED
    BY <1>1, <2>1, <2>2, <2>3, <2>4, MovesKeeps
<1> QED
  BY <1>5, <1>6, <1>7, <1>8, <1>9, <1>10, <1>11

\* What the other processes do, and closing the handler, notices nobody's query.
LEMMA DbKeeps ==
    ASSUME IInv, SqliteAssumption, db' \in DbType, db'.changes = db.changes,
           UNCHANGED <<mutex, thread, query, stmt>>
    PROVE  IInv' /\ (OnceInv => OnceInv')
<1>1. thread' \in [Threads -> ThreadType] /\ mutex' \in Threads \cup {Null}
  BY DEF IInv, TypeOK
<1>2. /\ \A u \in Threads : thread'[u].pc \in {"out", "session", "exec"} \/ mutex' = u
      /\ \A q \in DOMAIN query : mutex' = query[q].of
      /\ \A u \in Threads : thread'[u].pc \in {"executing", "executed"} => DOMAIN query = {}
  BY DEF IInv, Serialized
<1> QED
  BY <1>1, <1>2, QueriesAlone

LEMMA NextKeeps ==
    ASSUME IInv, SqliteAssumption, [Next]_vars
    PROVE  IInv' /\ (OnceInv /\ "again" \notin Habits => OnceInv')
<1> DEFINE Kept == IInv' /\ (OnceInv /\ "again" \notin Habits => OnceInv')
<1>1. db \in DbType
  BY DEF IInv, TypeOK
<1>2. CASE UNCHANGED vars
  BY <1>1, <1>2, DbKeeps DEF vars
<1>3. ASSUME NEW t \in Threads, Calls(t) PROVE Kept
  <2>1. CASE Changes(t)
    BY <2>1, ChangesKeeps
  <2>2. CASE Reprepare(t)
    BY <2>2, ReprepareKeeps
  <2>3. CASE Unprepared(t)
    BY <2>3, UnpreparedKeeps
  <2>4. CASE StepAgain(t)
    BY <2>4, StepAgainKeeps
  <2>5. CASE RetryBusy(t)
    BY <2>5, RetryBusyKeeps
  <2>6. CASE Open(t) \/ Close(t) \/ ExecOpen(t) \/ Exec(t) \/ ExecClose(t)
    BY <2>6, SessionsKeep
  <2>7. CASE \E q \in Queries : Destroy(t, q)
    BY <2>7, DestroyKeeps
  <2> QED
    BY <1>3, <2>1, <2>2, <2>3, <2>4, <2>5, <2>6, <2>7 DEF Calls
<1>4. ASSUME NEW t \in Threads, Ask(t) \/ Leave(t) PROVE Kept
  BY <1>4, SessionsKeep
<1>5. ASSUME NEW t \in Threads, NEW q \in Queries, Uses(t, q) \/ Destroy(t, q) PROVE Kept
  <2>1. CASE Construct(t, q)
    BY <2>1, ConstructKeeps
  <2>2. CASE Bind(t, q)
    BY <2>2, BindKeeps
  <2>3. CASE Reset(t, q)
    BY <2>3, ResetKeeps
  <2>4. CASE StepNoMore(t, q)
    BY <2>4, StepNoMoreKeeps
  <2>5. CASE Step(t, q)
    BY <2>5, StepKeeps
  <2>6. CASE UStep(t, q)
    BY <2>6, UStepKeeps
  <2>7. CASE \E r \in Queries : Move(t, q, r)
    BY <2>7, MoveKeeps
  <2>8. CASE Destroy(t, q)
    BY <2>8, DestroyKeeps
  <2> QED
    BY <1>5, <2>1, <2>2, <2>3, <2>4, <2>5, <2>6, <2>7, <2>8 DEF Uses
<1>6. CASE Others
  <2>1. db' \in DbType /\ db'.changes = db.changes
    <3>1. CASE db' = [db EXCEPT !.busy = ~@]
      BY <1>1, <3>1 DEF DbType
    <3>2. CASE db' = [db EXCEPT !.schema = @ + 1]
      <4>1. db.schema + 1 \in Nat
        BY <1>1 DEF DbType
      <4> QED
        BY <1>1, <3>2, <4>1 DEF DbType
    <3> QED
      BY <1>6, <3>1, <3>2 DEF Others
  <2> QED
    BY <1>6, <2>1, DbKeeps DEF Others
<1>7. CASE CloseDb
  <2>1. db' = [db EXCEPT !.open = DOMAIN stmt # {} \/ db.dropped]
    BY <1>7 DEF CloseDb
  <2>2. db' \in DbType /\ db'.changes = db.changes
    BY <1>1, <2>1 DEF DbType
  <2> QED
    BY <1>7, <2>2, DbKeeps DEF CloseDb
<1>8. CASE Ended
  BY <1>2, <1>8 DEF Ended
<1> QED
  BY <1>2, <1>3, <1>4, <1>5, <1>6, <1>7, <1>8 DEF Next

LEMMA InitHolds == ASSUME SqliteAssumption, Init PROVE IInv /\ OnceInv
<1>1. /\ DOMAIN query = {} /\ DOMAIN stmt = {}
  BY DEF Init
<1>2. \A t \in Threads : thread[t] = [pc |-> "out", in |-> Null, repeat |-> 0, left |-> Sessions]
  BY DEF Init
<1>3. TypeOK
  <2>1. thread \in [Threads -> ThreadType]
    BY DEF Init, ThreadType, Places, SqliteAssumption
  <2>2. db \in DbType
    BY DEF Init, DbType
  <2> QED
    BY <1>1, <2>1, <2>2 DEF Init, TypeOK
<1>4. Serialized
  BY <1>1, <1>2 DEF Serialized, InMethod
<1>5. Owned
  BY <1>1 DEF Owned
<1>6. ChangesInv
  BY <1>1, <1>2 DEF ChangesInv, OwnChanges, InMethod
<1>7. OnceInv
  BY <1>1, <1>2 DEF OnceInv, Once, InMethod
<1> QED
  BY <1>3, <1>4, <1>5, <1>6, <1>7 DEF IInv

\* The inductive invariant of sessions, queries and statements (sqlite.hpp).
THEOREM Invariance == Spec => []IInv
<1>1. Init => IInv
  BY InitHolds, SqliteAssumption
<1>2. IInv /\ [Next]_vars => IInv'
  BY NextKeeps, SqliteAssumption
<1> QED
  BY <1>1, <1>2, PTL DEF Spec

\* Every statement that is prepared has one query, which finalizes it, and it is
\* bound to what the query was given, whatever is moved, destroyed or prepared
\* anew (l. 262-264, 516).
THEOREM StatementsAreOwned == Spec => []Owned
<1>1. IInv => Owned
  BY DEF IInv
<1> QED
  BY <1>1, Invariance, PTL

\* What a query that changes the database reports are the rows that its last
\* execution changed, however threads take turns in the handler and whatever they
\* execute without a query (l. 319-334); except for a query that was stepped on
\* after it had returned false, which reports none (l. 283), whatever it did.
THEOREM ChangesAreOwn == Spec => []OwnChanges
<1>1. IInv => OwnChanges
  BY DEF IInv, ChangesInv
<1> QED
  BY <1>1, Invariance, PTL

\* A query that is reset, or not used again, after an exception is executed once
\* until it is reset, also when SQLite was busy or the schema changed (l. 266-268).
THEOREM ExecutedOnce == "again" \notin Habits => (Spec => []Once)
<1> SUFFICES ASSUME "again" \notin Habits PROVE Spec => []Once
  OBVIOUS
<1>1. Init => IInv /\ OnceInv
  BY InitHolds, SqliteAssumption
<1>2. (IInv /\ OnceInv) /\ [Next]_vars => (IInv /\ OnceInv)'
  BY NextKeeps, SqliteAssumption
<1>3. IInv /\ OnceInv => Once
  BY DEF OnceInv
<1> QED
  BY <1>1, <1>2, <1>3, PTL DEF Spec
=============================================================================
