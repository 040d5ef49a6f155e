----------------------------- MODULE MdbProofs -----------------------------
(* Proofs about Mdb for any threads, rows and indexes: for callers without   *)
(* bad habits the index follows its table whatever fails, and the database   *)
(* changes by whole operations.                                              *)
EXTENDS Mdb, FiniteSetTheorems, TLAPS

\* The callers drop a transaction in which something threw, do not write in a
\* loop over an Iterator, set their triggers again after a restart, and index a
\* table of sorted duplicates.
WellUsed == Habits = {} /\ Dup

LEMMA APair ==
    ASSUME NEW p \in Nat \X Nat
    PROVE  p = <<p[1], p[2]>> /\ p[1] \in Nat /\ p[2] \in Nat
OBVIOUS

\* What is in a mirror.
LEMMA InMirror ==
    ASSUME NEW S, S \subseteq Nat \X Nat
    PROVE  /\ \A q \in Mirror(S) : \E p \in S : q = <<p[2], p[1]>>
           /\ \A p \in S : <<p[2], p[1]>> \in Mirror(S)
           /\ \A a, b \in Nat : <<b, a>> \in Mirror(S) <=> <<a, b>> \in S
BY DEF Mirror

\* The pairs of an operation.
LEMMA OperationPairs ==
    ASSUME MdbAssumption, NEW o \in Operations
    PROVE  /\ o.op \in {"add", "eraseKV", "erase"}
           /\ o.op \in {"add", "eraseKV"} => <<o.k, o.v>> \in Pairs /\ o.k \in Nat /\ o.v \in Nat
           /\ o.op = "erase" => o.k \in Nat
<1>1. \A p \in Pairs : p = <<p[1], p[2]>> /\ p[1] \in Nat /\ p[2] \in Nat
  BY APair DEF MdbAssumption
<1>2. CASE o \in {[op |-> "add", k |-> p[1], v |-> p[2]] : p \in Pairs}
  <2>1. PICK p \in Pairs : o = [op |-> "add", k |-> p[1], v |-> p[2]]
    BY <1>2
  <2>2. o.op = "add" /\ o.k = p[1] /\ o.v = p[2]
    BY <2>1
  <2>3. <<o.k, o.v>> = p
    BY <1>1, <2>2
  <2> QED
    BY <1>1, <2>2, <2>3
<1>3. CASE o \in {[op |-> "eraseKV", k |-> p[1], v |-> p[2]] : p \in Pairs}
  <2>1. PICK p \in Pairs : o = [op |-> "eraseKV", k |-> p[1], v |-> p[2]]
    BY <1>3
  <2>2. o.op = "eraseKV" /\ o.k = p[1] /\ o.v = p[2]
    BY <2>1
  <2>3. <<o.k, o.v>> = p
    BY <1>1, <2>2
  <2> QED
    BY <1>1, <2>2, <2>3
<1>4. CASE o \in {[op |-> "erase", k |-> p[1]] : p \in Pairs}
  <2>1. PICK p \in Pairs : o = [op |-> "erase", k |-> p[1]]
    BY <1>4
  <2> QED
    BY <1>1, <2>1
<1> QED
  BY <1>2, <1>3, <1>4 DEF Operations

\* An operation keeps a kept index right.
LEMMA OperationFollows ==
    ASSUME MdbAssumption, Dup, NEW o \in Operations, NEW ix \in Indexes,
           NEW w, w.table \subseteq Pairs, w.index[ix] \subseteq Mirror(Pairs),
           before[ix] \subseteq Pairs, Follows(w.index[ix], ix, w.table)
    PROVE  /\ Stored(w.table, o) \subseteq Pairs
           /\ Triggered(ix, o, w) \subseteq Mirror(Pairs)
           /\ Follows(Triggered(ix, o, w), ix, Stored(w.table, o))
<1>1. Pairs \subseteq Nat \X Nat
  BY DEF MdbAssumption
<1> DEFINE tab == w.table
           idx == w.index[ix]
<1>2. /\ tab \subseteq Nat \X Nat /\ (tab \ before[ix]) \subseteq Nat \X Nat
      /\ \A k : PairsOf(tab, k) \subseteq Nat \X Nat /\ PairsOf(tab, k) \subseteq tab
  BY <1>1 DEF PairsOf
<1>3. Mirror(tab \ before[ix]) \subseteq idx /\ idx \subseteq Mirror(tab)
  BY DEF Follows
<1> HIDE DEF tab, idx
<1>4. ASSUME NEW a \in Nat, NEW b \in Nat
      PROVE  /\ <<b, a>> \in Mirror(tab) <=> <<a, b>> \in tab
             /\ <<b, a>> \in Mirror(tab \ before[ix]) <=> (<<a, b>> \in tab /\ <<a, b>> \notin before[ix])
  <2>1. <<b, a>> \in Mirror(tab) <=> <<a, b>> \in tab
    BY <1>2, InMirror
  <2>2. <<b, a>> \in Mirror(tab \ before[ix]) <=> <<a, b>> \in tab \ before[ix]
    BY <1>2, InMirror
  <2> QED
    BY <2>1, <2>2
<1>5. \A q \in Mirror(Nat \X Nat) : \E a, b \in Nat : q = <<b, a>>
  BY DEF Mirror
<1>6. CASE o.op = "add"
  <2>1. Stored(tab, o) = tab \cup {<<o.k, o.v>>} /\ Triggered(ix, o, w) = idx \cup {<<o.v, o.k>>}
    BY <1>6 DEF Stored, Triggered, idx
  <2>2. <<o.k, o.v>> \in Pairs /\ o.k \in Nat /\ o.v \in Nat
    BY <1>6, OperationPairs
  <2>3. <<o.v, o.k>> \in Mirror(Pairs)
    BY <2>2, <1>1, InMirror
  <2>4. Mirror((tab \cup {<<o.k, o.v>>}) \ before[ix]) \subseteq idx \cup {<<o.v, o.k>>}
    <3> SUFFICES ASSUME NEW p \in (tab \cup {<<o.k, o.v>>}) \ before[ix]
                 PROVE  <<p[2], p[1]>> \in idx \cup {<<o.v, o.k>>}
      BY DEF Mirror
    <3>1. CASE p \in tab
      BY <1>3, <3>1 DEF Mirror
    <3>2. CASE p = <<o.k, o.v>>
      BY <3>2
    <3> QED
      BY <3>1, <3>2
  <2>5. idx \cup {<<o.v, o.k>>} \subseteq Mirror(tab \cup {<<o.k, o.v>>})
    <3>1. idx \subseteq Mirror(tab \cup {<<o.k, o.v>>})
      BY <1>3 DEF Mirror
    <3>2. <<o.v, o.k>> \in Mirror(tab \cup {<<o.k, o.v>>})
      <4>1. \E p \in tab \cup {<<o.k, o.v>>} : <<o.v, o.k>> = <<p[2], p[1]>>
        <5> DEFINE p == <<o.k, o.v>>
        <5>1. p \in tab \cup {<<o.k, o.v>>} /\ <<o.v, o.k>> = <<p[2], p[1]>>
          OBVIOUS
        <5> QED
          BY <5>1
      <4> QED
        BY <4>1 DEF Mirror
    <3> QED
      BY <3>1, <3>2
  <2> QED
    BY <2>1, <2>2, <2>3, <2>4, <2>5 DEF Follows, tab, idx
<1>7. ASSUME NEW S, S \subseteq tab, Stored(tab, o) = tab \ S,
             NEW M, Triggered(ix, o, w) = idx \ M, \A a, b \in Nat : <<b, a>> \in M <=> <<a, b>> \in S \/ (<<a, b>> \notin tab /\ <<b, a>> \in M)
      PROVE  /\ Stored(tab, o) \subseteq Pairs /\ Triggered(ix, o, w) \subseteq Mirror(Pairs)
             /\ Follows(Triggered(ix, o, w), ix, Stored(tab, o))
  <2>1. (tab \ S) \subseteq Nat \X Nat /\ ((tab \ S) \ before[ix]) \subseteq Nat \X Nat
    BY <1>2
  <2>2. Mirror((tab \ S) \ before[ix]) \subseteq idx \ M
    <3> SUFFICES ASSUME NEW p \in (tab \ S) \ before[ix] PROVE <<p[2], p[1]>> \in idx \ M
      BY DEF Mirror
    <3>1. p = <<p[1], p[2]>> /\ p[1] \in Nat /\ p[2] \in Nat
      BY <2>1, APair
    <3>2. <<p[2], p[1]>> \in idx
      BY <1>3 DEF Mirror
    <3>3. <<p[2], p[1]>> \notin M
      BY <1>7, <3>1
    <3> QED
      BY <3>2, <3>3
  <2>3. idx \ M \subseteq Mirror(tab \ S)
    <3> SUFFICES ASSUME NEW q \in idx, q \notin M PROVE q \in Mirror(tab \ S)
      OBVIOUS
    <3>1. PICK p \in tab : q = <<p[2], p[1]>>
      BY <1>3 DEF Mirror
    <3>2. p = <<p[1], p[2]>> /\ p[1] \in Nat /\ p[2] \in Nat
      BY <1>2, APair
    <3>3. p \notin S
      BY <1>7, <3>1, <3>2
    <3> QED
      BY <3>1, <3>3 DEF Mirror
  <2> QED
    BY <1>7, <2>2, <2>3 DEF Follows, tab, idx
<1>8. CASE o.op = "eraseKV"
  <2>1. Stored(tab, o) = tab \ {<<o.k, o.v>>} /\ Triggered(ix, o, w) = idx \ {<<o.v, o.k>>}
    BY <1>8 DEF Stored, Triggered, idx
  <2>2. o.k \in Nat /\ o.v \in Nat
    BY <1>8, OperationPairs
  <2> DEFINE S == tab \cap {<<o.k, o.v>>}
             M == {<<o.v, o.k>>}
  <2>3. Stored(tab, o) = tab \ S
    BY <2>1
  <2>4. \A a, b \in Nat : <<b, a>> \in M <=> <<a, b>> \in S \/ (<<a, b>> \notin tab /\ <<b, a>> \in M)
    BY <2>2
  <2> HIDE DEF M, S
  <2>5. S \subseteq tab /\ Triggered(ix, o, w) = idx \ M
    BY <2>1 DEF M, S
  <2> QED
    BY <2>3, <2>4, <2>5, <1>7 DEF tab
<1>9. CASE o.op = "erase"
  <2>1. Stored(tab, o) = tab \ PairsOf(tab, o.k) /\ Triggered(ix, o, w) = idx \ Mirror(PairsOf(tab, o.k))
    BY <1>9 DEF Stored, Triggered, idx, tab
  <2>2. \A a, b \in Nat : <<b, a>> \in Mirror(PairsOf(tab, o.k)) <=> <<a, b>> \in PairsOf(tab, o.k)
    BY <1>2, InMirror
  <2> DEFINE S == PairsOf(tab, o.k)
             M == Mirror(S)
  <2>3. /\ S \subseteq tab /\ Stored(tab, o) = tab \ S /\ Triggered(ix, o, w) = idx \ M
        /\ \A a, b \in Nat : <<b, a>> \in M <=> <<a, b>> \in S \/ (<<a, b>> \notin tab /\ <<b, a>> \in M)
    BY <2>1, <2>2, <1>2
  <2> HIDE DEF M, S
  <2> QED
    BY <2>3, <1>7 DEF tab
<1> QED
  BY <1>6, <1>8, <1>9, OperationPairs DEF tab
-----------------------------------------------------------------------------
Data == <<table, index, triggers, writer, work, fresh, lost, before>>

\* A step of a thread that has no transaction, before and after.
LEMMA OutsideKeeps ==
    ASSUME IInv, NEW t \in Threads, UNCHANGED Data,
           NEW p \in {"idle", "beginning", "iterating", "reading"}, pc' = [pc EXCEPT ![t] = p],
           pc[t] = p \/ (pc[t] \in {"idle", "beginning", "reading"} /\ p # "iterating"),
           call' \in [Threads -> Operations \cup Reads \cup Iterations \cup {NoCall, [op |-> "txn"]}]
    PROVE  IInv'
<1> USE DEF IInv, Data
<1>1. Shape'
  BY DEF Shape
<1>2. Locked'
  BY DEF Locked, Shape
<1>3. \A u \in Threads : pc[u] = "iterating" <=> pc'[u] = "iterating"
  BY DEF Shape
<1>4. writer \in Threads \cup {None}
  BY DEF Shape
<1>5. Unchanged' /\ Untouched'
  BY <1>3, <1>4 DEF Unchanged, Untouched, Kept, Range
<1>6. Followed'
  BY DEF Followed, Kept, Range, Follows
<1> QED
  BY <1>1, <1>2, <1>5, <1>6

\* The end of a transaction, with what is committed then.
LEMMA CloseKeeps ==
    ASSUME MdbAssumption, IInv, NEW t \in Threads, writer = t, Close(t),
           UNCHANGED <<triggers, fresh, lost, before>>,
           \/ UNCHANGED <<table, index>>
           \/ table' = work.table /\ index' = work.index
    PROVE  IInv'
<1>1. Shape'
  BY DEF Shape, IInv, Close
<1>2. writer' = None /\ None \notin Threads /\ pc' = [pc EXCEPT ![t] = "idle"]
      /\ work' = [table |-> table', index |-> index', ops |-> 0]
  BY DEF MdbAssumption, Close
<1>3. Locked'
  <2>1. \A u \in Threads : pc'[u] = IF u = t THEN "idle" ELSE pc[u]
    BY <1>2 DEF Shape, IInv
  <2>2. \A u \in Threads : writer' # u /\ (u # t => pc[u] \notin {"writing", "committing", "iterating"})
    BY <1>2 DEF Locked, IInv
  <2> QED
    BY <2>1, <2>2 DEF Locked
<1>6. work'.table = table' /\ work'.index = index'
  BY <1>2
<1>7. Unchanged'
  BY <1>6 DEF Unchanged
<1>8. \A ix \in fresh : index'[ix] = {} /\ work'.index[ix] = {}
  BY <1>6 DEF Untouched, IInv
<1>9. Kept' = Kept
  BY DEF Kept, Range
<1>4. Unchanged' /\ Untouched'
  BY <1>2, <1>7, <1>8, <1>9 DEF Untouched, IInv
<1>5. Followed'
  BY <1>6, <1>9 DEF Followed, Follows, IInv
<1> QED
  BY <1>1, <1>3, <1>4, <1>5 DEF IInv

\* An operation in an open transaction.
LEMMA OperateKeeps ==
    ASSUME MdbAssumption, Habits = {}, Dup, IInv, NEW t \in Threads, pc[t] = "writing",
           NEW o \in Operations, Operate(t, o), UNCHANGED <<triggers, fresh, lost, before>>
    PROVE  IInv'
<1>1. writer = t
  BY DEF IInv, Locked
<1>2. CASE Unwind(t, o)
  BY <1>1, <1>2, CloseKeeps DEF Unwind, Abort
<1>3. CASE /\ work' = Done(o, work)
           /\ pc' = [pc EXCEPT ![t] = IF call[t].op = "txn" THEN "writing" ELSE "committing"]
           /\ UNCHANGED <<table, index, writer, call>>
  <2> DEFINE p == IF call[t].op = "txn" THEN "writing" ELSE "committing"
  <2>1. p \in {"writing", "committing"} /\ pc' = [pc EXCEPT ![t] = p]
    BY <1>3
  <2> HIDE DEF p
  <2>2. lost = {}
    BY <1>1 DEF IInv, Untouched, MdbAssumption
  <2>3. /\ work'.table = Stored(work.table, o)
        /\ work'.index = [ix \in Indexes |-> IF ix \in Range(triggers) THEN Triggered(ix, o, work)
                                                                   ELSE work.index[ix]]
        /\ work' = [table |-> work'.table, index |-> work'.index, ops |-> work'.ops]
        /\ work.ops \in Nat => work'.ops \in Nat
    BY <1>3 DEF Done
  <2>4. \A ix \in Range(triggers) :
            /\ Triggered(ix, o, work) \subseteq Mirror(Pairs)
            /\ Follows(Triggered(ix, o, work), ix, Stored(work.table, o))
    <3> SUFFICES ASSUME NEW ix \in Range(triggers)
                 PROVE  /\ Triggered(ix, o, work) \subseteq Mirror(Pairs)
                        /\ Follows(Triggered(ix, o, work), ix, Stored(work.table, o))
      OBVIOUS
    <3>1. /\ ix \in Indexes /\ work.table \subseteq Pairs /\ work.index[ix] \subseteq Mirror(Pairs)
          /\ before[ix] \subseteq Pairs
      BY DEF IInv, Shape
    <3>2. Follows(work.index[ix], ix, work.table)
      BY DEF IInv, Followed, Kept
    <3> QED
      BY <3>1, <3>2, OperationFollows
  <2>5. Stored(work.table, o) \subseteq Pairs
    <3>1. work.table \subseteq Pairs
      BY DEF IInv, Shape
    <3>2. o.op \in {"add", "eraseKV", "erase"} /\ (o.op = "add" => <<o.k, o.v>> \in Pairs)
      BY OperationPairs
    <3> QED
      BY <3>1, <3>2 DEF Stored
  <2>6. work'.index \in [Indexes -> SUBSET Mirror(Pairs)]
    BY <2>3, <2>4 DEF IInv, Shape
  <2>7. Shape'
    BY <1>3, <2>1, <2>3, <2>5, <2>6 DEF IInv, Shape
  <2>8. Locked'
    BY <1>1, <1>3, <2>1 DEF IInv, Locked, Shape
  <2>9. Unchanged'
    BY <1>1, <1>3, <2>1 DEF Unchanged, IInv, Shape, MdbAssumption
  <2>10. Untouched'
    BY <1>3, <2>2, <2>3 DEF IInv, Shape, Untouched, Kept, Range
  <2>11. Followed'
    <3> SUFFICES ASSUME NEW ix \in Kept'
                 PROVE  (Follows(index[ix], ix, table) /\ Follows(work.index[ix], ix, work.table))'
      BY DEF Followed
    <3>1. ix \in Range(triggers) /\ ix \in Indexes
      BY <2>2 DEF Kept, Range, IInv, Shape
    <3>2. Follows(index[ix], ix, table)
      BY <3>1 DEF Kept, IInv, Followed
    <3>3. work'.index[ix] = Triggered(ix, o, work)
      BY <2>3, <3>1
    <3>4. Follows(Triggered(ix, o, work), ix, Stored(work.table, o))
      BY <2>4, <3>1
    <3>5. table' = table /\ index' = index /\ before' = before /\ work'.table = Stored(work.table, o)
      BY <1>3, <2>3
    <3>6. Follows(index[ix], ix, table)'
      BY <3>2, <3>5 DEF Follows
    <3>7. Follows(work.index[ix], ix, work.table)'
      BY <3>3, <3>4, <3>5 DEF Follows
    <3> QED
      BY <3>6, <3>7
  <2> QED
    BY <2>7, <2>8, <2>9, <2>10, <2>11 DEF IInv
<1>4. CASE call[t].op = "txn" /\ "commitAfterThrow" \in Habits
  BY <1>4
<1> QED
  BY <1>2, <1>3, <1>4 DEF Operate

\* The write transaction is begun.
LEMMA BeginKeeps ==
    ASSUME MdbAssumption, Habits = {}, IInv, NEW t \in Threads, pc[t] = "beginning", writer = None,
           writer' = t, NEW p \in {"writing", "iterating"}, pc' = [pc EXCEPT ![t] = p],
           p = "writing" => lost = {},
           UNCHANGED <<table, index, triggers, work, fresh, lost, before>>,
           call' \in [Threads -> Operations \cup Reads \cup Iterations \cup {NoCall, [op |-> "txn"]}]
    PROVE  IInv'
<1> USE DEF IInv
<1>1. Shape'
  BY DEF Shape
<1>2. Locked'
  BY DEF Locked, Shape, MdbAssumption
<1>3. work.table = table /\ work.index = index
  BY DEF Unchanged
<1>4. Unchanged'
  BY <1>3 DEF Unchanged
<1>5. pc'[t] = p
  BY DEF Shape
<1>6. Untouched'
  BY <1>5 DEF Untouched, Kept, Range
<1>7. Followed'
  <2>1. Kept' = Kept
    BY DEF Kept, Range
  <2> QED
    BY <2>1 DEF Followed, Follows
<1> QED
  BY <1>1, <1>2, <1>4, <1>6, <1>7

\* A trigger is set.
LEMMA SetKeeps ==
    ASSUME MdbAssumption, IInv, NEW ix \in Indexes, SetTrigger(ix)
    PROVE  IInv'
<1>1. /\ ix \in lost \/ ix \in fresh
      /\ \A t \in Threads : pc[t] = "idle"
      /\ triggers' = [n \in DOMAIN triggers \cup {TriggerName[ix]} |->
                          IF n = TriggerName[ix] THEN ix ELSE triggers[n]]
      /\ before' = IF ix \in fresh THEN [before EXCEPT ![ix] = table] ELSE before
      /\ fresh' = fresh \ {ix} /\ lost' = lost \ {ix}
      /\ UNCHANGED <<table, index, writer, work, pc, call>>
  BY DEF SetTrigger
<1>2. writer = None
  BY <1>1 DEF IInv, Locked, Shape
<1>3. work.table = table /\ work.index = index
  BY <1>2 DEF IInv, Unchanged
<1>4. TriggerName[ix] \in Nat
  BY DEF MdbAssumption
<1>5. DOMAIN triggers' \subseteq Nat /\ \A n \in DOMAIN triggers' : TriggerName[triggers'[n]] = n
  BY <1>1, <1>4 DEF IInv, Shape
<1>6. /\ Range(triggers)' \subseteq Range(triggers) \cup {ix}
      /\ Range(triggers) \subseteq Indexes
      /\ ix \in Range(triggers)'
  BY <1>1 DEF IInv, Shape, Range
<1>7. before' \in [Indexes -> SUBSET Pairs]
  BY <1>1 DEF IInv, Shape
<1>8. Shape'
  BY <1>1, <1>5, <1>6, <1>7 DEF IInv, Shape
<1>9. Locked' /\ Unchanged'
  BY <1>1 DEF IInv, Locked, Unchanged
<1>10. Kept' \subseteq Kept \cup {ix}
  BY <1>1, <1>6 DEF Kept
<1>11. Kept \cap fresh = {} /\ \A jx \in fresh : index[jx] = {} /\ work.index[jx] = {}
  BY DEF IInv, Untouched
<1>12. Untouched'
  BY <1>1, <1>2, <1>10, <1>11 DEF Untouched
<1>13. ASSUME NEW jx \in Kept'
       PROVE  Follows(index[jx], jx, table)'
  <2>1. CASE jx \in Kept /\ ~(jx = ix /\ ix \in fresh)
    <3>1. before'[jx] = before[jx] /\ Follows(index[jx], jx, table)
      <4>1. jx \in Indexes
        BY <1>6, <2>1 DEF IInv, Shape, Kept
      <4>2. before'[jx] = before[jx]
        BY <1>1, <2>1, <4>1 DEF IInv, Shape
      <4> QED
        BY <2>1, <4>2 DEF IInv, Followed
    <3> QED
      BY <1>1, <3>1 DEF Follows
  <2>2. CASE jx = ix /\ ix \in fresh
    <3>1. before'[ix] = table /\ index[ix] = {}
      BY <1>1, <1>11, <2>2 DEF IInv, Shape
    <3>2. Mirror({}) = {}
      BY DEF Mirror
    <3> QED
      BY <1>1, <2>2, <3>1, <3>2 DEF Follows
  <2>3. CASE jx = ix /\ ix \notin fresh
    <3>1. ix \in Kept
      BY <1>1, <2>3 DEF Kept
    <3> QED
      BY <2>1, <2>3, <3>1
  <2> QED
    BY <1>10, <2>1, <2>2, <2>3
<1>14. Followed'
  <2>1. work.table' = table' /\ work.index' = index'
    BY <1>1, <1>3
  <2> QED
    BY <1>13, <2>1 DEF Followed, Follows
<1> QED
  BY <1>8, <1>9, <1>12, <1>14 DEF IInv

\* The process dies and is started again.
LEMMA RestartKeeps ==
    ASSUME MdbAssumption, IInv, Restart
    PROVE  IInv'
<1>1. /\ writer' = None /\ work' = [table |-> table, index |-> index, ops |-> 0]
      /\ pc' = [t \in Threads |-> "idle"] /\ call' = [t \in Threads |-> NoCall]
      /\ triggers' = NoTriggers /\ lost' = lost \cup Range(triggers)
      /\ UNCHANGED <<table, index, fresh, before>>
  BY DEF Restart
<1>2. DOMAIN triggers' = {} /\ Range(triggers)' = {}
  <2>1. DOMAIN triggers' = {}
    BY <1>1 DEF NoTriggers
  <2> QED
    BY <2>1, Zenon DEF Range
<1>3. Kept' = Kept
  BY <1>1, <1>2 DEF Kept
<1>4. work'.table = table /\ work'.index = index
  BY <1>1
<1>5. Shape'
  BY <1>1, <1>2, <1>4 DEF IInv, Shape
<1>6. Locked' /\ Unchanged'
  BY <1>1, <1>4 DEF Locked, Unchanged, MdbAssumption
<1>7. Untouched'
  BY <1>1, <1>3, <1>4 DEF IInv, Untouched
<1>8. Followed'
  BY <1>1, <1>3, <1>4 DEF IInv, Followed, Follows
<1> QED
  BY <1>5, <1>6, <1>7, <1>8 DEF IInv

LEMMA InitHolds ==
    ASSUME MdbAssumption, Init
    PROVE  IInv
<1>1. DOMAIN triggers = {} /\ Range(triggers) = {} /\ Kept = {}
  <2>1. DOMAIN triggers = {}
    BY DEF Init, NoTriggers
  <2>2. Range(triggers) = {}
    BY <2>1, Zenon DEF Range
  <2> QED
    BY <2>1, <2>2 DEF Init, Kept
<1>2. Shape
  BY <1>1 DEF Init, Shape
<1>3. Locked /\ Unchanged
  BY DEF Init, Locked, Unchanged, MdbAssumption
<1>4. Untouched /\ Followed
  BY <1>1 DEF Init, Untouched, Followed
<1> QED
  BY <1>2, <1>3, <1>4 DEF IInv

\* Every action.
LEMMA NextKeeps ==
    ASSUME MdbAssumption, WellUsed, IInv, [Next]_vars
    PROVE  IInv'
<1> DEFINE Calls == Operations \cup Reads \cup Iterations \cup {NoCall, [op |-> "txn"]}
<1>1. Habits = {} /\ Dup
  BY DEF WellUsed
<1>2. call \in [Threads -> Calls]
  BY DEF IInv, Shape
<1>3. \A t \in Threads : pc[t] \in {"idle", "beginning", "writing", "committing", "iterating", "reading"}
  BY DEF IInv, Shape
<1>4. ASSUME NEW t \in Threads, CallBegin(t) PROVE IInv'
  BY <1>1, <1>2, <1>4, OutsideKeeps DEF CallBegin, Data
<1>5. ASSUME NEW t \in Threads, BeginFails(t) PROVE IInv'
  <2>1. writer # t
    BY <1>5 DEF BeginFails, IInv, Locked
  <2> QED
    BY <1>2, <1>5, <2>1, OutsideKeeps DEF BeginFails, Data
<1>6. ASSUME NEW t \in Threads, NEW c \in Operations \cup {[op |-> "txn"]}, BeginTransaction(t, c)
      PROVE  IInv'
  <2>1. call' \in [Threads -> Calls]
    BY <1>2, <1>6 DEF BeginTransaction
  <2> QED
    BY <1>1, <1>6, <2>1, BeginKeeps DEF BeginTransaction
<1>7. ASSUME NEW t \in Threads, Write(t) PROVE IInv'
  BY <1>1, <1>7, OperateKeeps DEF Write
<1>8. ASSUME NEW t \in Threads, NEW o \in Operations, WriteIn(t, o) PROVE IInv'
  BY <1>1, <1>8, OperateKeeps DEF WriteIn
<1>9. ASSUME NEW t \in Threads, Commit(t) PROVE IInv'
  <2>1. writer = t
    BY <1>9 DEF Commit, IInv, Locked
  <2> QED
    BY <1>9, <2>1, CloseKeeps DEF Commit, Abort
<1>10. ASSUME NEW t \in Threads, NEW c \in Iterations, OpenIterator(t, c) PROVE IInv'
  <2>1. CASE c.op = "begin" /\ table = {}
    BY <1>2, <1>10, <2>1, OutsideKeeps DEF OpenIterator, Data
  <2>2. CASE ~(c.op = "begin" /\ table = {})
    <3>1. call' \in [Threads -> Calls]
      BY <1>2, <1>10, <2>2 DEF OpenIterator
    <3> QED
      BY <1>1, <1>10, <2>2, <3>1, BeginKeeps DEF OpenIterator
  <2> QED
    BY <2>1, <2>2
<1>11. ASSUME NEW t \in Threads, CloseIterator(t) PROVE IInv'
  <2>1. writer = t
    BY <1>11 DEF CloseIterator, IInv, Locked
  <2> QED
    BY <1>11, <2>1, CloseKeeps DEF CloseIterator, Abort
<1>12. ASSUME NEW t \in Threads, NEW d \in {1, -1}, Move(t, d) PROVE IInv'
  <2>1. pc' = [pc EXCEPT ![t] = "iterating"]
    BY <1>12 DEF Move, IInv, Shape
  <2> QED
    BY <1>2, <1>12, <2>1, OutsideKeeps DEF Move, Data
<1>13. ASSUME NEW t \in Threads, NEW c \in Reads, CallRead(t, c) PROVE IInv'
  <2>1. call' \in [Threads -> Calls]
    BY <1>2, <1>13 DEF CallRead
  <2> QED
    BY <1>13, <2>1, OutsideKeeps DEF CallRead, Data
<1>14. ASSUME NEW t \in Threads, Visit(t) PROVE IInv'
  <2>1. pc' = [pc EXCEPT ![t] = "reading"]
    BY <1>14 DEF Visit, IInv, Shape
  <2> QED
    BY <1>2, <1>14, <2>1, OutsideKeeps DEF Visit, Data
<1>15. ASSUME NEW t \in Threads, EndRead(t) PROVE IInv'
  BY <1>2, <1>15, OutsideKeeps DEF EndRead, Data
<1>16. ASSUME NEW ix \in Indexes, SetTrigger(ix) PROVE IInv'
  BY <1>16, SetKeeps
<1>17. ASSUME Restart PROVE IInv'
  BY <1>17, RestartKeeps
<1>18. ASSUME UNCHANGED vars PROVE IInv'
  <2>1. Shape'
    <3>1. /\ Range(triggers)' = Range(triggers) /\ table' = table /\ index' = index
          /\ triggers' = triggers /\ work' = work /\ fresh' = fresh /\ lost' = lost
          /\ before' = before /\ writer' = writer /\ pc' = pc /\ call' = call
      BY <1>18 DEF vars, Range
    <3>2. Shape
      BY DEF IInv
    <3> QED
      BY <3>1, <3>2 DEF Shape
  <2>2. Kept' = Kept
    BY <1>18 DEF vars, Kept, Range
  <2>3. Locked' /\ Unchanged'
    BY <1>18 DEF vars, IInv, Locked, Unchanged
  <2>4. Untouched'
    BY <1>18, <2>2 DEF vars, IInv, Untouched
  <2>5. Followed'
    BY <1>18, <2>2 DEF vars, IInv, Followed, Follows
  <2> QED
    BY <2>1, <2>3, <2>4, <2>5 DEF IInv
<1> QED
  BY <1>4, <1>5, <1>6, <1>7, <1>8, <1>9, <1>10, <1>11, <1>12, <1>13, <1>14, <1>15, <1>16, <1>17, <1>18
  DEF Next

\* The inductive invariant: who has LMDB's write transaction, and that the open
\* transaction has, between two operations, its indexes right (mdb.hpp:191-200,
\* 254-263).
THEOREM Invariance ==
    ASSUME MdbAssumption, WellUsed
    PROVE  Spec => []IInv
<1>1. Init => IInv
  BY InitHolds
<1>2. IInv /\ [Next]_vars => IInv'
  BY NextKeeps
<1> QED
  BY <1>1, <1>2, PTL DEF Spec

\* Whichever step of an operation fails, and wherever the process dies, the index
\* of SimpleIndexTrigger has the pairs of the table that were added since its
\* trigger was set, and no other (mdb.hpp:254-257, 335-340, 357-362, 428-461).
THEOREM IndexFollows ==
    ASSUME MdbAssumption, WellUsed
    PROVE  Spec => []IndexFollowsTable
<1>1. IInv => IndexFollowsTable
  BY DEF IInv, Followed, IndexFollowsTable
<1> QED
  BY <1>1, Invariance, PTL
-----------------------------------------------------------------------------
(* Whole operations.                                                         *)

\* A set of numbers has a least one.
LEMMA LeastOfNat ==
    ASSUME NEW T, T \subseteq Nat, T # {}
    PROVE  \E x \in T : \A y \in T : x <= y
<1> DEFINE R == OpToRel(<, Nat)
<1>1. IsWellFoundedOn(R, Nat)
  BY NatLessThanWellFounded
<1>2. \A a, b \in Nat : <<a, b>> \in R <=> a < b
  BY DEF OpToRel
<1> HIDE DEF R
<1>3. PICK x \in T : \A y \in T : ~ (<<y, x>> \in R)
  BY <1>1, WFMin
<1>4. ASSUME NEW y \in T PROVE x <= y
  <2>1. x \in Nat /\ y \in Nat /\ ~ (y < x)
    BY <1>2, <1>3
  <2> QED
    BY <2>1
<1> QED
  BY <1>4

\* Induction, for the numbers of a set.
LEMMA InductionInSet ==
    ASSUME NEW T, 0 \in T, \A n \in Nat : n \in T => n + 1 \in T
    PROVE  Nat \subseteq T
<1> SUFFICES ASSUME NEW n \in Nat, n \notin T PROVE FALSE
  OBVIOUS
<1>1. PICK x \in Nat \ T : \A y \in Nat \ T : x <= y
  BY LeastOfNat
<1>2. x # 0 /\ x - 1 \in Nat
  BY <1>1
<1>3. x - 1 \in T
  BY <1>1, <1>2
<1> QED
  BY <1>2, <1>3

\* What is committed, and what one more operation may make of the databases S.
Committed == [table |-> table, index |-> index]
Further(S) == {AbstractMdb!Perform(db, o) : db \in S, o \in AbstractMdb!Operations}

\* The first m values of AbstractMdb!After.
Iterated(g, m) == g = [n \in 0 .. m |-> IF n = 0 THEN {Committed} ELSE Further(g[n - 1])]

LEMMA IteratedExists == \A m \in Nat : \E g : Iterated(g, m)
<1> DEFINE T == {m \in Nat : \E g : Iterated(g, m)}
<1>1. 0 \in T
  <2> DEFINE g == [n \in 0 .. 0 |-> {Committed}]
  <2>1. g = [n \in 0 .. 0 |-> IF n = 0 THEN {Committed} ELSE Further(g[n - 1])]
    OBVIOUS
  <2>2. Iterated(g, 0)
    BY <2>1 DEF Iterated
  <2> QED
    BY <2>2
<1>2. ASSUME NEW m \in Nat, m \in T PROVE m + 1 \in T
  <2>1. PICK g : Iterated(g, m)
    BY <1>2
  <2> DEFINE h == [n \in 0 .. m + 1 |-> IF n = m + 1 THEN Further(g[m]) ELSE g[n]]
  <2>2. /\ \A n \in 0 .. m : h[n] = g[n]
        /\ h[m + 1] = Further(g[m])
        /\ h = [n \in 0 .. m + 1 |-> h[n]]
    OBVIOUS
  <2> HIDE DEF h
  <2>3. \A n \in 0 .. m : g[n] = IF n = 0 THEN {Committed} ELSE Further(g[n - 1])
    BY <2>1 DEF Iterated
  <2>4. \A n \in 0 .. m + 1 : h[n] = IF n = 0 THEN {Committed} ELSE Further(h[n - 1])
    <3> SUFFICES ASSUME NEW n \in 0 .. m + 1
                 PROVE  h[n] = IF n = 0 THEN {Committed} ELSE Further(h[n - 1])
      OBVIOUS
    <3>1. CASE n = m + 1
      <4>1. n # 0 /\ n - 1 = m /\ m \in 0 .. m
        BY <3>1
      <4> QED
        BY <2>2, <3>1, <4>1
    <3>2. CASE n \in 0 .. m
      <4>1. n # 0 => h[n - 1] = g[n - 1]
        BY <2>2, <3>2
      <4> QED
        BY <2>2, <2>3, <3>2, <4>1
    <3> QED
      BY <3>1, <3>2
  <2>5. h = [n \in 0 .. m + 1 |-> IF n = 0 THEN {Committed} ELSE Further(h[n - 1])]
    BY <2>2, <2>4
  <2>6. Iterated(h, m + 1)
    BY <2>5 DEF Iterated
  <2> QED
    BY <2>6
<1> HIDE DEF T
<1>3. Nat \subseteq T
  BY <1>1, <1>2, InductionInSet
<1> QED
  BY <1>3 DEF T

LEMMA IteratedUnfolds ==
    ASSUME NEW m \in Nat, NEW g, Iterated(g, m)
    PROVE  g[0] = {Committed} /\ \A n \in 0 .. m - 1 : g[n + 1] = Further(g[n])
<1>1. g = [n \in 0 .. m |-> IF n = 0 THEN {Committed} ELSE Further(g[n - 1])]
  BY DEF Iterated
<1>2. g[0] = {Committed}
  BY <1>1
<1>3. ASSUME NEW n \in 0 .. m - 1 PROVE g[n + 1] = Further(g[n])
  <2>1. n + 1 \in 0 .. m /\ n + 1 # 0 /\ (n + 1) - 1 = n
    OBVIOUS
  <2> QED
    BY <1>1, <2>1
<1> QED
  BY <1>2, <1>3

IsAfter(g) ==
    g = [n \in 0 .. MaxOps |->
            IF n = 0 THEN {[table |-> table, index |-> index]}
                     ELSE {AbstractMdb!Perform(db, o) : db \in g[n - 1],
                                                        o \in AbstractMdb!Operations}]

LEMMA AfterChosen == AbstractMdb!After = CHOOSE g : IsAfter(g)
BY DEF AbstractMdb!After, IsAfter

LEMMA IsAfterIterated == \A g : IsAfter(g) <=> Iterated(g, MaxOps)
BY DEF IsAfter, Iterated, Committed, Further

\* After, one operation after the other.
LEMMA AfterUnfolds ==
    ASSUME MdbAssumption
    PROVE  /\ AbstractMdb!After[0] = {Committed}
           /\ \A n \in 0 .. MaxOps - 1 :
                 AbstractMdb!After[n + 1] = Further(AbstractMdb!After[n])
<1>1. MaxOps \in Nat
  BY DEF MdbAssumption
<1>2. \E g : IsAfter(g)
  BY <1>1, IteratedExists, IsAfterIterated
<1>3. IsAfter(AbstractMdb!After)
  BY <1>2, AfterChosen, Zenon
<1> QED
  BY <1>1, <1>3, IsAfterIterated, IteratedUnfolds

LEMMA AfterKept ==
    ASSUME UNCHANGED <<table, index, triggers>>
    PROVE  AbstractMdb!After' = AbstractMdb!After
BY DEF AbstractMdb!After, AbstractMdb!Perform, Range

\* One operation more.
LEMMA DoneIsPerformed ==
    ASSUME Dup, NEW o \in Operations, o.op \in {"add", "eraseKV", "erase"}, NEW w
    PROVE  [table |-> Done(o, w).table, index |-> Done(o, w).index]
              = AbstractMdb!Perform([table |-> w.table, index |-> w.index], o)
<1> DEFINE db == [table |-> w.table, index |-> w.index]
           S == AbstractMdb!Subject(db, o)
           mirrored == {<<p[2], p[1]>> : p \in S}
<1>1. db.table = w.table /\ db.index = w.index
  OBVIOUS
<1> HIDE DEF db
<1>2. CASE o.op = "add"
  <2>1. S = {<<o.k, o.v>>} /\ mirrored = {<<o.v, o.k>>}
    BY <1>2 DEF AbstractMdb!Subject
  <2>2. Stored(w.table, o) = w.table \cup S
    BY <1>2, <2>1 DEF Stored
  <2>3. \A ix : Triggered(ix, o, w) = w.index[ix] \cup mirrored
    BY <1>2, <2>1 DEF Triggered
  <2> QED
    BY <1>1, <1>2, <2>2, <2>3 DEF Done, AbstractMdb!Perform, db
<1>3. CASE o.op = "eraseKV"
  <2>1. S = {<<o.k, o.v>>} /\ mirrored = {<<o.v, o.k>>}
    BY <1>3 DEF AbstractMdb!Subject
  <2>2. Stored(w.table, o) = w.table \ S
    BY <1>3, <2>1 DEF Stored
  <2>3. \A ix : Triggered(ix, o, w) = w.index[ix] \ mirrored
    BY <1>3, <2>1 DEF Triggered
  <2> QED
    BY <1>1, <1>3, <2>2, <2>3 DEF Done, AbstractMdb!Perform, db
<1>4. CASE o.op = "erase"
  <2>1. S = PairsOf(w.table, o.k) /\ mirrored = Mirror(PairsOf(w.table, o.k))
    BY <1>1, <1>4 DEF AbstractMdb!Subject, PairsOf, Mirror
  <2>2. Stored(w.table, o) = w.table \ S
    BY <1>4, <2>1 DEF Stored
  <2>3. \A ix : Triggered(ix, o, w) = w.index[ix] \ mirrored
    BY <1>4, <2>1 DEF Triggered
  <2> QED
    BY <1>1, <1>4, <2>2, <2>3 DEF Done, AbstractMdb!Perform, db
<1> QED
  BY <1>2, <1>3, <1>4

LEMMA OneOrMore ==
    ASSUME MdbAssumption
    PROVE  MaxOps \in Nat /\ MaxOps >= 1 /\ None \notin Threads
BY DEF MdbAssumption

\* The end of a transaction, or of the process.
LEMMA ReachedAnew ==
    ASSUME MdbAssumption, work'.ops = 0, work'.table = table', work'.index = index'
    PROVE  Reached'
BY OneOrMore DEF Reached

\* A step that leaves the open transaction and what is committed alone.
LEMMA ReachedStays ==
    ASSUME MdbAssumption, Reached, UNCHANGED <<table, index, triggers, work>>,
           work.ops # 0 => /\ writer' # None /\ pc'[writer'] # "iterating"
                           /\ \A t \in Threads : pc'[t] = "writing" => call'[t].op = "txn"
    PROVE  Reached'
BY AfterKept DEF Reached

LEMMA ReachedFurther ==
    ASSUME MdbAssumption, Dup, IInv, Reached, NEW t \in Threads, pc[t] = "writing",
           NEW o \in Operations, work.ops < MaxOps, work' = Done(o, work),
           pc' = [pc EXCEPT ![t] = IF call[t].op = "txn" THEN "writing" ELSE "committing"],
           UNCHANGED <<table, index, triggers, writer, call>>
    PROVE  Reached'
<1>1. work.ops \in 0 .. MaxOps - 1 /\ work'.ops = work.ops + 1 /\ work'.ops \in 0 .. MaxOps
      /\ work'.ops # 0
  BY OneOrMore DEF Reached, Done
<1> DEFINE db == [table |-> work.table, index |-> work.index]
<1>2. db \in AbstractMdb!After[work.ops]
  <2>1. CASE work.ops = 0
    BY <2>1, AfterUnfolds DEF Reached, Committed
  <2>2. CASE work.ops # 0
    BY <2>2 DEF Reached
  <2> QED
    BY <2>1, <2>2
<1>3. o \in AbstractMdb!Operations
  BY DEF Operations, AbstractMdb!Operations
<1>4. AbstractMdb!Perform(db, o) \in AbstractMdb!After[work'.ops]
  BY <1>1, <1>2, <1>3, AfterUnfolds DEF Further
<1>5. AbstractMdb!Perform(db, o) = [table |-> work'.table, index |-> work'.index]
  BY OperationPairs, DoneIsPerformed
<1>6. AbstractMdb!After' = AbstractMdb!After
  BY AfterKept
<1>7. writer = t /\ t # None /\ \A u \in Threads : pc[u] = "writing" => u = t
  BY OneOrMore DEF IInv, Locked
<1>8. \A u \in Threads : pc'[u] = IF u = t
                                 THEN (IF call[t].op = "txn" THEN "writing" ELSE "committing")
                                 ELSE pc[u]
  BY DEF IInv, Shape
<1>9. writer' = t /\ t # None /\ pc'[writer'] # "iterating"
  BY <1>7, <1>8
<1>10. \A u \in Threads : pc'[u] = "writing" => call'[u].op = "txn"
  BY <1>7, <1>8
<1> QED
  BY <1>1, <1>4, <1>5, <1>6, <1>9, <1>10 DEF Reached

\* Every action.
LEMMA ReachedKept ==
    ASSUME MdbAssumption, WellUsed, IInv, Reached, [Next]_vars
    PROVE  Reached'
<1>1. Habits = {} /\ Dup
  BY DEF WellUsed
<1>2. ASSUME work.ops = 0, UNCHANGED <<table, index, triggers, work>> PROVE Reached'
  BY <1>2, ReachedStays
<1>3. ASSUME NEW t \in Threads, Close(t) PROVE Reached'
  BY <1>3, ReachedAnew DEF Close
<1>4. \A t \in Threads : pc[t] = "iterating" => writer = t
  BY DEF IInv, Locked
<1>5. ASSUME NEW t \in Threads, NEW p \in {"idle", "beginning", "iterating", "reading"},
             pc' = [pc EXCEPT ![t] = p], p = "iterating" => pc[t] = "iterating",
             pc[t] \notin {"writing", "committing"},
             UNCHANGED <<table, index, triggers, work, writer>>,
             \A u \in Threads : u # t => call'[u] = call[u]
      PROVE  Reached'
  <2>1. CASE work.ops = 0
    BY <1>2, <1>5, <2>1
  <2>2. CASE work.ops # 0
    <3>1. writer # None /\ pc[writer] # "iterating"
      BY <2>2 DEF Reached
    <3>2. writer \in Threads /\ writer # t
      <4>1. writer \in Threads
        BY <3>1 DEF IInv, Shape
      <4>2. pc[writer] \in {"writing", "committing", "iterating"}
        BY <4>1 DEF IInv, Locked
      <4> QED
        BY <1>5, <3>1, <4>1, <4>2
    <3>3. \A u \in Threads : pc'[u] = IF u = t THEN p ELSE pc[u]
      BY <1>5 DEF IInv, Shape
    <3>4. \A u \in Threads : pc[u] = "writing" => call[u].op = "txn"
      BY <2>2 DEF Reached
    <3>5. \A u \in Threads : pc'[u] = "writing" => call'[u].op = "txn"
      BY <1>5, <3>3, <3>4
    <3>6. writer' # None /\ pc'[writer'] # "iterating"
      BY <1>5, <3>1, <3>2, <3>3
    <3> QED
      BY <1>5, <3>5, <3>6, ReachedStays
  <2> QED
    BY <2>1, <2>2
<1>6. ASSUME NEW t \in Threads, CallBegin(t) PROVE Reached'
  BY <1>1, <1>5, <1>6 DEF CallBegin
<1>7. ASSUME NEW t \in Threads, BeginFails(t) PROVE Reached'
  <2>1. writer # t
    BY <1>7 DEF BeginFails, IInv, Locked
  <2> QED
    BY <1>5, <1>7, <2>1 DEF BeginFails
<1>8. ASSUME NEW t \in Threads, NEW c \in Operations \cup {[op |-> "txn"]}, BeginTransaction(t, c)
      PROVE  Reached'
  BY <1>2, <1>8 DEF BeginTransaction, Reached
<1>9. ASSUME NEW t \in Threads, NEW o \in Operations, Operate(t, o), pc[t] = "writing",
             work.ops < MaxOps, UNCHANGED triggers
      PROVE  Reached'
  <2>1. CASE Unwind(t, o)
    BY <1>3, <2>1 DEF Unwind, Abort
  <2>2. CASE ~Unwind(t, o)
    <3>1. /\ work' = Done(o, work)
          /\ pc' = [pc EXCEPT ![t] = IF call[t].op = "txn" THEN "writing" ELSE "committing"]
          /\ UNCHANGED <<table, index, writer, call>>
      BY <1>1, <1>9, <2>2 DEF Operate
    <3> QED
      BY <1>1, <1>9, <3>1, ReachedFurther
  <2> QED
    BY <2>1, <2>2
<1>10. ASSUME NEW t \in Threads, Write(t) PROVE Reached'
  <2>1. /\ pc[t] = "writing" /\ call[t] \in Operations /\ Operate(t, call[t])
        /\ UNCHANGED triggers
    BY <1>10 DEF Write
  <2>2. call[t].op # "txn"
    BY <2>1, OperationPairs
  <2>3. work.ops < MaxOps
    BY <2>1, <2>2, OneOrMore DEF Reached
  <2> QED
    BY <1>9, <2>1, <2>3
<1>11. ASSUME NEW t \in Threads, NEW o \in Operations, WriteIn(t, o) PROVE Reached'
  BY <1>9, <1>11 DEF WriteIn
<1>12. ASSUME NEW t \in Threads, Commit(t) PROVE Reached'
  BY <1>3, <1>12 DEF Commit, Abort
<1>13. ASSUME NEW t \in Threads, NEW c \in Iterations, OpenIterator(t, c) PROVE Reached'
  BY <1>2, <1>13 DEF OpenIterator, Reached
<1>14. ASSUME NEW t \in Threads, CloseIterator(t) PROVE Reached'
  BY <1>3, <1>14 DEF CloseIterator, Abort
<1>15. ASSUME NEW t \in Threads, NEW d \in {1, -1}, Move(t, d) PROVE Reached'
  <2>1. work.ops = 0
    BY <1>4, <1>15 DEF Move, Reached
  <2> QED
    BY <1>2, <1>15, <2>1 DEF Move
<1>16. ASSUME NEW t \in Threads, NEW c \in Reads, CallRead(t, c) PROVE Reached'
  <2>1. \A u \in Threads : u # t => call'[u] = call[u]
    BY <1>16 DEF CallRead, IInv, Shape
  <2> QED
    BY <1>5, <1>16, <2>1 DEF CallRead
<1>17. ASSUME NEW t \in Threads, Visit(t) PROVE Reached'
  <2>1. pc' = [pc EXCEPT ![t] = "reading"]
    BY <1>17 DEF Visit, IInv, Shape
  <2> QED
    BY <1>5, <1>17, <2>1 DEF Visit
<1>18. ASSUME NEW t \in Threads, EndRead(t) PROVE Reached'
  <2>1. \A u \in Threads : u # t => call'[u] = call[u]
    BY <1>18 DEF EndRead, IInv, Shape
  <2> QED
    BY <1>5, <1>18, <2>1 DEF EndRead
<1>19. ASSUME NEW ix \in Indexes, SetTrigger(ix) PROVE Reached'
  <2>1. writer = None
    BY <1>19 DEF SetTrigger, IInv, Locked, Shape
  <2>2. work.ops = 0 /\ work.table = table /\ work.index = index
    BY <2>1 DEF Reached
  <2> QED
    BY <1>19, <2>2, ReachedAnew DEF SetTrigger
<1>20. ASSUME Restart PROVE Reached'
  BY <1>20, ReachedAnew DEF Restart
<1>21. ASSUME UNCHANGED vars PROVE Reached'
  BY <1>21, ReachedStays DEF vars, Reached
<1> QED
  BY <1>6, <1>7, <1>8, <1>10, <1>11, <1>12, <1>13, <1>14, <1>15, <1>16, <1>17, <1>18, <1>19,
     <1>20, <1>21
  DEF Next

\* What a step does to the database.
LEMMA StepsAreWhole ==
    ASSUME MdbAssumption, WellUsed, IInv, Reached, [Next]_vars, Shape'
    PROVE  [AbstractMdb!Next]_<<table, index, Range(triggers)>>
<1> DEFINE Stutter == UNCHANGED <<table, index, Range(triggers)>>
<1>1. UNCHANGED <<table, index, triggers>> => Stutter
  BY DEF Range
<1>2. ASSUME NEW t \in Threads, Commit(t), ~Stutter
      PROVE  AbstractMdb!Transaction
  <2>1. /\ table' = work.table /\ index' = work.index
        /\ Range(triggers)' = Range(triggers)
    BY <1>1, <1>2 DEF Commit, Abort, Range
  <2>2. work.ops # 0
    BY <1>2, <2>1 DEF Reached
  <2>3. work.ops \in 1 .. MaxOps
    BY <2>2, OneOrMore DEF Reached
  <2>4. [table |-> work.table, index |-> work.index] \in AbstractMdb!After[work.ops]
    BY <2>2 DEF Reached
  <2> QED
    BY <2>1, <2>3, <2>4 DEF AbstractMdb!Transaction
<1>3. UNCHANGED <<table, index>> => AbstractMdb!Next
  <2>1. Range(triggers)' \in SUBSET Indexes
    BY DEF Shape
  <2> QED
    BY <2>1 DEF AbstractMdb!Next, AbstractMdb!Retrigger
<1>4. ASSUME NEW t \in Threads, NEW o \in Operations, Operate(t, o) PROVE UNCHANGED <<table, index>>
  BY <1>4 DEF Operate, Unwind, Abort, WellUsed
<1>5. CASE \E t \in Threads : Commit(t)
  BY <1>2, <1>5 DEF AbstractMdb!Next
<1>6. CASE UNCHANGED <<table, index>>
  BY <1>3, <1>6
<1>7. (\E t \in Threads : Commit(t)) \/ UNCHANGED <<table, index>>
  BY <1>4 DEF Next, vars, CallBegin, BeginFails, BeginTransaction, Write, WriteIn, OpenIterator,
              CloseIterator, Abort, Move, CallRead, Visit, EndRead, SetTrigger, Restart
<1> QED
  BY <1>5, <1>6, <1>7

\* The database changes by whole operations, with what the triggers make of their
\* indexes, seen by others at once or not at all: whichever step of an operation
\* throws, whether the commit fails, and wherever the process dies (mdb.hpp:191-200,
\* 244-263, 319-371).
THEOREM OperationsAreWhole ==
    ASSUME MdbAssumption, WellUsed
    PROVE  Spec => WholeOperations
<1>1. Init => IInv /\ Reached /\ AbstractMdb!Init
  <2>1. ASSUME Init PROVE AbstractMdb!Init
    <3>1. DOMAIN triggers = {}
      BY <2>1 DEF Init, NoTriggers
    <3>2. Range(triggers) = {}
      BY <3>1, Zenon DEF Range
    <3> QED
      BY <2>1, <3>2 DEF Init, AbstractMdb!Init
  <2>2. ASSUME Init PROVE Reached
    BY <2>2, OneOrMore DEF Init, Reached
  <2> QED
    BY <2>1, <2>2, InitHolds
<1>2. IInv /\ Reached /\ [Next]_vars
         => IInv' /\ Reached' /\ [AbstractMdb!Next]_<<table, index, Range(triggers)>>
  <2>1. ASSUME IInv, Reached, [Next]_vars
        PROVE  IInv' /\ Reached' /\ [AbstractMdb!Next]_<<table, index, Range(triggers)>>
    <3>1. IInv' /\ Reached'
      BY <2>1, NextKeeps, ReachedKept
    <3>2. Shape'
      BY <3>1 DEF IInv
    <3> QED
      BY <2>1, <3>1, <3>2, StepsAreWhole
  <2> QED
    BY <2>1
<1> QED
  BY <1>1, <1>2, PTL DEF Spec, WholeOperations, AbstractMdb!Spec
-----------------------------------------------------------------------------
(* Rows in their order.                                                      *)

\* A finite set has an enumeration in any linear order, by induction on its size.
LinearOn(R, X) ==
    /\ \A a \in X : <<a, a>> \notin R
    /\ \A a, b \in X : a = b \/ <<a, b>> \in R \/ <<b, a>> \in R
    /\ \A a, b, c \in X : <<a, b>> \in R /\ <<b, c>> \in R => <<a, c>> \in R
Enumerates(g, n, S, R) ==
    /\ g \in [1 .. n -> S] /\ \A x \in S : \E i \in 1 .. n : g[i] = x
    /\ \A i, j \in 1 .. n : i < j => <<g[i], g[j]>> \in R
Enumerable(n, X, R) ==
    \A S \in SUBSET X : IsFiniteSet(S) /\ Cardinality(S) = n => \E g : Enumerates(g, n, S, R)

LEMMA InsertEnumerates ==
    ASSUME NEW X, NEW R, LinearOn(R, X), NEW n \in Nat, NEW S, S \subseteq X,
           NEW x \in S, NEW g, Enumerates(g, n, S \ {x}, R)
    PROVE  \E h : Enumerates(h, n + 1, S, R)
<1> DEFINE J == {j \in 1 .. n + 1 : j = n + 1 \/ <<x, g[j]>> \in R}
<1>1. PICK m \in J : \A j \in J : m <= j
  <2>1. n + 1 \in J /\ J \subseteq Nat
    OBVIOUS
  <2> HIDE DEF J
  <2> QED
    BY <2>1, LeastOfNat
<1>2. m \in 1 .. n + 1
  OBVIOUS
<1>3. /\ g \in [1 .. n -> S \ {x}] /\ \A y \in S \ {x} : \E i \in 1 .. n : g[i] = y
      /\ \A i, j \in 1 .. n : i < j => <<g[i], g[j]>> \in R
  BY DEF Enumerates
<1>4. \A i \in 1 .. n : i < m => <<g[i], x>> \in R
  <2> SUFFICES ASSUME NEW i \in 1 .. n, i < m PROVE <<g[i], x>> \in R
    OBVIOUS
  <2>1. i \notin J
    BY <1>1, <1>2
  <2>2. g[i] \in S \ {x} /\ <<x, g[i]>> \notin R
    BY <1>3, <2>1
  <2> QED
    BY <2>2 DEF LinearOn
<1>5. \A i \in 1 .. n : i >= m => <<x, g[i]>> \in R
  <2> SUFFICES ASSUME NEW i \in 1 .. n, i >= m PROVE <<x, g[i]>> \in R
    OBVIOUS
  <2>1. m \in 1 .. n /\ <<x, g[m]>> \in R
    BY <1>1, <1>2
  <2>2. CASE i = m
    BY <2>1, <2>2
  <2>3. CASE i # m
    <3>1. <<g[m], g[i]>> \in R
      BY <1>3, <2>1, <2>3
    <3>2. g[m] \in X /\ g[i] \in X /\ x \in X
      BY <1>3, <2>1
    <3> QED
      BY <2>1, <3>1, <3>2 DEF LinearOn
  <2> QED
    BY <2>2, <2>3
<1> HIDE DEF J
<1> DEFINE h == [i \in 1 .. n + 1 |-> IF i < m THEN g[i] ELSE IF i = m THEN x ELSE g[i - 1]]
<1>6. \A i \in 1 .. n + 1 : /\ i < m => i \in 1 .. n /\ h[i] = g[i]
                            /\ i = m => h[i] = x
                            /\ i > m => i - 1 \in 1 .. n /\ h[i] = g[i - 1]
  BY <1>2
<1>7. h \in [1 .. n + 1 -> S]
  BY <1>2, <1>3
<1> HIDE DEF h
<1>8. \A y \in S : \E i \in 1 .. n + 1 : h[i] = y
  <2> SUFFICES ASSUME NEW y \in S PROVE \E i \in 1 .. n + 1 : h[i] = y
    OBVIOUS
  <2>1. CASE y = x
    BY <1>2, <1>6, <2>1
  <2>2. CASE y # x
    <3>1. PICK i \in 1 .. n : g[i] = y
      BY <1>3, <2>2
    <3>2. CASE i < m
      <4>1. i \in 1 .. n + 1 /\ h[i] = y
        BY <1>6, <3>1, <3>2
      <4> QED
        BY <4>1
    <3>3. CASE i >= m
      <4>1. i + 1 \in 1 .. n + 1 /\ i + 1 > m /\ (i + 1) - 1 = i
        BY <1>2, <3>3
      <4>2. h[i + 1] = y
        BY <1>6, <3>1, <4>1
      <4> QED
        BY <4>1, <4>2
    <3> QED
      BY <1>2, <3>2, <3>3
  <2> QED
    BY <2>1, <2>2
<1>9. ASSUME NEW i \in 1 .. n + 1, NEW j \in 1 .. n + 1, i < j
      PROVE  <<h[i], h[j]>> \in R
  <2>1. CASE j < m
    BY <1>2, <1>3, <1>6, <1>9, <2>1
  <2>2. CASE j = m
    BY <1>2, <1>4, <1>6, <1>9, <2>2
  <2>3. CASE j > m /\ i < m
    <3>1. i \in 1 .. n /\ h[i] = g[i] /\ j - 1 \in 1 .. n /\ h[j] = g[j - 1]
      BY <1>6, <2>3
    <3>2. i < j - 1
      BY <1>2, <2>3
    <3> QED
      BY <1>3, <3>1, <3>2
  <2>4. CASE j > m /\ i = m
    <3>1. h[i] = x /\ j - 1 \in 1 .. n /\ h[j] = g[j - 1] /\ j - 1 >= m
      BY <1>2, <1>6, <2>4
    <3> QED
      BY <1>5, <3>1
  <2>5. CASE i > m
    <3>1. i - 1 \in 1 .. n /\ h[i] = g[i - 1] /\ j - 1 \in 1 .. n /\ h[j] = g[j - 1]
      BY <1>2, <1>6, <1>9, <2>5
    <3>2. i - 1 < j - 1
      BY <1>9
    <3> QED
      BY <1>3, <3>1, <3>2
  <2> QED
    BY <1>2, <1>9, <2>1, <2>2, <2>3, <2>4, <2>5
<1>10. Enumerates(h, n + 1, S, R)
  BY <1>7, <1>8, <1>9 DEF Enumerates
<1> QED
  BY <1>10

LEMMA LinearEnumerable ==
    ASSUME NEW X, NEW R, LinearOn(R, X)
    PROVE  \A n \in Nat : Enumerable(n, X, R)
<1> DEFINE T == {n \in Nat : Enumerable(n, X, R)}
<1>1. 0 \in T
  <2> SUFFICES ASSUME NEW S \in SUBSET X, IsFiniteSet(S), Cardinality(S) = 0
               PROVE  \E g : Enumerates(g, 0, S, R)
    BY DEF Enumerable
  <2>1. S = {}
    BY FS_EmptySet
  <2> DEFINE g == [i \in 1 .. 0 |-> 0]
  <2>2. 1 .. 0 = {}
    OBVIOUS
  <2>3. g \in [1 .. 0 -> S]
    BY <2>2
  <2>4. Enumerates(g, 0, S, R)
    BY <2>1, <2>2, <2>3 DEF Enumerates
  <2> QED
    BY <2>4
<1>2. ASSUME NEW n \in Nat, n \in T PROVE n + 1 \in T
  <2> SUFFICES ASSUME NEW S \in SUBSET X, IsFiniteSet(S), Cardinality(S) = n + 1
               PROVE  \E g : Enumerates(g, n + 1, S, R)
    BY DEF Enumerable
  <2>1. S # {}
    BY FS_EmptySet
  <2>2. PICK x : x \in S
    BY <2>1
  <2>3. IsFiniteSet(S \ {x}) /\ Cardinality(S \ {x}) = n /\ S \ {x} \in SUBSET X
    BY <2>2, FS_RemoveElement
  <2>4. PICK g : Enumerates(g, n, S \ {x}, R)
    BY <1>2, <2>3 DEF Enumerable
  <2> QED
    BY <2>2, <2>4, InsertEnumerates
<1> HIDE DEF T
<1>3. Nat \subseteq T
  BY <1>1, <1>2, InductionInSet
<1> QED
  BY <1>3 DEF T

\* The rows of a finite table are all of it, in the order of LMDB.
LEMMA RowsAreTheTable ==
    ASSUME NEW tab, tab \subseteq Nat \X Nat, IsFiniteSet(tab)
    PROVE  /\ Rows(tab) \in [1 .. Cardinality(tab) -> tab] /\ Cardinality(tab) \in Nat
           /\ Sorted(Rows(tab))
           /\ \A p \in tab : \E i \in 1 .. Cardinality(tab) : Rows(tab)[i] = p
<1> DEFINE X == Nat \X Nat
           R == {e \in X \X X : Before(e[1], e[2])}
           n == Cardinality(tab)
<1>1. n \in Nat
  BY FS_CardinalityType
<1>2. \A p, q \in X : <<p, q>> \in R <=> Before(p, q)
  OBVIOUS
<1>3. /\ \A p \in X : ~Before(p, p)
      /\ \A p, q, r \in X : Before(p, q) /\ Before(q, r) => Before(p, r)
  BY DEF Before
<1>4. ASSUME NEW p \in X, NEW q \in X PROVE p = q \/ Before(p, q) \/ Before(q, p)
  <2>1. p = <<p[1], p[2]>> /\ p[1] \in Nat /\ p[2] \in Nat
        /\ q = <<q[1], q[2]>> /\ q[1] \in Nat /\ q[2] \in Nat
    BY APair
  <2>2. p[1] = q[1] /\ p[2] = q[2] => p = q
    BY <2>1
  <2> QED
    BY <2>1, <2>2 DEF Before
<1> HIDE DEF R
<1>5. LinearOn(R, X)
  BY <1>2, <1>3, <1>4 DEF LinearOn
<1>6. PICK g : Enumerates(g, n, tab, R)
  BY <1>1, <1>5, LinearEnumerable DEF Enumerable
<1>7. g \in [1 .. n -> tab] /\ Sorted(g)
  BY <1>2, <1>6 DEF Enumerates, Sorted
<1>8. Rows(tab) \in [1 .. n -> tab] /\ Sorted(Rows(tab))
  BY <1>7 DEF Rows
<1> DEFINE rows == Rows(tab)
<1>9. rows \in Injection(1 .. n, tab)
  <2>1. \A i, j \in 1 .. n : i < j => rows[i] # rows[j]
    BY <1>3, <1>8 DEF Sorted
  <2>2. \A i, j \in 1 .. n : rows[i] = rows[j] => i = j
    BY <1>1, <2>1
  <2> QED
    BY <1>8, <2>2 DEF Injection, IsInjective
<1>10. IsFiniteSet(1 .. n) /\ Cardinality(1 .. n) = n
  BY <1>1, FS_Interval
<1>11. rows \in Surjection(1 .. n, tab)
  BY <1>9, <1>10, FS_Injection
<1> QED
  BY <1>1, <1>8, <1>11 DEF Surjection
-----------------------------------------------------------------------------
(* Cursors.                                                                  *)

LEMMA KeyRowFinds ==
    ASSUME NEW rows, NEW n \in Nat, DOMAIN rows = 1 .. n, Len(rows) = n, NEW k
    PROVE  \/ KeyRow(rows, k) = 0 /\ \A i \in 1 .. n : rows[i][1] # k
           \/ /\ KeyRow(rows, k) \in 1 .. n /\ rows[KeyRow(rows, k)][1] = k
              /\ \A i \in 1 .. n : rows[i][1] = k => KeyRow(rows, k) <= i
<1> DEFINE I == {i \in 1 .. n : rows[i][1] = k}
<1>1. KeyRow(rows, k) = IF I # {} THEN Min(I) ELSE 0
  BY DEF KeyRow, SelectInSeq
<1>2. CASE I = {}
  BY <1>1, <1>2
<1>3. CASE I # {}
  <2>1. \E x \in I : \A y \in I : x <= y
    <3>1. I \subseteq Nat
      OBVIOUS
    <3> HIDE DEF I
    <3> QED
      BY <1>3, <3>1, LeastOfNat
  <2>2. Min(I) \in I /\ \A y \in I : Min(I) <= y
    <3> HIDE DEF I
    <3> QED
      BY <2>1 DEF Min
  <2>3. KeyRow(rows, k) = Min(I)
    BY <1>1, <1>3
  <2> HIDE DEF I
  <2>4. KeyRow(rows, k) \in I /\ \A y \in I : KeyRow(rows, k) <= y
    BY <2>2, <2>3
  <2> QED
    BY <2>4 DEF I
<1> QED
  BY <1>2, <1>3

\* A cursor that begins at a row.
StartsAt(rows, pos, stay, o) ==
    /\ rows \in Seq(Pairs) /\ Sorted(rows) /\ pos \in 0 .. Len(rows)
    /\ stay \in BOOLEAN /\ (stay <=> o.op # "begin")
    /\ stay => IF pos = 0 THEN \A i \in DOMAIN rows : rows[i][1] # o.k
               ELSE /\ rows[pos][1] = o.k
                    /\ \A i \in DOMAIN rows : rows[i][1] = o.k => pos <= i
    /\ ~stay => pos = 1

LEMMA CursorIsPlaced ==
    ASSUME NEW rows, NEW pos, NEW stay, NEW o, StartsAt(rows, pos, stay, o)
    PROVE  Placed(Cursor(rows, pos, stay), o) /\ Cursor(rows, pos, stay).rows = rows
<1> USE DEF StartsAt
<1> DEFINE c == Cursor(rows, pos, stay)
<1>1. /\ c.rows = rows /\ c.pos = pos /\ (c.live <=> pos # 0) /\ c.stay = stay /\ c.forth = TRUE
      /\ c.live \in BOOLEAN
      /\ c.seen = IF pos = 0 THEN << >> ELSE <<rows[pos]>>
      /\ c = [rows |-> c.rows, pos |-> c.pos, live |-> c.live, stay |-> c.stay,
              forth |-> c.forth, seen |-> c.seen]
  BY DEF Cursor
<1>2. c.seen \in Seq(Pairs) /\ c.rows \in Seq(Pairs) /\ c.pos \in Nat
  <2>1. Len(rows) \in Nat
    OBVIOUS
  <2> QED
    BY <1>1, <2>1
<1> HIDE DEF c
<1>3. c \in CursorType
  <2>1. c.live \in BOOLEAN /\ c.stay \in BOOLEAN /\ c.forth \in BOOLEAN
    BY <1>1
  <2> QED
    BY <1>1, <1>2, <2>1 DEF CursorType
<1>4. Visitable(c, o) = {i \in 1 .. Len(rows) : stay => rows[i][1] = o.k}
  BY <1>1 DEF Visitable
<1>5. pos # 0 => pos \in Visitable(c, o)
  BY <1>4
<1>6. ToSet(c.seen) = {rows[i] : i \in {j \in Visitable(c, o) : j <= pos}}
  <2>1. CASE pos = 0
    <3>1. {j \in Visitable(c, o) : j <= pos} = {}
      BY <1>4, <2>1
    <3>2. ToSet(<< >>) = {}
      BY DEF ToSet
    <3> QED
      BY <1>1, <2>1, <3>1, <3>2
  <2>2. CASE pos # 0
    <3>1. {j \in Visitable(c, o) : j <= pos} = {pos}
      BY <1>4, <1>5, <2>2
    <3>2. ToSet(<<rows[pos]>>) = {rows[pos]}
      BY DEF ToSet
    <3> QED
      BY <1>1, <2>2, <3>1, <3>2
  <2> QED
    BY <2>1, <2>2
<1>7. c.live \/ \A j \in Visitable(c, o) : j <= pos
  BY <1>1, <1>4
<1> QED
  BY <1>1, <1>3, <1>5, <1>6, <1>7 DEF Placed, c

LEMMA AppendedSet ==
    ASSUME NEW S, NEW s \in Seq(S), NEW x \in S
    PROVE  ToSet(Append(s, x)) = ToSet(s) \cup {x} /\ Append(s, x) \in Seq(S)
<1> DEFINE a == Append(s, x)
<1>1. /\ a \in Seq(S) /\ Len(a) = Len(s) + 1 /\ Len(s) \in Nat /\ a[Len(s) + 1] = x
      /\ \A i \in 1 .. Len(s) : a[i] = s[i]
  OBVIOUS
<1>2. DOMAIN a = 1 .. Len(a) /\ DOMAIN s = 1 .. Len(s)
  OBVIOUS
<1> HIDE DEF a
<1>3. \A i \in 1 .. Len(a) : i \in 1 .. Len(s) \/ i = Len(s) + 1
  BY <1>1
<1>4. Len(s) + 1 \in 1 .. Len(a) /\ \A i \in 1 .. Len(s) : i \in 1 .. Len(a)
  BY <1>1
<1>5. ToSet(a) = ToSet(s) \cup {x}
  BY <1>1, <1>2, <1>3, <1>4 DEF ToSet
<1> QED
  BY <1>1, <1>5 DEF a

\* ++ and -- keep a cursor at its rows.
LEMMA MovedIsPlaced ==
    ASSUME MdbAssumption, NEW c, NEW o, Placed(c, o), NEW d \in {1, -1}, c.stay => c.live
    PROVE  Placed(Moved(c, d), o) /\ Moved(c, d).rows = c.rows
<1> DEFINE n == Moved(c, d)
           to == c.pos + d
           there == to \in DOMAIN c.rows /\ (c.stay => c.rows[to][1] = c.rows[c.pos][1])
           grows == there /\ c.forth /\ d = 1
<1>0. \A i \in DOMAIN c.rows : c.rows[i] \in Pairs
  BY DEF Placed, CursorType
<1>1. /\ c \in CursorType /\ c.rows \in Seq(Pairs) /\ c.pos \in Nat /\ c.seen \in Seq(Pairs)
      /\ c.stay \in BOOLEAN /\ c.forth \in BOOLEAN /\ c.live \in BOOLEAN
      /\ DOMAIN c.rows = 1 .. Len(c.rows) /\ Len(c.rows) \in Nat
  BY DEF Placed, CursorType
<1>2. /\ n.rows = c.rows /\ n.stay = c.stay /\ n.forth = (c.forth /\ d = 1) /\ n.live = there
      /\ n.pos = IF there \/ (~c.stay /\ to \in 0 .. Len(c.rows) + 1) THEN to ELSE c.pos
      /\ n.seen = IF grows THEN Append(c.seen, c.rows[to]) ELSE c.seen
      /\ n = [rows |-> n.rows, pos |-> n.pos, live |-> n.live, stay |-> n.stay,
              forth |-> n.forth, seen |-> n.seen]
  <2>1. c = [rows |-> c.rows, pos |-> c.pos, live |-> c.live, stay |-> c.stay,
             forth |-> c.forth, seen |-> c.seen]
    BY <1>1 DEF CursorType
  <2> DEFINE p == IF there \/ (~c.stay /\ to \in 0 .. Len(c.rows) + 1) THEN to ELSE c.pos
             f == c.forth /\ d = 1
             s == IF grows THEN Append(c.seen, c.rows[to]) ELSE c.seen
  <2>2. n = [c EXCEPT !.live = there, !.pos = p, !.forth = f, !.seen = s]
    BY DEF Moved
  <2> HIDE DEF n, there, grows, p, f, s
  <2>3. n = [rows |-> c.rows, pos |-> p, live |-> there, stay |-> c.stay, forth |-> f, seen |-> s]
    BY <2>1, <2>2
  <2>4. /\ n.rows = c.rows /\ n.stay = c.stay /\ n.forth = f /\ n.live = there
        /\ n.pos = p /\ n.seen = s
        /\ n = [rows |-> n.rows, pos |-> n.pos, live |-> n.live, stay |-> n.stay,
                forth |-> n.forth, seen |-> n.seen]
    BY <2>3
  <2> QED
    BY <2>4 DEF p, f, s
<1>3. there \in BOOLEAN /\ n.forth \in BOOLEAN /\ to \in Int
  BY <1>1, <1>2
<1> HIDE DEF n
<1>4. /\ Sorted(c.rows) /\ c.pos \in 0 .. Len(c.rows) + 1 /\ (c.stay <=> o.op # "begin")
      /\ c.live => c.pos \in Visitable(c, o)
      /\ c.stay => c.pos \in {0} \cup Visitable(c, o)
      /\ c.forth => /\ ToSet(c.seen) = {c.rows[i] : i \in {j \in Visitable(c, o) : j <= c.pos}}
                    /\ c.live \/ \A j \in Visitable(c, o) : j <= c.pos
  BY DEF Placed
<1>5. /\ Visitable(n, o) = Visitable(c, o)
      /\ Visitable(c, o) = {i \in 1 .. Len(c.rows) : c.stay => c.rows[i][1] = o.k}
  BY <1>1, <1>2 DEF Visitable
<1>6. c.stay => c.rows[c.pos][1] = o.k
  BY <1>4, <1>5
<1>7. there <=> to \in Visitable(c, o)
  BY <1>1, <1>5, <1>6
<1>8. n.pos \in Nat /\ n.pos \in 0 .. Len(c.rows) + 1
  BY <1>1, <1>2, <1>4, <1>5, <1>7
<1>9. n.seen \in Seq(Pairs)
  <2>1. grows => c.rows[to] \in Pairs
    BY <1>0, <1>1
  <2> QED
    BY <1>1, <1>2, <2>1, AppendedSet
<1>10. n \in CursorType
  BY <1>1, <1>2, <1>3, <1>8, <1>9 DEF CursorType
<1>11. (n.live => n.pos \in Visitable(n, o)) /\ (n.stay => n.pos \in {0} \cup Visitable(n, o))
  BY <1>2, <1>4, <1>5, <1>7
<1>12. \A i, j \in 1 .. Len(c.rows) : i < j => c.rows[i][1] <= c.rows[j][1]
  <2> SUFFICES ASSUME NEW i \in 1 .. Len(c.rows), NEW j \in 1 .. Len(c.rows), i < j
               PROVE  c.rows[i][1] <= c.rows[j][1]
    OBVIOUS
  <2>1. Before(c.rows[i], c.rows[j])
    BY <1>1, <1>4 DEF Sorted
  <2>2. c.rows[i] \in Pairs /\ c.rows[j] \in Pairs
    BY <1>0, <1>1
  <2>3. c.rows[i][1] \in Nat /\ c.rows[j][1] \in Nat
    BY <2>2, APair DEF MdbAssumption
  <2> QED
    BY <2>1, <2>3 DEF Before
<1>13. ASSUME n.forth
       PROVE  /\ ToSet(n.seen) = {n.rows[i] : i \in {j \in Visitable(n, o) : j <= n.pos}}
              /\ n.live \/ \A j \in Visitable(n, o) : j <= n.pos
  <2>1. c.forth /\ d = 1 /\ to = c.pos + 1
    BY <1>2, <1>13
  <2>2. CASE there
    <3>1. n.pos = to /\ n.live /\ n.seen = Append(c.seen, c.rows[to])
      BY <1>2, <2>1, <2>2
    <3>2. {j \in Visitable(c, o) : j <= to} = {j \in Visitable(c, o) : j <= c.pos} \cup {to}
      BY <1>1, <1>5, <1>7, <2>1, <2>2
    <3>3. {c.rows[i] : i \in {j \in Visitable(c, o) : j <= to}}
             = {c.rows[i] : i \in {j \in Visitable(c, o) : j <= c.pos}} \cup {c.rows[to]}
      BY <3>2
    <3>4. ToSet(n.seen) = ToSet(c.seen) \cup {c.rows[to]}
      <4>1. c.rows[to] \in Pairs
        BY <1>1, <2>2
      <4> QED
        BY <1>1, <3>1, <4>1, AppendedSet
    <3>5. ToSet(c.seen) = {c.rows[i] : i \in {j \in Visitable(c, o) : j <= c.pos}}
      BY <1>4, <2>1
    <3>6. {n.rows[i] : i \in {j \in Visitable(n, o) : j <= n.pos}}
             = {c.rows[i] : i \in {j \in Visitable(c, o) : j <= to}}
      BY <1>2, <1>5, <3>1
    <3>7. ToSet(n.seen) = ToSet(Append(c.seen, c.rows[to])) /\ n.live
      BY <2>2, <3>1
    <3> HIDE DEF to
    <3> QED
      BY <3>3, <3>4, <3>5, <3>6, <3>7
  <2>3. CASE ~there
    <3>1. \A j \in Visitable(c, o) : j <= c.pos
      <4>1. CASE c.stay
        <5>1. c.live /\ c.pos \in 1 .. Len(c.rows) /\ c.rows[c.pos][1] = o.k
          BY <1>4, <1>5, <1>6, <4>1
        <5>2. ASSUME NEW j \in Visitable(c, o), j > c.pos PROVE FALSE
          <6>1. j \in 1 .. Len(c.rows) /\ c.rows[j][1] = o.k
            BY <1>5, <4>1
          <6>2. to \in 1 .. Len(c.rows) /\ c.pos < to /\ (to < j \/ to = j)
            <7>1. c.pos \in Int /\ j \in Int /\ Len(c.rows) \in Int
              BY <1>1, <6>1
            <7> QED
              BY <2>1, <5>1, <5>2, <6>1, <7>1
          <6>3. c.rows[to][1] # o.k
            BY <1>5, <1>7, <2>3, <4>1, <6>2
          <6>4. c.rows[c.pos][1] <= c.rows[to][1]
            BY <1>12, <5>1, <6>2
          <6>5. c.rows[to][1] <= c.rows[j][1]
            BY <1>12, <6>1, <6>2, <6>3
          <6>6. c.rows[to] \in Pairs /\ c.rows[j] \in Pairs
            BY <1>0, <1>1, <6>1, <6>2
          <6>7. c.rows[to][1] \in Nat /\ o.k \in Nat
            BY <6>1, <6>6, APair DEF MdbAssumption
          <6> QED
            BY <5>1, <6>1, <6>3, <6>4, <6>5, <6>7
        <5> QED
          BY <1>1, <1>5, <5>2
      <4>2. CASE ~c.stay
        <5>1. to \notin 1 .. Len(c.rows)
          BY <1>5, <1>7, <2>3, <4>2
        <5>2. c.pos >= Len(c.rows)
          BY <1>1, <2>1, <5>1
        <5> QED
          BY <1>1, <1>5, <5>2
      <4> QED
        BY <4>1, <4>2
    <3>2. n.pos >= c.pos
      BY <1>1, <1>2, <2>1
    <3>3. {j \in Visitable(c, o) : j <= n.pos} = {j \in Visitable(c, o) : j <= c.pos}
      BY <1>1, <1>5, <1>8, <3>1, <3>2
    <3>4. \A j \in Visitable(c, o) : j <= n.pos
      BY <1>1, <1>5, <1>8, <3>1, <3>2
    <3>5. n.seen = c.seen
      BY <1>2, <2>3
    <3> QED
      BY <1>2, <1>4, <1>5, <2>1, <3>3, <3>4, <3>5
  <2> QED
    BY <2>2, <2>3
<1>14. Sorted(n.rows) /\ (n.stay <=> o.op # "begin")
  BY <1>2, <1>4
<1>15. n.pos \in 0 .. Len(n.rows) + 1
  BY <1>2, <1>8
<1>16. Placed(n, o)
  BY <1>10, <1>11, <1>13, <1>14, <1>15 DEF Placed
<1> QED
  BY <1>2, <1>16 DEF n

\* A cursor that begins at a key.
LEMMA KeyIsPlaced ==
    ASSUME NEW rows \in Seq(Pairs), Sorted(rows), NEW o, o.op # "begin"
    PROVE  LET c == Cursor(rows, KeyRow(rows, o.k), TRUE)
           IN  Placed(c, o) /\ c.rows = rows
<1> DEFINE n == Len(rows)
           pos == KeyRow(rows, o.k)
<1>1. n \in Nat /\ DOMAIN rows = 1 .. n
  OBVIOUS
<1>2. \/ pos = 0 /\ \A i \in 1 .. n : rows[i][1] # o.k
      \/ /\ pos \in 1 .. n /\ rows[pos][1] = o.k
         /\ \A i \in 1 .. n : rows[i][1] = o.k => pos <= i
  BY <1>1, KeyRowFinds
<1> HIDE DEF pos
<1>3. /\ pos \in 0 .. Len(rows)
      /\ IF pos = 0 THEN \A i \in DOMAIN rows : rows[i][1] # o.k
         ELSE rows[pos][1] = o.k /\ \A i \in DOMAIN rows : rows[i][1] = o.k => pos <= i
  BY <1>1, <1>2
<1>4. StartsAt(rows, pos, TRUE, o)
  BY <1>3 DEF StartsAt
<1>5. Placed(Cursor(rows, pos, TRUE), o) /\ Cursor(rows, pos, TRUE).rows = rows
  BY <1>4, CursorIsPlaced
<1> QED
  BY <1>5 DEF pos

\* What a transaction sees when it begins.
LEMMA RowsSeen ==
    ASSUME MdbAssumption, NEW tab, tab \subseteq Pairs, IsFiniteSet(tab)
    PROVE  /\ Rows(tab) \in Seq(Pairs) /\ Sorted(Rows(tab)) /\ ToSet(Rows(tab)) = tab
           /\ tab # {} => Rows(tab) # << >> /\ Len(Rows(tab)) \in Nat \ {0}
<1> DEFINE n == Cardinality(tab)
           rows == Rows(tab)
<1>1. /\ rows \in [1 .. n -> tab] /\ n \in Nat /\ Sorted(rows)
      /\ \A p \in tab : \E i \in 1 .. n : rows[i] = p
  BY RowsAreTheTable DEF MdbAssumption
<1> HIDE DEF n, rows
<1>2. rows \in Seq(Pairs) /\ Len(rows) = n /\ DOMAIN rows = 1 .. n
  BY <1>1
<1>3. ToSet(rows) = tab
  BY <1>1, <1>2 DEF ToSet
<1>4. ASSUME tab # {} PROVE rows # << >> /\ n # 0
  <2>1. PICK i : i \in 1 .. n
    BY <1>1, <1>4
  <2> QED
    BY <1>1, <1>2, <2>1
<1> QED
  BY <1>1, <1>2, <1>3, <1>4 DEF rows

LEMMA OpenedIsPlaced ==
    ASSUME MdbAssumption, NEW c \in Iterations, table \subseteq Pairs, IsFiniteSet(table),
           c.op = "begin" => table # {}
    PROVE  /\ c.op \in {"begin", "values"} /\ Placed(Opened(c), c)
           /\ ToSet(Opened(c).rows) = table
<1> DEFINE rows == Rows(table)
<1>1. c.op \in {"begin", "values"}
  BY DEF Iterations
<1>2. rows \in Seq(Pairs) /\ Sorted(rows) /\ ToSet(rows) = table
  BY RowsSeen
<1>3. CASE c.op = "begin"
  <2>1. rows # << >> /\ Len(rows) \in Nat \ {0}
    BY <1>3, RowsSeen
  <2>2. Opened(c) = Cursor(rows, 1, FALSE)
    BY <1>3, <2>1 DEF Opened, FirstRow
  <2> HIDE DEF rows
  <2>3. 1 \in 0 .. Len(rows)
    BY <2>1
  <2>4. Placed(Cursor(rows, 1, FALSE), c) /\ Cursor(rows, 1, FALSE).rows = rows
    <3>1. StartsAt(rows, 1, FALSE, c)
      BY <1>2, <1>3, <2>3 DEF StartsAt
    <3> QED
      BY <3>1, CursorIsPlaced
  <2> QED
    BY <1>1, <1>2, <2>2, <2>4
<1>4. CASE c.op # "begin"
  <2>1. Opened(c) = Cursor(rows, KeyRow(rows, c.k), TRUE)
    BY <1>4 DEF Opened
  <2> HIDE DEF rows
  <2> QED
    BY <1>1, <1>2, <1>4, <2>1, KeyIsPlaced
<1> QED
  BY <1>3, <1>4

\* A step of one thread, which leaves the table alone when another one iterates.
LEMMA CursorsOfOthers ==
    ASSUME Cursors, NEW t \in Threads, DOMAIN cursor' = Threads,
           \A u \in Threads : u # t => pc'[u] = pc[u] /\ call'[u] = call[u] /\ cursor'[u] = cursor[u],
           table' # table => \A u \in Threads : u # t => pc[u] # "iterating",
           IsFiniteSet(table'), IsFiniteSet(work.table'), CursorHeld(t)'
    PROVE  Cursors'
<1>1. ASSUME NEW u \in Threads, u # t PROVE CursorHeld(u)'
  <2>1. CursorHeld(u)
    BY DEF Cursors
  <2> QED
    BY <1>1, <2>1 DEF CursorHeld
<1> QED
  BY <1>1 DEF Cursors

\* An operation keeps a table finite.
LEMMA StoredIsFinite ==
    ASSUME Dup, NEW tab, IsFiniteSet(tab), NEW o \in Operations, o.op \in {"add", "eraseKV", "erase"}
    PROVE  IsFiniteSet(Stored(tab, o))
<1>1. CASE o.op = "add"
  <2>1. Stored(tab, o) = tab \cup {<<o.k, o.v>>}
    BY <1>1 DEF Stored
  <2> QED
    BY <2>1, FS_AddElement
<1>2. CASE o.op # "add"
  <2>1. Stored(tab, o) \subseteq tab
    BY <1>2 DEF Stored
  <2> QED
    BY <2>1, FS_Subset
<1> QED
  BY <1>1, <1>2

LEMMA CursorsKept ==
    ASSUME MdbAssumption, WellUsed, IInv, Cursors, [Next]_vars
    PROVE  Cursors'
<1>1. Habits = {} /\ Dup
  BY DEF WellUsed
<1>2. /\ DOMAIN pc = Threads /\ DOMAIN call = Threads /\ DOMAIN cursor = Threads
      /\ table \subseteq Pairs /\ IsFiniteSet(table) /\ IsFiniteSet(work.table)
  BY DEF IInv, Shape, Cursors
<1>3. \A t \in Threads : CursorHeld(t)
  BY DEF Cursors
<1>4. \A t \in Threads : pc[t] \in {"writing", "committing", "iterating"} => writer = t
  BY DEF IInv, Locked
<1>5. ASSUME NEW t \in Threads, NEW p \in {"idle", "beginning", "writing", "committing"},
             pc' = [pc EXCEPT ![t] = p], call' = call \/ \E c : call' = [call EXCEPT ![t] = c],
             cursor' = cursor \/ cursor' = [cursor EXCEPT ![t] = None],
             table' = table, IsFiniteSet(work.table')
      PROVE  Cursors'
  <2>1. \A u \in Threads : u # t => pc'[u] = pc[u] /\ call'[u] = call[u] /\ cursor'[u] = cursor[u]
    BY <1>2, <1>5
  <2>2. DOMAIN cursor' = Threads /\ pc'[t] = p
    BY <1>2, <1>5
  <2>3. CursorHeld(t)'
    BY <2>2 DEF CursorHeld
  <2> QED
    BY <1>2, <1>5, <2>1, <2>2, <2>3, CursorsOfOthers
<1>6. ASSUME NEW t \in Threads, Close(t), cursor' = cursor \/ cursor' = [cursor EXCEPT ![t] = None],
             writer = t, IsFiniteSet(table')
      PROVE  Cursors'
  <2>1. \A u \in Threads : u # t => pc'[u] = pc[u] /\ call'[u] = call[u] /\ cursor'[u] = cursor[u]
    BY <1>2, <1>6 DEF Close
  <2>2. DOMAIN cursor' = Threads /\ pc'[t] = "idle" /\ work'.table = table'
    BY <1>2, <1>6 DEF Close
  <2>3. CursorHeld(t)'
    BY <2>2 DEF CursorHeld
  <2>4. \A u \in Threads : u # t => pc[u] # "iterating"
    BY <1>4, <1>6
  <2> QED
    BY <1>6, <2>1, <2>2, <2>3, <2>4, CursorsOfOthers
<1>7. ASSUME NEW t \in Threads, NEW c, cursor' = [cursor EXCEPT ![t] = c],
             NEW p \in {"reading", "iterating"}, pc' = [pc EXCEPT ![t] = p],
             NEW o, call' = [call EXCEPT ![t] = o], UNCHANGED <<table, work>>, Placed(c, o),
             p = "reading" => o.op \in {"all", "first"},
             p = "iterating" => o.op \in {"begin", "values"} /\ ToSet(c.rows) = table
      PROVE  Cursors'
  <2>1. \A u \in Threads : u # t => pc'[u] = pc[u] /\ call'[u] = call[u] /\ cursor'[u] = cursor[u]
    BY <1>2, <1>7
  <2>2. DOMAIN cursor' = Threads /\ pc'[t] = p /\ call'[t] = o /\ cursor'[t] = c
    BY <1>2, <1>7
  <2>3. CursorHeld(t)'
    BY <1>7, <2>2 DEF CursorHeld
  <2> QED
    BY <1>2, <1>7, <2>1, <2>2, <2>3, CursorsOfOthers
<1>8. ASSUME NEW t \in Threads, NEW d \in {1, -1}, cursor' = [cursor EXCEPT ![t] = Moved(cursor[t], d)],
             UNCHANGED <<pc, call, table, work>>, pc[t] \in {"reading", "iterating"},
             cursor[t].stay => cursor[t].live
      PROVE  Cursors'
  <2>1. \A u \in Threads : u # t => pc'[u] = pc[u] /\ call'[u] = call[u] /\ cursor'[u] = cursor[u]
    BY <1>2, <1>8
  <2>2. DOMAIN cursor' = Threads /\ cursor'[t] = Moved(cursor[t], d)
    BY <1>2, <1>8
  <2>3. Placed(cursor[t], call[t])
    BY <1>3, <1>8 DEF CursorHeld
  <2>4. Placed(cursor'[t], call[t]) /\ cursor'[t].rows = cursor[t].rows
    BY <1>8, <2>2, <2>3, MovedIsPlaced
  <2>5. CursorHeld(t)'
    BY <1>3, <1>8, <2>4 DEF CursorHeld
  <2> QED
    BY <1>2, <1>8, <2>1, <2>2, <2>5, CursorsOfOthers
<1>9. ASSUME NEW t \in Threads, CallBegin(t) PROVE Cursors'
  BY <1>2, <1>5, <1>9 DEF CallBegin
<1>10. ASSUME NEW t \in Threads, BeginFails(t) PROVE Cursors'
  <2>1. writer # t
    BY <1>10 DEF BeginFails, IInv, Locked
  <2> QED
    BY <1>2, <1>5, <1>10, <2>1 DEF BeginFails
<1>11. ASSUME NEW t \in Threads, NEW c \in Operations \cup {[op |-> "txn"]}, BeginTransaction(t, c)
      PROVE  Cursors'
  BY <1>2, <1>5, <1>11 DEF BeginTransaction
<1>12. ASSUME NEW t \in Threads, NEW o \in Operations, Operate(t, o), pc[t] = "writing",
              UNCHANGED cursor
      PROVE  Cursors'
  <2>1. CASE Unwind(t, o)
    BY <1>2, <1>4, <1>6, <1>12, <2>1 DEF Unwind, Abort
  <2>2. CASE ~Unwind(t, o)
    <3>1. /\ work' = Done(o, work)
          /\ pc' = [pc EXCEPT ![t] = IF call[t].op = "txn" THEN "writing" ELSE "committing"]
          /\ UNCHANGED <<table, call>>
      BY <1>1, <1>12, <2>2 DEF Operate
    <3>2. work'.table = Stored(work.table, o)
      BY <3>1 DEF Done
    <3>3. o.op \in {"add", "eraseKV", "erase"}
      BY OperationPairs
    <3>4. IsFiniteSet(Stored(work.table, o))
      BY <1>1, <1>2, <3>3, StoredIsFinite
    <3> QED
      BY <1>5, <1>12, <3>1, <3>2, <3>4
  <2> QED
    BY <2>1, <2>2
<1>13. ASSUME NEW t \in Threads, Write(t) PROVE Cursors'
  BY <1>12, <1>13 DEF Write
<1>14. ASSUME NEW t \in Threads, NEW o \in Operations, WriteIn(t, o) PROVE Cursors'
  BY <1>12, <1>14 DEF WriteIn
<1>15. ASSUME NEW t \in Threads, Commit(t) PROVE Cursors'
  <2>1. writer = t
    BY <1>4, <1>15 DEF Commit
  <2>2. Close(t) /\ table' \in {table, work.table} /\ cursor' = cursor
    BY <1>15 DEF Commit, Abort
  <2> QED
    BY <1>2, <1>6, <2>1, <2>2
<1>16. ASSUME NEW t \in Threads, NEW c \in Iterations, OpenIterator(t, c) PROVE Cursors'
  <2>1. CASE c.op = "begin" /\ table = {}
    BY <1>2, <1>5, <1>16, <2>1 DEF OpenIterator
  <2>2. CASE ~(c.op = "begin" /\ table = {})
    <3>1. /\ pc' = [pc EXCEPT ![t] = "iterating"] /\ call' = [call EXCEPT ![t] = c]
          /\ cursor' = [cursor EXCEPT ![t] = Opened(c)] /\ UNCHANGED <<table, work>>
      BY <1>16, <2>2 DEF OpenIterator
    <3>2. c.op \in {"begin", "values"} /\ Placed(Opened(c), c) /\ ToSet(Opened(c).rows) = table
      BY <1>2, <2>2, OpenedIsPlaced
    <3> QED
      BY <1>7, <3>1, <3>2
  <2> QED
    BY <2>1, <2>2
<1>17. ASSUME NEW t \in Threads, CloseIterator(t) PROVE Cursors'
  <2>1. writer = t
    BY <1>4, <1>17 DEF CloseIterator
  <2> QED
    BY <1>2, <1>6, <1>17, <2>1 DEF CloseIterator, Abort
<1>18. ASSUME NEW t \in Threads, NEW d \in {1, -1}, Move(t, d) PROVE Cursors'
  BY <1>8, <1>18 DEF Move
<1>19. ASSUME NEW t \in Threads, NEW c \in Reads, CallRead(t, c) PROVE Cursors'
  <2> DEFINE r == Cursor(Rows(table), KeyRow(Rows(table), c.k), TRUE)
  <2>1. /\ pc' = [pc EXCEPT ![t] = "reading"] /\ call' = [call EXCEPT ![t] = c]
        /\ cursor' = [cursor EXCEPT ![t] = r] /\ UNCHANGED <<table, work>>
    BY <1>19 DEF CallRead
  <2>2. c.op \in {"all", "first"}
    BY DEF Reads
  <2>3. Rows(table) \in Seq(Pairs) /\ Sorted(Rows(table))
    BY <1>2, RowsSeen
  <2>4. Placed(r, c)
    BY <2>2, <2>3, KeyIsPlaced
  <2> HIDE DEF r
  <2> QED
    BY <1>7, <2>1, <2>2, <2>4
<1>20. ASSUME NEW t \in Threads, Visit(t) PROVE Cursors'
  BY <1>8, <1>20 DEF Visit
<1>21. ASSUME NEW t \in Threads, EndRead(t) PROVE Cursors'
  BY <1>2, <1>5, <1>21 DEF EndRead
<1>22. ASSUME NEW ix \in Indexes, SetTrigger(ix) PROVE Cursors'
  BY <1>22 DEF SetTrigger, Cursors, CursorHeld
<1>23. ASSUME Restart PROVE Cursors'
  <2>1. DOMAIN cursor' = Threads /\ table' = table /\ work'.table = table
        /\ \A t \in Threads : pc'[t] = "idle"
    BY <1>23 DEF Restart
  <2>2. \A t \in Threads : CursorHeld(t)'
    BY <2>1 DEF CursorHeld
  <2> QED
    BY <1>2, <2>1, <2>2 DEF Cursors
<1>24. ASSUME UNCHANGED vars PROVE Cursors'
  BY <1>24 DEF vars, Cursors, CursorHeld
<1> QED
  BY <1>9, <1>10, <1>11, <1>13, <1>14, <1>15, <1>16, <1>17, <1>18, <1>19, <1>20, <1>21, <1>22,
     <1>23, <1>24
  DEF Next

\* A cursor that came to its end only going forth saw all it may visit.
LEMMA CompleteSaw ==
    ASSUME NEW c, NEW o, Placed(c, o), Complete(c)
    PROVE  ToSet(c.seen) = {p \in ToSet(c.rows) : c.stay => p[1] = o.k}
<1> DEFINE V == Visitable(c, o)
<1>1. /\ ToSet(c.seen) = {c.rows[i] : i \in {j \in V : j <= c.pos}}
      /\ \A j \in V : j <= c.pos
  BY DEF Placed, Complete
<1>2. V = {i \in DOMAIN c.rows : c.stay => c.rows[i][1] = o.k}
  BY DEF Visitable
<1> HIDE DEF V
<1>3. ToSet(c.seen) = {c.rows[i] : i \in V}
  BY <1>1
<1> QED
  BY <1>2, <1>3 DEF ToSet

\* What a loop over the values of a key, or over an Iterator, saw when it came to
\* its end is what was in the database when it was begun, and an Iterator points
\* into what is there now, whoever else writes or wants to, whatever throws
\* (mdb.hpp:115-136, 154-157, 163-176, 305-312).
THEOREM LoopsSeeAll ==
    ASSUME MdbAssumption, WellUsed
    PROVE  Spec => []LoopsAreExact
<1>1. Init => Cursors
  <2> SUFFICES ASSUME Init PROVE Cursors
    OBVIOUS
  <2>1. table = {} /\ work.table = {} /\ DOMAIN cursor = Threads /\ \A t \in Threads : pc[t] = "idle"
    BY DEF Init
  <2>2. IsFiniteSet(table) /\ IsFiniteSet(work.table)
    BY <2>1, FS_EmptySet
  <2> QED
    BY <2>1, <2>2 DEF Cursors, CursorHeld
<1>2. IInv /\ Cursors /\ [Next]_vars => Cursors'
  BY CursorsKept
<1>3. Cursors => LoopsAreExact
  <2> SUFFICES ASSUME Cursors, NEW t \in Threads
               PROVE  /\ pc[t] = "reading" /\ call[t].op = "all" /\ Complete(cursor[t]) =>
                             ToSet(cursor[t].seen) = Wanted(ToSet(cursor[t].rows), call[t])
                      /\ pc[t] = "iterating" =>
                             /\ cursor[t].live => cursor[t].rows[cursor[t].pos] \in table
                             /\ Complete(cursor[t]) =>
                                   ToSet(cursor[t].seen) = Wanted(table, call[t])
    BY DEF LoopsAreExact
  <2>1. CursorHeld(t)
    BY DEF Cursors
  <2> DEFINE c == cursor[t]
             o == call[t]
  <2>2. ASSUME Placed(c, o), Complete(c), o.op \in {"all", "values", "begin"}
        PROVE  ToSet(c.seen) = Wanted(ToSet(c.rows), o)
    <3>1. ToSet(c.seen) = {p \in ToSet(c.rows) : c.stay => p[1] = o.k}
      BY <2>2, CompleteSaw
    <3>2. c.stay <=> o.op # "begin"
      BY <2>2 DEF Placed
    <3> HIDE DEF c, o
    <3> QED
      BY <2>2, <3>1, <3>2 DEF Wanted, PairsOf
  <2>3. ASSUME pc[t] = "iterating", c.live
        PROVE  c.rows[c.pos] \in table
    <3>1. Placed(c, o) /\ ToSet(c.rows) = table
      BY <2>1, <2>3 DEF CursorHeld
    <3>2. c.pos \in DOMAIN c.rows
      BY <2>3, <3>1 DEF Placed, Visitable
    <3> QED
      BY <3>1, <3>2 DEF ToSet
  <2> QED
    BY <2>1, <2>2, <2>3 DEF CursorHeld
<1> QED
  BY <1>1, <1>2, <1>3, Invariance, PTL DEF Spec
=============================================================================
