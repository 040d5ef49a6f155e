------------------------- MODULE SerializablePool -------------------------
(* SerializablePoolTpl with SharedPtr (SerializablePool.hpp): an array of    *)
(* fields read directly from its bytes, with the changes kept on the side.   *)
(* A pool is a handle on an Impl that its copies share.  Users load pools    *)
(* from a database, change them and save them with toBytesDelta, each save   *)
(* in one transaction of the database.                                       *)
(* Bytes are a sequence of cells, one per byte: a character (0 is '\0'), or  *)
(* for a uint32_t, which takes four, its number and three Pads.              *)
EXTENDS Integers, SequencesExt

CONSTANTS
    Handles,    \* the users' pools
    Impls,      \* one more than the handles: an assignment makes the new Impl
                \* before it frees the old one
    Values, MaxFields, Null, Pad

ASSUME PoolAssumption ==
    /\ Null \notin Impls /\ Null \notin Values
    /\ \A v \in Values : v \in Seq(Int)
    /\ MaxFields \in Nat \ {0} /\ Pad \in Int \ Nat

VARIABLES
    ref,        \* the Impl of every handle, Null when it has none
    impl,       \* [pool : _pool, changes : _changes and _changed, Null for a
                \* field that is not changed, readOnly : _readOnly]
    db,         \* the bytes in the database
    lastSet,    \* ghost: per field, the value the last save that changed it set
    index       \* an index of the database's fields, kept by the ChangeVisitor

vars == <<ref, impl, db, lastSet, index>>

Fields == 0 .. MaxFields - 1
Fresh(bytes) == [pool |-> bytes, changes |-> <<>>, readOnly |-> FALSE]

-----------------------------------------------------------------------------
(* The format *)

Word(x) == <<x, Pad, Pad, Pad>>
\* The cell at an offset counted from 0.
At(bytes, offset) == bytes[offset + 1]

\* original(): the field num in the bytes, empty if there is none.
Original(bytes, num) ==
    LET at == 4 + num * 4
        next == IF At(bytes, 0) - (at + 4) < 4 THEN Len(bytes) ELSE At(bytes, at + 4)
    IN  IF Len(bytes) < 4 \/ At(bytes, 0) - at < 4 THEN <<>>
        ELSE SubSeq(bytes, At(bytes, at) + 1, next - 1)

PoolSize(bytes) == IF Len(bytes) < 4 THEN 0 ELSE (At(bytes, 0) - 4) \div 4

IsChanged(i, num) == num < Len(i.changes) /\ At(i.changes, num) # Null

\* Mutation: the offsets do not count the terminators.
ToBytes_Offsets(i, size, old) ==
    LET value(num) == IF IsChanged(i, num) THEN At(i.changes, num) ELSE Original(old, num)
        body == [k \in 1 .. size |-> value(k - 1)]
        start(k) == 4 + size * 4 + Len(FlattenSeq(SubSeq(body, 1, k - 1)))
    IN  Word(4 + size * 4) \o FlattenSeq([k \in 1 .. size |-> Word(start(k))])
            \o FlattenSeq([k \in 1 .. size |-> Append(body[k], 0)])

\* The protected toBytes: a header with the start and the offsets, and the
\* changed fields with the other ones from old.
ToBytes(i, size, old) ==
    LET value(num) == IF IsChanged(i, num) THEN At(i.changes, num) ELSE Original(old, num)
        body == [k \in 1 .. size |-> Append(value(k - 1), 0)]
        start(k) == 4 + size * 4 + Len(FlattenSeq(SubSeq(body, 1, k - 1)))
    IN  IF i.changes = <<>> THEN <<>>
        ELSE Word(4 + size * 4) \o FlattenSeq([k \in 1 .. size |-> Word(start(k))])
                \o FlattenSeq(body)

\* current(): the field as it was changed, or else the original one.
Current(i, num) == IF IsChanged(i, num) THEN At(i.changes, num) ELSE Original(i.pool, num)

\* Mutation: the changes are compared with the user's own pool.
Visited_Own(i, old) ==
    {num \in Fields : IsChanged(i, num) /\ Original(i.pool, num) # At(i.changes, num)}

\* The fields a visitor is called for when the changes replace those of old.
Visited(i, old) ==
    {num \in Fields : IsChanged(i, num) /\ Original(old, num) # At(i.changes, num)}

\* The public toBytes is as long as its last change.
ToBytesWhole(i) == ToBytes(i, Len(i.changes), i.pool)
\* Mutation: the fields beyond the last change are dropped here too.
ToBytesDelta_Short(i, old) == ToBytes(i, Len(i.changes), old)
\* toBytesDelta, when it found a change.
ToBytesDelta(i, old) ==
    ToBytes(i, IF Len(i.changes) > PoolSize(old) THEN Len(i.changes) ELSE PoolSize(old), old)

-----------------------------------------------------------------------------
(* The pools *)

Init ==
    /\ ref = [h \in Handles |-> Null]
    /\ impl = [i \in Impls |-> Fresh(<<>>)]
    /\ db = <<>> /\ lastSet = [f \in Fields |-> <<>>] /\ index = [f \in Fields |-> <<>>]

\* What shared_ptr frees when ref becomes r.
Free(r, m) == [i \in Impls |-> IF \E h \in Handles : r[h] = i THEN m[i] ELSE Fresh(<<>>)]

\* A handle is assigned a pool with its own Impl for the bytes.
Assign(h, bytes) ==
    \E i \in Impls :
        /\ \A g \in Handles : ref[g] # i
        /\ ref' = [ref EXCEPT ![h] = i]
        /\ impl' = Free(ref', [impl EXCEPT ![i] = Fresh(bytes)])

\* The default constructor.
Default(h) ==
    /\ ref' = [ref EXCEPT ![h] = Null] /\ impl' = Free(ref', impl)
    /\ UNCHANGED <<db, lastSet, index>>

\* A pool loaded from the database.
Load(h) == Assign(h, db) /\ UNCHANGED <<db, lastSet, index>>

\* A pool made of the bytes of another one.
Transfer(g, h) ==
    /\ ref[g] # Null /\ Assign(h, ToBytesWhole(impl[ref[g]]))
    /\ UNCHANGED <<db, lastSet, index>>

\* A copy shares the Impl, when there is one.
Copy(g, h) ==
    /\ ref' = [ref EXCEPT ![h] = ref[g]] /\ impl' = Free(ref', impl)
    /\ UNCHANGED <<db, lastSet, index>>

\* The changes after set(), which resizes the vectors.
Changed(changes, num, v) ==
    [k \in 1 .. (IF num < Len(changes) THEN Len(changes) ELSE num + 1) |->
        IF k = num + 1 THEN v ELSE IF k <= Len(changes) THEN changes[k] ELSE Null]

\* set() makes an Impl if there is none and throws if it is read-only.
Set(h, num, v) ==
    LET set(i) == [i EXCEPT !.changes = Changed(i.changes, num, v)]
    IN  /\ \/ /\ ref[h] # Null /\ ~impl[ref[h]].readOnly
              /\ impl' = [impl EXCEPT ![ref[h]] = set(@)] /\ UNCHANGED ref
           \/ /\ ref[h] = Null
              /\ \E i \in Impls :
                    /\ \A g \in Handles : ref[g] # i
                    /\ ref' = [ref EXCEPT ![h] = i]
                    /\ impl' = [impl EXCEPT ![i] = set(Fresh(<<>>))]
        /\ UNCHANGED <<db, lastSet, index>>

\* readOnly(ro), whatever ro is.
ReadOnly(h, ro) ==
    /\ ref[h] # Null
    /\ impl' = [impl EXCEPT ![ref[h]].readOnly = TRUE]
    /\ UNCHANGED <<ref, db, lastSet, index>>

\* toBytesDelta against what the database has now, which is replaced if there
\* are changes.
Save(h) ==
    LET i == impl[ref[h]]
        visited == Visited(i, db)
    IN  /\ ref[h] # Null
        /\ db' = IF visited = {} THEN db ELSE ToBytesDelta(i, db)
        /\ index' = [f \in Fields |-> IF f \in visited THEN At(i.changes, f) ELSE index[f]]
        /\ lastSet' = [f \in Fields |-> IF IsChanged(i, f) THEN At(i.changes, f) ELSE lastSet[f]]
        /\ UNCHANGED <<ref, impl>>

Next ==
    \E h \in Handles :
        \/ Default(h) \/ Load(h) \/ Save(h)
        \/ \E g \in Handles : Transfer(g, h) \/ Copy(g, h)
        \/ \E f \in Fields, v \in Values : Set(h, f, v)
        \/ \E ro \in BOOLEAN : ReadOnly(h, ro)

Spec == Init /\ [][Next]_vars

-----------------------------------------------------------------------------
(* Properties *)

\* Every variable keeps its type (the members of SerializablePool.hpp:20-23),
\* and an Impl that no handle has is freed.
TypeOK ==
    /\ ref \in [Handles -> Impls \cup {Null}]
    /\ \A i \in Impls :
        /\ impl[i].pool \in Seq(Int) /\ impl[i].readOnly \in BOOLEAN
        /\ impl[i].changes \in Seq(Values \cup {Null})
        /\ impl[i] # Fresh(<<>>) => \E h \in Handles : ref[h] = i
    /\ db \in Seq(Int)
    /\ lastSet \in [Fields -> Values \cup {<<>>}]
    /\ index \in [Fields -> Values \cup {<<>>}]

\* Types, and the "Pool format" (SerializablePool.hpp:12-17): every field begins where its
\* offset says, in order and right after the header, and ends with a zero, the
\* last one with the pool.
Format(bytes) ==
    LET size == PoolSize(bytes)
        start(k) == IF k = size THEN Len(bytes) ELSE At(bytes, 4 + k * 4)
    IN  /\ At(bytes, 0) = 4 + size * 4
        /\ size > 0 => start(0) = At(bytes, 0)
        /\ \A k \in 0 .. size - 1 : start(k) < start(k + 1) /\ At(bytes, start(k + 1) - 1) = 0
WellFormed ==
    /\ TypeOK
    /\ \A bytes \in {db} \cup {impl[i].pool : i \in Impls} : bytes = <<>> \/ Format(bytes)

\* "database contains both changes" (SerializablePool.hpp:160): every field is
\* what the last user who changed it saved, whatever pools the others loaded
\* before and saved after.
LastSaved == \A f \in Fields : Original(db, f) = lastSet[f]

\* "Field, old value, new value. Might be used to maintain indexes."
\* (SerializablePool.hpp:99): an index kept by the visitor is that of the
\* database, although the users compare with pools of their own.
IndexCurrent == \A f \in Fields : Original(db, f) = index[f]

\* "Useful for freezing the pool" (SerializablePool.hpp:193): an Impl that is
\* read-only stays as it is for every handle that keeps it.
Frozen ==
    [][\A h \in Handles :
        ref[h] # Null /\ ref'[h] = ref[h] /\ impl[ref[h]].readOnly =>
            impl'[ref[h]] = impl[ref[h]]]_vars

\* "Serialize the pool" (SerializablePool.hpp:140): the fields of the bytes are
\* those of the pool.
WholeKeepsFields ==
    \A i \in Impls, f \in Fields : Original(ToBytesWhole(impl[i]), f) = Current(impl[i], f)
======================================================================================================================================================
