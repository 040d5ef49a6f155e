-------------------------------- MODULE Ldb --------------------------------
(* Ldb (ldb.hpp): batches of writes, and the iterators over all keys, over a *)
(* range of keys and over the keys with a prefix.  LevelDB is external: a    *)
(* sorted map, of which an iterator sees what it was when the iterator was   *)
(* made (ldb.hpp:128-130).  Values are left out.  A key is a sequence of     *)
(* characters 0 .. ByteMod - 1 in the order of memcmp; as a char, which is   *)
(* signed on the platforms the code is built for, the upper half is negative.*)
EXTENDS Integers, SequencesExt

CONSTANTS
    ByteMod,    \* how many characters there are, 256 in the code
    Keys, Starts,   \* the keys, and the prefixes asked for
    Ranges,     \* the <<from, till>> of range(), from not after till
    QuietOpen,  \* nobody writes between the two iterators that range() makes
    MaxBatch,   \* bound: the operations of a batch
    None

CharMax == ByteMod \div 2 - 1
Strings == Seq(0 .. ByteMod - 1)

\* memcmp, and the shorter one first.
Less(a, b) ==
    \E i \in 1 .. Len(b) :
        /\ i <= Len(a) + 1 /\ \A j \in 1 .. i - 1 : a[j] = b[j]
        /\ i <= Len(a) => a[i] < b[i]

ASSUME LdbAssumption ==
    /\ ByteMod \in Nat /\ ByteMod % 2 = 0 /\ ByteMod > 2
    /\ Keys \cup Starts \subseteq Strings /\ None \notin Strings
    /\ Ranges \subseteq Strings \X Strings /\ \A r \in Ranges : ~Less(r[2], r[1])
    /\ QuietOpen \in BOOLEAN /\ MaxBatch \in Nat

VARIABLES
    db,         \* the keys in the database
    pc,         \* the user's loop: idle, walking, opening, ranging, or ub
    it,         \* the iterator that is moved: its LevelDB iterator sees snap and is
                \* at a key or None; _valid and _starts, empty for a plain Iterator;
                \* walk is a ghost, see WalksPrefix
    till,       \* the other one of a range
    bounds,     \* ghost: the <<from, till>> of the range
    seen        \* ghost: the keys that the loop over the range dereferenced

vars == <<db, pc, it, till, bounds, seen>>
-----------------------------------------------------------------------------
(* Keys and LevelDB's iterators.                                             *)

StartsWith(k, p) == IsPrefix(p, k)

Least(S) == IF S = {} THEN None ELSE CHOOSE k \in S : \A l \in S : ~Less(l, k)
Greatest(S) == IF S = {} THEN None ELSE CHOOSE k \in S : \A l \in S : ~Less(k, l)

Seek(snap, key) == Least({k \in snap : ~Less(k, key)})
NextKey(snap, at) == Least({k \in snap : Less(at, k)})
PrevKey(snap, at) == Greatest({k \in snap : Less(k, at)})
-----------------------------------------------------------------------------
(* The operations of an iterator.                                            *)

Entry(starts) == [snap |-> db, at |-> None, valid |-> FALSE, starts |-> starts, walk |-> 0]

\* checkValidity(); of a plain Iterator, whether LevelDB's is valid.
At(e, k) == [e EXCEPT !.at = k, !.valid = k # None /\ StartsWith(k, e.starts)]

Increment(e) == At(e, IF e.valid THEN NextKey(e.snap, e.at) ELSE Seek(e.snap, e.starts))

\* The last character that is not CHAR_MAX is incremented, as a char.
Bumpable(p) == p = << >> \/ \E i \in DOMAIN p : p[i] # CharMax
BumpPos(p) == CHOOSE i \in DOMAIN p : p[i] # CharMax /\ \A j \in i + 1 .. Len(p) : p[j] = CharMax
Bump(p) == [p EXCEPT ![BumpPos(p)] = (p[BumpPos(p)] + 1) % ByteMod]

\* seekLast(): from the bumped prefix, or the last key, back to a key that has
\* the prefix or is too far.  Mutation: it stays there.
SeekLast_Forward(e) ==
    LET after == IF e.starts = << >> THEN None ELSE Seek(e.snap, Bump(e.starts))
    IN  IF after = None THEN Greatest(e.snap) ELSE after
SeekLast(e) ==
    LET after == IF e.starts = << >> THEN None ELSE Seek(e.snap, Bump(e.starts))
        first == IF after = None THEN Greatest(e.snap) ELSE after
    IN  Greatest({k \in e.snap : /\ k = first \/ Less(k, first)
                                 /\ StartsWith(k, e.starts) \/ Less(k, e.starts)})

Decrement(e) == At(e, IF e.valid THEN PrevKey(e.snap, e.at) ELSE SeekLast(e))

\* equal(): both at the end, or at the same key.  Mutation: never at the end.
Equal_AtKeys(a, b) == a.valid /\ b.valid /\ a.at = b.at
Equal(a, b) == IF a.valid /\ b.valid THEN a.at = b.at ELSE a.valid = b.valid
-----------------------------------------------------------------------------
Init ==
    /\ db \in {keys \in SUBSET Keys : IsFiniteSet(keys)} /\ pc = "idle"
    /\ it = None /\ till = None /\ bounds = None /\ seen = {}

Operations == [op : {"Put", "Delete"}, k : Keys]

\* The keys after a batch: of its operations on a key the last one counts.
Written(batch) ==
    LET Latest(k) == {i \in DOMAIN batch : /\ batch[i].k = k
                                         /\ \A j \in DOMAIN batch : batch[j].k = k => j <= i}
    IN  {k \in db \cup {batch[i].k : i \in DOMAIN batch} :
            \A i \in Latest(k) : batch[i].op = "Put"}

\* put and del, with what triggers add to their batch, and write: the batch is
\* written as a whole, or an exception is thrown, which changes nothing.
Write(batch) ==
    /\ QuietOpen => pc # "opening"
    /\ db' = Written(batch)
    /\ UNCHANGED <<pc, it, till, bounds, seen>>

\* startsWith(p): its begin() is walked in any direction.
OpenPrefix(p) ==
    /\ pc = "idle" /\ pc' = "walking"
    /\ LET e == Entry(p)
           opened == At(e, Seek(e.snap, p))
       IN  it' = [opened EXCEPT !.walk = IF opened.valid THEN 1 ELSE 0]
    /\ UNCHANGED <<db, till, bounds, seen>>

\* The keys that an iterator goes through, and as many steps as bring it back.
Matching(e) == {k \in e.snap : StartsWith(k, e.starts)}
Walked(e, d) == (e.walk + d) % (Cardinality(Matching(e)) + 1)

Walk(d) ==
    /\ pc = "walking" /\ (d = 1 \/ it.valid \/ Bumpable(it.starts))
    /\ it' = [IF d = 1 THEN Increment(it) ELSE Decrement(it) EXCEPT !.walk = Walked(it, d)]
    /\ UNCHANGED <<db, pc, till, bounds, seen>>

\* --end of a prefix of nothing but CHAR_MAX: pos, being unsigned, never gets
\* below zero, and after[] is accessed out of its bounds.
WalkOut ==
    /\ pc = "walking" /\ ~it.valid /\ ~Bumpable(it.starts)
    /\ pc' = "ub"
    /\ UNCHANGED <<db, it, till, bounds, seen>>

\* range(r[1], r[2]): two iterators, each with a snapshot of its own.
OpenFrom(r) ==
    /\ pc = "idle" /\ pc' = "opening"
    /\ it' = At(Entry(<< >>), Seek(db, r[1])) /\ bounds' = r
    /\ UNCHANGED <<db, till, seen>>

\* Mutation: the bytes of from are not cleared.
OpenTill_Appends ==
    /\ pc = "opening" /\ pc' = "ranging"
    /\ till' = At(Entry(<< >>), Seek(db, bounds[1] \o bounds[2]))
    /\ UNCHANGED <<db, it, bounds, seen>>
OpenTill ==
    /\ pc = "opening" /\ pc' = "ranging"
    /\ till' = At(Entry(<< >>), Seek(db, bounds[2]))
    /\ UNCHANGED <<db, it, bounds, seen>>

\* begin() and end(): the latter is made first or last, and never moved.
OpenAll ==
    /\ pc = "idle" /\ pc' = "ranging"
    /\ it' = At(Entry(<< >>), Seek(db, << >>)) /\ till' = Entry(<< >>)
    /\ bounds' = <<<< >>, None>>
    /\ UNCHANGED <<db, seen>>

\* The body of a loop over the range and ++.
Loop ==
    /\ pc = "ranging" /\ ~Equal(it, till)
    /\ seen' = seen \cup {it.at} /\ it' = Increment(it)
    /\ UNCHANGED <<db, pc, till, bounds>>

\* The iterators are gone: of a walk at any time, of a loop at its end.
Close ==
    /\ pc = "walking" \/ (pc = "ranging" /\ Equal(it, till))
    /\ pc' = "idle" /\ it' = None /\ till' = None /\ bounds' = None /\ seen' = {}
    /\ UNCHANGED db

Next ==
    \/ \E n \in 1 .. MaxBatch : \E batch \in [1 .. n -> Operations] : Write(batch)
    \/ \E p \in Starts : OpenPrefix(p)
    \/ \E d \in {1, -1} : Walk(d)
    \/ WalkOut
    \/ \E r \in Ranges : OpenFrom(r)
    \/ OpenTill \/ OpenAll \/ Loop \/ Close

Spec == Init /\ [][Next]_vars

\* The thread in range() or in a loop goes on.
FairSpec == Spec /\ WF_vars(OpenTill) /\ WF_vars(Loop) /\ WF_vars(Close)
-----------------------------------------------------------------------------
(* Properties.                                                               *)

\* Types: an iterator is nowhere or at a key of what it sees.
IsIterator(e) ==
    /\ e \in [snap : SUBSET Strings, at : Strings \cup {None}, valid : BOOLEAN, starts : Strings,
              walk : Nat]
    /\ IsFiniteSet(e.snap) /\ (e.at # None => e.at \in e.snap)
    /\ e.valid <=> e.at # None /\ StartsWith(e.at, e.starts)
Shape ==
    /\ db \subseteq Keys /\ IsFiniteSet(db)
    /\ pc \in {"idle", "walking", "opening", "ranging", "ub"}
    /\ pc # "idle" => IsIterator(it)
    /\ pc = "walking" => it.starts \in Starts
    /\ pc = "opening" => bounds \in Ranges
    /\ pc \in {"opening", "ranging"} => it.starts = << >>

\* ++ and -- of a StartsWithIterator go through the keys with the prefix, in
\* order, and through the end; from there ++ goes to the first and -- to the last
\* of them (test_ldb.cc:119-134, ldb.hpp:223-248).  walk counts the steps, 0 is
\* the end.
WalksPrefix ==
    pc = "walking" =>
        LET before == {k \in Matching(it) : Less(k, it.at)}
        IN  IF it.valid THEN it.at \in Matching(it) /\ it.walk = Cardinality(before) + 1
                        ELSE it.walk = 0

\* A loop over range(from, till) or over the whole database dereferences the keys
\* from `from` until before `till` that there were when it began, all of them in
\* the end, whatever is written meanwhile, its own deletions included
\* (ldb.hpp:188-200, test_ldb.cc:158).
InRange(k) ==
    ~Less(k, bounds[1]) /\ (bounds[2] # None => Less(k, bounds[2]))
RangeExact ==
    pc = "ranging" =>
        /\ seen \subseteq {k \in it.snap : InRange(k)}
        /\ Equal(it, till) => seen = {k \in it.snap : InRange(k)}

\* The one iterator of a range goes from its begin to where the other one is, and
\* what is between is what the loop has still to see.
Ranged ==
    /\ pc # "ranging" => seen = {}
    /\ pc = "opening" => it.snap = db /\ it.at = Seek(it.snap, bounds[1])
    /\ pc = "ranging" =>
          /\ bounds[1] \in Strings /\ bounds[2] \in Strings \cup {None}
          /\ seen = {k \in it.snap : InRange(k) /\ (it.valid => Less(k, it.at))}
          /\ it.valid => ~Less(it.at, bounds[1])
          /\ till.valid = (bounds[2] # None /\ Seek(it.snap, bounds[2]) # None)
          /\ till.valid => /\ till.at = Seek(it.snap, bounds[2])
                           /\ it.valid /\ ~Less(till.at, it.at)

\* A loop over a range comes to its end (ldb.hpp:152-159, 165-170).
RangeEnds == pc \in {"opening", "ranging"} ~> pc = "idle"
=============================================================================
