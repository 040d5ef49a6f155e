----------------------------- MODULE LdbProofs -----------------------------
(* Proofs about Ldb for any characters, keys, prefixes, ranges and batches:  *)
(* where its iterators are.                                                  *)
EXTENDS Ldb, FiniteSetTheorems, TLAPS
-----------------------------------------------------------------------------
(* The order of keys.                                                        *)

\* A set of numbers has a least one.
LEMMA LeastOfNat ==
    ASSUME NEW T, T \subseteq Nat, T # {}
    PROVE  \E x \in T : \A y \in T : x <= y
<1> DEFINE R == OpToRel(<, Nat)
<1>1. IsWellFoundedOn(R, Nat)
  BY NatLessThanWellFounded
<1>2. \A a, b \in Nat : <<a, b>> \in R <=> a < b
  BY DEF OpToRel
<1> HIDE DEF R
<1>3. PICK x \in T : \A y \in T : ~ (<<y, x>> \in R)
  BY <1>1, WFMin
<1>4. ASSUME NEW y \in T PROVE x <= y
  <2>1. x \in Nat /\ y \in Nat /\ ~ (y < x)
    BY <1>2, <1>3
  <2> QED
    BY <2>1
<1> QED
  BY <1>4

\* Induction, for the numbers of a set.
LEMMA InductionInSet ==
    ASSUME NEW T, 0 \in T, \A n \in Nat : n \in T => n + 1 \in T
    PROVE  Nat \subseteq T
<1> SUFFICES ASSUME NEW n \in Nat, n \notin T PROVE FALSE
  OBVIOUS
<1>1. PICK x \in Nat \ T : \A y \in Nat \ T : x <= y
  BY LeastOfNat
<1>2. x # 0 /\ x - 1 \in Nat
  BY <1>1
<1>3. x - 1 \in T
  BY <1>1, <1>2
<1> QED
  BY <1>2, <1>3

LEMMA StringIs ==
    ASSUME NEW a \in Strings
    PROVE  /\ Len(a) \in Nat /\ DOMAIN a = 1 .. Len(a) /\ \A i \in 1 .. Len(a) : a[i] \in Nat
           /\ a # None
<1> DEFINE B == 0 .. ByteMod - 1
<1>1. B \subseteq Nat /\ None \notin Strings
  BY LdbAssumption
<1>2. a \in Seq(B)
  BY DEF Strings
<1> HIDE DEF B
<1>3. Len(a) \in Nat /\ DOMAIN a = 1 .. Len(a) /\ \A i \in 1 .. Len(a) : a[i] \in B
  BY <1>2
<1> QED
  BY <1>1, <1>3

LEMMA Irreflexive ==
    ASSUME NEW a \in Strings
    PROVE  ~Less(a, a)
BY StringIs DEF Less

LEMMA Transitive ==
    ASSUME NEW a \in Strings, NEW b \in Strings, NEW c \in Strings, Less(a, b), Less(b, c)
    PROVE  Less(a, c)
<1>1. PICK i \in 1 .. Len(b) : /\ i <= Len(a) + 1 /\ \A l \in 1 .. i - 1 : a[l] = b[l]
                               /\ i <= Len(a) => a[i] < b[i]
  BY DEF Less
<1>2. PICK j \in 1 .. Len(c) : /\ j <= Len(b) + 1 /\ \A l \in 1 .. j - 1 : b[l] = c[l]
                               /\ j <= Len(b) => b[j] < c[j]
  BY DEF Less
<1>3. /\ Len(a) \in Nat /\ Len(b) \in Nat /\ Len(c) \in Nat
      /\ \A l \in 1 .. Len(a) : a[l] \in Int
      /\ \A l \in 1 .. Len(b) : b[l] \in Int
      /\ \A l \in 1 .. Len(c) : c[l] \in Int
  BY StringIs
<1>4. CASE i < j
  <2>1. i \in 1 .. Len(c) /\ b[i] = c[i] /\ \A l \in 1 .. i - 1 : a[l] = c[l]
    BY <1>1, <1>2, <1>3, <1>4
  <2> QED
    BY <1>1, <2>1 DEF Less
<1>5. CASE i = j
  <2>1. i \in 1 .. Len(c) /\ b[i] < c[i] /\ \A l \in 1 .. i - 1 : a[l] = c[l]
    BY <1>1, <1>2, <1>3, <1>5
  <2>2. i <= Len(a) => a[i] < c[i]
    BY <1>1, <1>2, <1>3, <2>1
  <2> QED
    BY <1>1, <2>1, <2>2 DEF Less
<1>6. CASE j < i
  <2>1. j <= Len(a) + 1 /\ j <= Len(a) /\ a[j] = b[j] /\ b[j] < c[j]
        /\ \A l \in 1 .. j - 1 : a[l] = c[l]
    BY <1>1, <1>2, <1>3, <1>6
  <2> QED
    BY <1>2, <2>1 DEF Less
<1> QED
  BY <1>4, <1>5, <1>6

LEMMA Total ==
    ASSUME NEW a \in Strings, NEW b \in Strings, ~Less(a, b), ~Less(b, a)
    PROVE  a = b
<1> DEFINE D == {i \in Nat \ {0} : /\ i <= Len(a) + 1 /\ i <= Len(b) + 1
                                   /\ i = Len(a) + 1 \/ i = Len(b) + 1 \/ a[i] # b[i]}
<1>1. /\ Len(a) \in Nat /\ Len(b) \in Nat
      /\ \A l \in 1 .. Len(a) : a[l] \in Int
      /\ \A l \in 1 .. Len(b) : b[l] \in Int
      /\ DOMAIN a = 1 .. Len(a) /\ DOMAIN b = 1 .. Len(b)
  BY StringIs
<1>2. D # {}
  <2>1. Len(a) <= Len(b) => Len(a) + 1 \in D
    BY <1>1
  <2>2. Len(b) <= Len(a) => Len(b) + 1 \in D
    BY <1>1
  <2>3. Len(a) <= Len(b) \/ Len(b) <= Len(a)
    BY <1>1
  <2> HIDE DEF D
  <2> QED
    BY <2>1, <2>2, <2>3
<1>3. PICK i \in D : \A j \in D : i <= j
  <2>1. D \subseteq Nat
    OBVIOUS
  <2> HIDE DEF D
  <2> QED
    BY <1>2, <2>1, LeastOfNat
<1>4. i \in Nat \ {0} /\ i <= Len(a) + 1 /\ i <= Len(b) + 1
      /\ (i = Len(a) + 1 \/ i = Len(b) + 1 \/ a[i] # b[i])
  OBVIOUS
<1>5. \A l \in 1 .. i - 1 : a[l] = b[l]
  <2> SUFFICES ASSUME NEW l \in 1 .. i - 1, a[l] # b[l] PROVE FALSE
    OBVIOUS
  <2>1. l \in D
    BY <1>1, <1>4
  <2> QED
    BY <1>3, <1>4, <2>1
<1>6. CASE i <= Len(a) /\ i <= Len(b)
  <2>1. a[i] \in Int /\ b[i] \in Int /\ a[i] # b[i]
    BY <1>1, <1>4, <1>6
  <2>2. a[i] < b[i] \/ b[i] < a[i]
    BY <2>1
  <2> QED
    BY <1>1, <1>4, <1>5, <1>6, <2>2 DEF Less
<1>7. CASE i = Len(a) + 1 /\ i <= Len(b)
  BY <1>1, <1>4, <1>5, <1>7 DEF Less
<1>8. CASE i = Len(b) + 1 /\ i <= Len(a)
  BY <1>1, <1>4, <1>5, <1>8 DEF Less
<1>9. CASE i = Len(a) + 1 /\ i = Len(b) + 1
  BY <1>1, <1>5, <1>9 DEF Strings
<1> QED
  BY <1>1, <1>4, <1>6, <1>7, <1>8, <1>9

\* A finite set of keys has a least and a greatest one, by induction on its size.
Bounded(S) ==
    /\ \E k \in S : \A l \in S : ~Less(l, k)
    /\ \E k \in S : \A l \in S : ~Less(k, l)
SizeIsBounded(n) ==
    \A U \in SUBSET Strings : IsFiniteSet(U) /\ Cardinality(U) = n /\ U # {} => Bounded(U)

LEMMA FiniteIsBounded ==
    ASSUME NEW S, S \subseteq Strings, IsFiniteSet(S), S # {}
    PROVE  Bounded(S)
<1> DEFINE T == {n \in Nat : SizeIsBounded(n)}
<1>1. 0 \in T
  BY FS_EmptySet DEF SizeIsBounded
<1>2. ASSUME NEW n \in Nat, n \in T PROVE n + 1 \in T
  <2> SUFFICES ASSUME NEW U \in SUBSET Strings, IsFiniteSet(U), Cardinality(U) = n + 1, U # {}
               PROVE  Bounded(U)
    BY DEF SizeIsBounded
  <2>1. PICK x : x \in U
    OBVIOUS
  <2> DEFINE V == U \ {x}
  <2>2. IsFiniteSet(V) /\ Cardinality(V) = n /\ V \in SUBSET Strings /\ U = V \cup {x} /\ x \in Strings
    <3>1. V \in SUBSET Strings /\ U = V \cup {x} /\ x \in Strings
      BY <2>1
    <3>2. IsFiniteSet(U \ {x})
      BY FS_RemoveElement
    <3>3. Cardinality(U \ {x}) = Cardinality(U) - 1
      BY <2>1, FS_RemoveElement
    <3>4. n + 1 - 1 = n
      OBVIOUS
    <3> QED
      BY <3>1, <3>2, <3>3, <3>4
  <2>3. CASE V = {}
    BY <2>2, <2>3, Irreflexive DEF Bounded
  <2>4. CASE V # {}
    <3> HIDE DEF V
    <3>1. Bounded(V)
      BY <1>2, <2>2, <2>4 DEF SizeIsBounded
    <3>2. PICK lo \in V : \A l \in V : ~Less(l, lo)
      BY <3>1 DEF Bounded
    <3>3. PICK hi \in V : \A l \in V : ~Less(hi, l)
      BY <3>1 DEF Bounded
    <3>4. \E k \in U : \A l \in U : ~Less(l, k)
      <4>1. CASE Less(x, lo)
        <5>1. \A l \in V : ~Less(l, x)
          BY <2>2, <3>2, <4>1, Transitive
        <5> QED
          BY <2>1, <2>2, <5>1, Irreflexive
      <4>2. CASE ~Less(x, lo)
        BY <2>2, <3>2, <4>2
      <4> QED
        BY <4>1, <4>2
    <3>5. \E k \in U : \A l \in U : ~Less(k, l)
      <4>1. CASE Less(hi, x)
        <5>1. \A l \in V : ~Less(x, l)
          BY <2>2, <3>3, <4>1, Transitive
        <5> QED
          BY <2>1, <2>2, <5>1, Irreflexive
      <4>2. CASE ~Less(hi, x)
        BY <2>2, <3>3, <4>2
      <4> QED
        BY <4>1, <4>2
    <3> QED
      BY <3>4, <3>5 DEF Bounded
  <2> QED
    BY <2>3, <2>4
<1> HIDE DEF T
<1>3. Nat \subseteq T
  BY <1>1, <1>2, InductionInSet
<1>4. Cardinality(S) \in T
  BY <1>3, FS_CardinalityType
<1> QED
  BY <1>4 DEF T, SizeIsBounded

\* What Least and Greatest find.
LEMMA LeastIs ==
    ASSUME NEW S, S \subseteq Strings, IsFiniteSet(S)
    PROVE  /\ Least(S) = None <=> S = {}
           /\ S # {} => /\ Least(S) \in S
                        /\ \A l \in S : l = Least(S) \/ Less(Least(S), l)
<1>1. CASE S = {}
  BY <1>1 DEF Least
<1>2. CASE S # {}
  <2>1. \E k \in S : \A l \in S : ~Less(l, k)
    BY <1>2, FiniteIsBounded DEF Bounded
  <2>2. Least(S) \in S /\ \A l \in S : ~Less(l, Least(S))
    BY <1>2, <2>1 DEF Least
  <2>3. Least(S) \in Strings /\ Least(S) # None
    BY <2>2, StringIs
  <2> QED
    BY <1>2, <2>2, <2>3, Total
<1> QED
  BY <1>1, <1>2

LEMMA GreatestIs ==
    ASSUME NEW S, S \subseteq Strings, IsFiniteSet(S)
    PROVE  /\ Greatest(S) = None <=> S = {}
           /\ S # {} => /\ Greatest(S) \in S
                        /\ \A l \in S : l = Greatest(S) \/ Less(l, Greatest(S))
<1>1. CASE S = {}
  BY <1>1 DEF Greatest
<1>2. CASE S # {}
  <2>1. \E k \in S : \A l \in S : ~Less(k, l)
    BY <1>2, FiniteIsBounded DEF Bounded
  <2>2. Greatest(S) \in S /\ \A l \in S : ~Less(Greatest(S), l)
    BY <1>2, <2>1 DEF Greatest
  <2>3. Greatest(S) \in Strings /\ Greatest(S) # None
    BY <2>2, StringIs
  <2> QED
    BY <1>2, <2>2, <2>3, Total
<1> QED
  BY <1>1, <1>2

\* What iterators of LevelDB find.
LEMMA SeekIs ==
    ASSUME NEW snap, snap \subseteq Strings, IsFiniteSet(snap), NEW key \in Strings
    PROVE  LET s == Seek(snap, key)
           IN  IF s = None THEN \A k \in snap : Less(k, key)
               ELSE /\ s \in snap /\ ~Less(s, key)
                    /\ \A k \in snap : Less(k, key) \/ k = s \/ Less(s, k)
<1> DEFINE S == {k \in snap : ~Less(k, key)}
<1>1. S \subseteq Strings /\ IsFiniteSet(S)
  BY FS_Subset
<1>2. Seek(snap, key) = Least(S)
  BY DEF Seek
<1> QED
  BY <1>1, <1>2, LeastIs

LEMMA NextIs ==
    ASSUME NEW snap, snap \subseteq Strings, IsFiniteSet(snap), NEW at \in Strings
    PROVE  LET s == NextKey(snap, at)
           IN  IF s = None THEN \A k \in snap : k = at \/ Less(k, at)
               ELSE /\ s \in snap /\ Less(at, s)
                    /\ \A k \in snap : Less(k, at) \/ k = at \/ k = s \/ Less(s, k)
<1> DEFINE S == {k \in snap : Less(at, k)}
<1>1. S \subseteq Strings /\ IsFiniteSet(S)
  BY FS_Subset
<1>2. NextKey(snap, at) = Least(S)
  BY DEF NextKey
<1>3. \A k \in snap : Less(k, at) \/ k = at \/ Less(at, k)
  BY Total
<1> QED
  BY <1>1, <1>2, <1>3, LeastIs

LEMMA PrevIs ==
    ASSUME NEW snap, snap \subseteq Strings, IsFiniteSet(snap), NEW at \in Strings
    PROVE  LET s == PrevKey(snap, at)
           IN  IF s = None THEN \A k \in snap : k = at \/ Less(at, k)
               ELSE /\ s \in snap /\ Less(s, at)
                    /\ \A k \in snap : Less(at, k) \/ k = at \/ k = s \/ Less(k, s)
<1> DEFINE S == {k \in snap : Less(k, at)}
<1>1. S \subseteq Strings /\ IsFiniteSet(S)
  BY FS_Subset
<1>2. PrevKey(snap, at) = Greatest(S)
  BY DEF PrevKey
<1>3. \A k \in snap : Less(k, at) \/ k = at \/ Less(at, k)
  BY Total
<1> QED
  BY <1>1, <1>2, <1>3, GreatestIs
-----------------------------------------------------------------------------
(* Iterators keep their types.                                               *)

LEMMA PlainIsValid == \A k : StartsWith(k, << >>)
BY DEF StartsWith, IsPrefix

LEMMA IteratorIs ==
    ASSUME NEW e, IsIterator(e)
    PROVE  /\ e.snap \subseteq Strings /\ IsFiniteSet(e.snap) /\ e.starts \in Strings
           /\ e.walk \in Nat /\ e.valid \in BOOLEAN
           /\ e.at # None => e.at \in e.snap /\ e.at \in Strings
           /\ e.valid <=> e.at # None /\ StartsWith(e.at, e.starts)
           /\ e.starts = << >> => (e.valid <=> e.at # None)
BY PlainIsValid DEF IsIterator

LEMMA AtIs ==
    ASSUME NEW e, IsIterator(e), NEW k \in e.snap \cup {None}
    PROVE  LET a == At(e, k)
           IN  /\ IsIterator(a) /\ a.snap = e.snap /\ a.at = k /\ a.starts = e.starts
               /\ a.walk = e.walk
<1> DEFINE a == At(e, k)
           v == k # None /\ StartsWith(k, e.starts)
<1>1. /\ e = [snap |-> e.snap, at |-> e.at, valid |-> e.valid, starts |-> e.starts,
              walk |-> e.walk]
      /\ e.snap \in SUBSET Strings /\ e.starts \in Strings /\ e.walk \in Nat
      /\ IsFiniteSet(e.snap)
  BY DEF IsIterator
<1>2. a = [e EXCEPT !.at = k, !.valid = v]
  BY DEF At
<1>3. v \in BOOLEAN /\ k \in Strings \cup {None}
  BY <1>1
<1> HIDE DEF a, v
<1>4. a = [snap |-> e.snap, at |-> k, valid |-> v, starts |-> e.starts, walk |-> e.walk]
  BY <1>1, <1>2
<1>5. a \in [snap : SUBSET Strings, at : Strings \cup {None}, valid : BOOLEAN, starts : Strings,
             walk : Nat]
  BY <1>1, <1>3, <1>4
<1>6. /\ a.snap = e.snap /\ a.at = k /\ a.starts = e.starts /\ a.walk = e.walk
      /\ a.valid <=> k # None /\ StartsWith(k, e.starts)
  BY <1>4 DEF v
<1>7. IsIterator(a)
  BY <1>1, <1>5, <1>6 DEF IsIterator
<1> QED
  BY <1>6, <1>7 DEF a

LEMMA WalkIs ==
    ASSUME NEW e, IsIterator(e), NEW w \in Nat
    PROVE  LET a == [e EXCEPT !.walk = w]
           IN  /\ IsIterator(a) /\ a.snap = e.snap /\ a.at = e.at /\ a.starts = e.starts
               /\ a.valid = e.valid /\ a.walk = w
<1> DEFINE a == [e EXCEPT !.walk = w]
<1>1. /\ e = [snap |-> e.snap, at |-> e.at, valid |-> e.valid, starts |-> e.starts,
              walk |-> e.walk]
      /\ e.snap \in SUBSET Strings /\ e.starts \in Strings /\ e.at \in Strings \cup {None}
      /\ e.valid \in BOOLEAN
  BY DEF IsIterator
<1>2. a = [snap |-> e.snap, at |-> e.at, valid |-> e.valid, starts |-> e.starts, walk |-> w]
  BY <1>1
<1> HIDE DEF a
<1>3. a \in [snap : SUBSET Strings, at : Strings \cup {None}, valid : BOOLEAN, starts : Strings,
             walk : Nat]
  BY <1>1, <1>2
<1>4. /\ a.snap = e.snap /\ a.at = e.at /\ a.starts = e.starts /\ a.valid = e.valid
      /\ a.walk = w
  BY <1>2
<1>5. IsIterator(a)
  BY <1>3, <1>4 DEF IsIterator
<1> QED
  BY <1>4, <1>5 DEF a

LEMMA EntryIs ==
    ASSUME NEW p \in Strings, db \subseteq Keys, IsFiniteSet(db)
    PROVE  LET e == Entry(p)
           IN  /\ IsIterator(e) /\ e.snap = db /\ e.at = None /\ e.starts = p /\ e.walk = 0
               /\ ~e.valid
<1>1. db \in SUBSET Strings
  BY LdbAssumption
<1> QED
  BY <1>1 DEF Entry, IsIterator

LEMMA MovedIs ==
    ASSUME NEW e, IsIterator(e)
    PROVE  /\ IsIterator(Increment(e)) /\ Increment(e).snap = e.snap
           /\ Increment(e).starts = e.starts
           /\ IsIterator(Decrement(e)) /\ Decrement(e).snap = e.snap
           /\ Decrement(e).starts = e.starts
<1>1. /\ e.snap \subseteq Strings /\ IsFiniteSet(e.snap) /\ e.starts \in Strings
      /\ e.valid => e.at \in Strings
  BY IteratorIs
<1> DEFINE up == IF e.valid THEN NextKey(e.snap, e.at) ELSE Seek(e.snap, e.starts)
           down == IF e.valid THEN PrevKey(e.snap, e.at) ELSE SeekLast(e)
<1>2. up \in e.snap \cup {None}
  BY <1>1, NextIs, SeekIs
<1>3. SeekLast(e) \in e.snap \cup {None}
  <2>1. ASSUME NEW S, S \subseteq e.snap PROVE Greatest(S) \in e.snap \cup {None}
    <3>1. S \subseteq Strings /\ IsFiniteSet(S)
      BY <1>1, <2>1, FS_Subset
    <3> QED
      BY <2>1, <3>1, GreatestIs
  <2> QED
    BY <2>1 DEF SeekLast
<1>4. down \in e.snap \cup {None}
  BY <1>1, <1>3, PrevIs
<1>5. Increment(e) = At(e, up) /\ Decrement(e) = At(e, down)
  BY DEF Increment, Decrement
<1> HIDE DEF up, down
<1> QED
  BY <1>2, <1>4, <1>5, AtIs

\* A batch leaves finitely many keys.
LEMMA WrittenIs ==
    ASSUME db \subseteq Keys, IsFiniteSet(db), NEW n \in Nat, NEW batch \in [1 .. n -> Operations]
    PROVE  Written(batch) \subseteq Keys /\ IsFiniteSet(Written(batch))
<1> DEFINE put == {batch[i].k : i \in DOMAIN batch}
<1>1. DOMAIN batch = 1 .. n /\ \A i \in 1 .. n : batch[i].k \in Keys
  BY DEF Operations
<1>2. put \subseteq Keys
  BY <1>1
<1>3. IsFiniteSet(put)
  <2>1. IsFiniteSet(1 .. n)
    BY FS_Interval
  <2> DEFINE f == [i \in 1 .. n |-> batch[i].k]
  <2>2. f \in Surjection(1 .. n, put)
    BY <1>1 DEF Surjection
  <2> QED
    BY <2>1, <2>2, FS_Surjection
<1>4. IsFiniteSet(db \cup put)
  BY <1>3, FS_Union
<1>5. Written(batch) \subseteq db \cup put
  BY DEF Written
<1> QED
  BY <1>2, <1>4, <1>5, FS_Subset

LEMMA InitShape ==
    ASSUME Init
    PROVE  Shape
BY DEF Init, Shape

LEMMA ShapeKept ==
    ASSUME Shape, [Next]_vars
    PROVE  Shape'
<1>1. /\ db \subseteq Keys /\ IsFiniteSet(db) /\ Starts \subseteq Strings
      /\ pc \in {"idle", "walking", "opening", "ranging", "ub"}
  BY LdbAssumption DEF Shape
<1>2. << >> \in Strings
  BY DEF Strings
<1>3. \A r \in Ranges : r[1] \in Strings /\ r[2] \in Strings
  BY LdbAssumption
<1>4. ASSUME NEW p \in Strings
      PROVE  LET e == At(Entry(p), Seek(db, p))
             IN  IsIterator(e) /\ e.starts = p /\ e.snap = db
  <2>1. db \subseteq Strings
    BY <1>1, LdbAssumption
  <2>2. Seek(db, p) \in db \cup {None}
    BY <1>1, <2>1, SeekIs
  <2> QED
    BY <1>1, <2>2, EntryIs, AtIs
<1>5. ASSUME NEW key \in Strings
      PROVE  LET e == At(Entry(<< >>), Seek(db, key))
             IN  IsIterator(e) /\ e.starts = << >> /\ e.snap = db /\ e.at = Seek(db, key)
  <2>1. db \subseteq Strings
    BY <1>1, LdbAssumption
  <2>2. Seek(db, key) \in db \cup {None}
    BY <1>1, <2>1, SeekIs
  <2> QED
    BY <1>1, <1>2, <2>2, EntryIs, AtIs
<1>6. ASSUME NEW n \in 1 .. MaxBatch, NEW batch \in [1 .. n -> Operations], Write(batch)
      PROVE  Shape'
  <2>1. n \in Nat
    BY LdbAssumption
  <2>2. db' \subseteq Keys /\ IsFiniteSet(db')
    BY <1>1, <1>6, <2>1, WrittenIs DEF Write
  <2> QED
    BY <1>6, <2>2 DEF Write, Shape
<1>7. ASSUME NEW p \in Starts, OpenPrefix(p) PROVE Shape'
  <2> DEFINE e == At(Entry(p), Seek(db, p))
  <2>1. IsIterator(e) /\ e.starts = p
    BY <1>1, <1>4
  <2>2. Entry(p).snap = db
    BY DEF Entry
  <2>3. /\ pc' = "walking" /\ db' = db
        /\ it' = [e EXCEPT !.walk = IF e.valid THEN 1 ELSE 0]
    BY <1>7, <2>2 DEF OpenPrefix
  <2> HIDE DEF e
  <2>4. IsIterator(it') /\ it'.starts = p
    BY <2>1, <2>3, WalkIs
  <2> QED
    BY <1>1, <2>3, <2>4 DEF Shape
<1>8. ASSUME NEW d \in {1, -1}, Walk(d) PROVE Shape'
  <2> DEFINE e == IF d = 1 THEN Increment(it) ELSE Decrement(it)
             w == Walked(it, d)
  <2>1. IsIterator(it) /\ it.starts \in Starts
    BY <1>8 DEF Walk, Shape
  <2>2. IsIterator(e) /\ e.starts = it.starts
    BY <2>1, MovedIs
  <2>3. w \in Nat
    <3>1. Matching(it) \subseteq it.snap /\ IsFiniteSet(it.snap)
      BY <2>1, IteratorIs DEF Matching
    <3>2. Cardinality(Matching(it)) \in Nat
      BY <3>1, FS_Subset, FS_CardinalityType
    <3>3. it.walk \in Nat
      BY <2>1, IteratorIs
    <3> QED
      BY <3>2, <3>3 DEF Walked
  <2>4. it' = [e EXCEPT !.walk = w] /\ pc' = "walking" /\ db' = db
    BY <1>8 DEF Walk
  <2> HIDE DEF e, w
  <2>5. IsIterator(it') /\ it'.starts = it.starts
    BY <2>2, <2>3, <2>4, WalkIs
  <2> QED
    BY <1>1, <2>1, <2>4, <2>5 DEF Shape
<1>9. ASSUME WalkOut PROVE Shape'
  BY <1>9 DEF WalkOut, Shape
<1>10. ASSUME NEW r \in Ranges, OpenFrom(r) PROVE Shape'
  <2>1. IsIterator(it') /\ it'.starts = << >> /\ pc' = "opening" /\ db' = db /\ bounds' = r
    BY <1>3, <1>5, <1>10 DEF OpenFrom
  <2> QED
    BY <1>1, <2>1 DEF Shape
<1>11. ASSUME OpenTill PROVE Shape'
  BY <1>11 DEF OpenTill, Shape
<1>12. ASSUME OpenAll PROVE Shape'
  <2>1. IsIterator(it') /\ it'.starts = << >> /\ pc' = "ranging" /\ db' = db
    BY <1>2, <1>5, <1>12 DEF OpenAll
  <2> QED
    BY <1>1, <2>1 DEF Shape
<1>13. ASSUME Loop PROVE Shape'
  <2>1. IsIterator(it) /\ it.starts = << >> /\ pc' = "ranging" /\ db' = db /\ it' = Increment(it)
    BY <1>13 DEF Loop, Shape
  <2>2. IsIterator(it') /\ it'.starts = << >>
    BY <2>1, MovedIs
  <2> QED
    BY <1>1, <2>1, <2>2 DEF Shape
<1>14. ASSUME Close PROVE Shape'
  BY <1>14 DEF Close, Shape
<1>15. ASSUME UNCHANGED vars PROVE Shape'
  BY <1>15 DEF vars, Shape
<1> QED
  BY <1>6, <1>7, <1>8, <1>9, <1>10, <1>11, <1>12, <1>13, <1>14, <1>15 DEF Next
-----------------------------------------------------------------------------
(* Ranges.                                                                   *)

\* Where the other iterator of a range is, seen from a key of the first one.
LEMMA TillIs ==
    ASSUME NEW snap, snap \subseteq Strings, IsFiniteSet(snap), NEW b \in Strings \cup {None},
           NEW valid, valid <=> b # None /\ Seek(snap, b) # None, NEW k \in snap
    PROVE  /\ ~valid => (b # None => Less(k, b))
           /\ valid => (Less(k, b) <=> Less(k, Seek(snap, b)))
<1>1. CASE b = None
  BY <1>1
<1>2. CASE b # None
  <2> DEFINE s == Seek(snap, b)
  <2>1. IF s = None THEN \A l \in snap : Less(l, b)
        ELSE s \in snap /\ ~Less(s, b) /\ \A l \in snap : Less(l, b) \/ l = s \/ Less(s, l)
    BY <1>2, SeekIs
  <2> HIDE DEF s
  <2>2. CASE s = None
    BY <1>2, <2>1, <2>2 DEF s
  <2>3. CASE s # None
    <3>1. s \in Strings /\ k \in Strings /\ b \in Strings
      BY <1>2, <2>1, <2>3
    <3>2. Less(k, b) => Less(k, s)
      BY <2>1, <2>3, <3>1, Total, Transitive
    <3>3. Less(k, s) => Less(k, b)
      BY <2>1, <2>3, <3>1, Irreflexive, Transitive
    <3> QED
      BY <1>2, <2>3, <3>2, <3>3 DEF s
  <2> QED
    BY <2>2, <2>3
<1> QED
  BY <1>1, <1>2

\* Where the first one begins.
LEMMA FromIs ==
    ASSUME NEW snap, snap \subseteq Strings, IsFiniteSet(snap), NEW b \in Strings
    PROVE  LET s == Seek(snap, b)
           IN  /\ s # None => s \in snap /\ ~Less(s, b)
               /\ \A k \in snap : ~Less(k, b) => s # None /\ ~Less(k, s)
<1> DEFINE s == Seek(snap, b)
<1>1. IF s = None THEN \A l \in snap : Less(l, b)
      ELSE s \in snap /\ ~Less(s, b) /\ \A l \in snap : Less(l, b) \/ l = s \/ Less(s, l)
  BY SeekIs
<1> HIDE DEF s
<1>2. ASSUME NEW k \in snap, ~Less(k, b) PROVE s # None /\ ~Less(k, s)
  BY <1>1, <1>2, Irreflexive, Transitive
<1> QED
  BY <1>1, <1>2 DEF s

LEMMA RangedKept ==
    ASSUME QuietOpen, Shape, Ranged, [Next]_vars
    PROVE  Ranged'
<1>1. db \subseteq Strings /\ IsFiniteSet(db) /\ << >> \in Strings
  BY LdbAssumption DEF Shape, Strings
<1>2. ASSUME NEW n \in 1 .. MaxBatch, NEW batch \in [1 .. n -> Operations], Write(batch)
      PROVE  Ranged'
  BY <1>2 DEF Write, Ranged, InRange
<1>3. ASSUME NEW p \in Starts, OpenPrefix(p) PROVE Ranged'
  BY <1>3 DEF OpenPrefix, Ranged
<1>4. ASSUME NEW d \in {1, -1}, Walk(d) PROVE Ranged'
  BY <1>4 DEF Walk, Ranged
<1>5. ASSUME WalkOut PROVE Ranged'
  BY <1>5 DEF WalkOut, Ranged
<1>6. ASSUME NEW key \in Strings
      PROVE  LET e == At(Entry(<< >>), Seek(db, key))
             IN  IsIterator(e) /\ e.starts = << >> /\ e.snap = db /\ e.at = Seek(db, key)
  <2>1. Seek(db, key) \in db \cup {None}
    BY <1>1, SeekIs
  <2>2. db \subseteq Keys
    BY DEF Shape
  <2> QED
    BY <1>1, <2>1, <2>2, EntryIs, AtIs
<1>7. ASSUME NEW r \in Ranges, OpenFrom(r) PROVE Ranged'
  <2>1. r[1] \in Strings
    BY LdbAssumption
  <2> QED
    BY <1>6, <1>7, <2>1 DEF OpenFrom, Ranged
<1>8. ASSUME OpenTill PROVE Ranged'
  <2>1. /\ bounds[1] \in Strings /\ bounds[2] \in Strings /\ ~Less(bounds[2], bounds[1])
        /\ bounds[2] # None
    BY <1>8, LdbAssumption DEF OpenTill, Shape
  <2>2. /\ IsIterator(it) /\ it.starts = << >> /\ it.snap = db /\ it.at = Seek(db, bounds[1])
    BY <1>8 DEF OpenTill, Shape, Ranged
  <2>3. it.valid <=> it.at # None
    BY <2>2, IteratorIs
  <2> DEFINE e == At(Entry(<< >>), Seek(db, bounds[2]))
  <2>4. IsIterator(e) /\ e.starts = << >> /\ e.at = Seek(db, bounds[2])
    BY <1>6, <2>1
  <2>5. e.valid <=> e.at # None
    BY <2>4, IteratorIs
  <2>6. pc' = "ranging" /\ it' = it /\ bounds' = bounds /\ till' = e /\ seen' = seen
    BY <1>8 DEF OpenTill
  <2>7. /\ it.at # None => it.at \in db /\ ~Less(it.at, bounds[1])
        /\ \A k \in db : ~Less(k, bounds[1]) => it.at # None /\ ~Less(k, it.at)
    BY <1>1, <2>1, <2>2, FromIs
  <2>8. e.at # None => e.at \in db /\ ~Less(e.at, bounds[2])
    BY <1>1, <2>1, <2>4, FromIs
  <2>9. e.at # None => ~Less(e.at, bounds[1])
    <3> HIDE DEF e
    <3> QED
      BY <1>1, <2>1, <2>8, Transitive, Total
  <2>10. seen = {}
    BY <1>8 DEF OpenTill, Ranged
  <2> HIDE DEF e
  <2>11. {k \in db : ~Less(k, bounds[1]) /\ (it.valid => Less(k, it.at))} = {}
    BY <2>3, <2>7
  <2>12. seen' = {k \in it.snap : InRange(k) /\ (it.valid => Less(k, it.at))}
    BY <2>2, <2>6, <2>10, <2>11 DEF InRange
  <2>13. till'.valid = (bounds[2] # None /\ Seek(it.snap, bounds[2]) # None)
    <3>1. e.valid \in BOOLEAN
      BY <2>4, IteratorIs
    <3> QED
      BY <2>1, <2>2, <2>4, <2>5, <2>6, <3>1
  <2>14. till'.valid => /\ till'.at = Seek(it.snap, bounds[2])
                        /\ it.valid /\ ~Less(till'.at, it.at)
    BY <2>2, <2>3, <2>4, <2>5, <2>6, <2>7, <2>8, <2>9
  <2> QED
    BY <2>1, <2>3, <2>6, <2>7, <2>12, <2>13, <2>14 DEF Ranged, InRange
<1>9. ASSUME OpenAll PROVE Ranged'
  <2> DEFINE e == At(Entry(<< >>), Seek(db, << >>))
  <2>1. IsIterator(e) /\ e.starts = << >> /\ e.snap = db /\ e.at = Seek(db, << >>)
    BY <1>1, <1>6
  <2>2. e.valid <=> e.at # None
    BY <2>1, IteratorIs
  <2>3. /\ pc' = "ranging" /\ it' = e /\ bounds' = <<<< >>, None>> /\ till' = Entry(<< >>)
        /\ seen' = {}
    BY <1>9 DEF OpenAll, Ranged
  <2> HIDE DEF e
  <2>4. /\ e.at # None => e.at \in db /\ ~Less(e.at, << >>)
        /\ \A k \in db : ~Less(k, << >>) => e.at # None /\ ~Less(k, e.at)
    BY <1>1, <2>1, FromIs
  <2>5. till'.valid = FALSE
    BY <2>3 DEF Entry
  <2>6. bounds'[1] = << >> /\ bounds'[2] = None
    BY <2>3
  <2>7. {k \in db : ~Less(k, << >>) /\ (e.valid => Less(k, e.at))} = {}
    BY <2>2, <2>4
  <2>8. seen' = {k \in it'.snap : InRange(k)' /\ (it'.valid => Less(k, it'.at))}
    BY <2>1, <2>3, <2>6, <2>7 DEF InRange
  <2> QED
    BY <1>1, <2>2, <2>3, <2>4, <2>5, <2>6, <2>8 DEF Ranged
<1>10. ASSUME Loop PROVE Ranged'
  <2> DEFINE b == bounds[2]
             s == Seek(it.snap, b)
  <2>1. /\ IsIterator(it) /\ it.starts = << >> /\ bounds[1] \in Strings /\ b \in Strings \cup {None}
        /\ seen = {k \in it.snap : InRange(k) /\ (it.valid => Less(k, it.at))}
        /\ it.valid => ~Less(it.at, bounds[1])
        /\ till.valid \in BOOLEAN /\ (till.valid <=> b # None /\ s # None)
        /\ till.valid = (b # None /\ s # None)
        /\ till.valid => till.at = s /\ it.valid /\ ~Less(s, it.at)
        /\ ~Equal(it, till) /\ pc' = "ranging" /\ it' = Increment(it)
        /\ seen' = seen \cup {it.at} /\ UNCHANGED <<till, bounds>>
    BY <1>10 DEF Loop, Shape, Ranged
  <2>2. /\ it.snap \subseteq Strings /\ IsFiniteSet(it.snap)
        /\ it.at # None => it.at \in it.snap /\ it.at \in Strings
        /\ (it.valid <=> it.at # None) /\ it.valid \in BOOLEAN
    BY <2>1, IteratorIs
  <2>3. it.valid
    BY <2>1, <2>2 DEF Equal
  <2> DEFINE next == NextKey(it.snap, it.at)
  <2>4. /\ IsIterator(it') /\ it'.snap = it.snap /\ it'.starts = << >>
    BY <2>1, MovedIs
  <2>5. IF next = None THEN \A k \in it.snap : k = it.at \/ Less(k, it.at)
        ELSE /\ next \in it.snap /\ Less(it.at, next)
             /\ \A k \in it.snap : Less(k, it.at) \/ k = it.at \/ k = next \/ Less(next, k)
    BY <2>2, <2>3, NextIs
  <2>6. it'.at = next
    <3>1. it' = At(it, next)
      BY <2>1, <2>3 DEF Increment
    <3> HIDE DEF next
    <3>2. next \in it.snap \cup {None}
      BY <2>5
    <3> QED
      BY <2>1, <3>1, <3>2, AtIs
  <2>7. it'.valid <=> next # None
    BY <2>4, <2>6, IteratorIs
  <2> HIDE DEF next
  <2>8. \A k \in it.snap : /\ ~till.valid => (b # None => Less(k, b))
                           /\ till.valid => (Less(k, b) <=> Less(k, s))
    BY <2>1, <2>2, TillIs
  <2> HIDE DEF s
  <2>9. till.valid => s \in it.snap /\ Less(it.at, s)
    <3>1. ASSUME till.valid PROVE s \in it.snap
      BY <2>1, <2>2, <3>1, SeekIs DEF s
    <3>2. till.valid => s # it.at
      BY <2>1, <2>3 DEF Equal
    <3> QED
      BY <2>1, <2>2, <2>3, <3>1, <3>2, Total
  <2>10. InRange(it.at)
    BY <2>1, <2>2, <2>3, <2>8, <2>9 DEF InRange
  <2>11. ASSUME NEW k \in it.snap
         PROVE  (next # None => Less(k, next)) <=> Less(k, it.at) \/ k = it.at
    <3>1. k \in Strings /\ it.at \in Strings /\ (next # None => next \in Strings)
      BY <2>2, <2>3, <2>5
    <3> QED
      BY <2>5, <3>1, Irreflexive, Transitive
  <2>12. seen' = {k \in it'.snap : InRange(k)' /\ (it'.valid => Less(k, it'.at))}
    <3>1. \A k : InRange(k)' <=> InRange(k)
      BY <2>1 DEF InRange
    <3>2. seen' = {k \in it.snap : InRange(k) /\ (Less(k, it.at) \/ k = it.at)}
      BY <2>1, <2>2, <2>3, <2>10
    <3>3. seen' = {k \in it.snap : InRange(k) /\ (next # None => Less(k, next))}
      BY <2>11, <3>2
    <3> QED
      BY <2>4, <2>6, <2>7, <3>1, <3>3
  <2>13. it'.valid => ~Less(it'.at, bounds[1])
    BY <2>1, <2>2, <2>3, <2>5, <2>6, <2>7, Transitive, Total
  <2>14. till.valid => it'.valid /\ ~Less(s, it'.at)
    <3>1. ASSUME till.valid PROVE next # None /\ ~Less(s, next)
      <4>1. s \in it.snap /\ s \in Strings /\ Less(it.at, s) /\ it.at \in Strings
        BY <2>2, <2>3, <2>9, <3>1
      <4>2. next # None
        BY <2>5, <4>1, Irreflexive, Transitive
      <4>3. next \in Strings /\ (s = next \/ Less(next, s))
        BY <2>2, <2>5, <4>1, <4>2, Irreflexive, Transitive
      <4> QED
        BY <4>1, <4>2, <4>3, Irreflexive, Transitive
    <3> QED
      BY <2>6, <2>7, <3>1
  <2> QED
    BY <2>1, <2>4, <2>12, <2>13, <2>14 DEF Ranged, s
<1>11. ASSUME Close PROVE Ranged'
  BY <1>11 DEF Close, Ranged
<1>12. ASSUME UNCHANGED vars PROVE Ranged'
  BY <1>12 DEF vars, Ranged, InRange
<1> QED
  BY <1>2, <1>3, <1>4, <1>5, <1>7, <1>8, <1>9, <1>10, <1>11, <1>12 DEF Next

\* A loop over a range of keys or over the whole database dereferences exactly the
\* keys from its begin to before its end that there were when it began, in
\* whatever batches others write meanwhile, as long as nobody writes between the
\* two iterators that range() makes (ldb.hpp:152-170, 188-200).
THEOREM RangesAreExact ==
    ASSUME QuietOpen
    PROVE  Spec => []RangeExact
<1>1. Init => Shape /\ Ranged
  BY InitShape DEF Init, Ranged
<1>2. Shape /\ Ranged /\ [Next]_vars => Shape' /\ Ranged'
  BY ShapeKept, RangedKept
<1>3. Shape /\ Ranged => RangeExact
  <2> SUFFICES ASSUME Shape, Ranged, pc = "ranging"
               PROVE  /\ seen \subseteq {k \in it.snap : InRange(k)}
                      /\ Equal(it, till) => seen = {k \in it.snap : InRange(k)}
    BY DEF RangeExact
  <2>1. seen = {k \in it.snap : InRange(k) /\ (it.valid => Less(k, it.at))}
    BY DEF Ranged
  <2>2. ASSUME Equal(it, till), NEW k \in it.snap, InRange(k), it.valid PROVE Less(k, it.at)
    <3>1. till.valid /\ it.at = Seek(it.snap, bounds[2]) /\ bounds[2] # None
      BY <2>2 DEF Equal, Ranged
    <3>2. it.snap \subseteq Strings /\ IsFiniteSet(it.snap) /\ bounds[2] \in Strings \cup {None}
      BY IteratorIs DEF Shape, Ranged
    <3>3. Less(k, bounds[2]) <=> Less(k, Seek(it.snap, bounds[2]))
      BY <3>1, <3>2, TillIs DEF Ranged
    <3> QED
      BY <2>2, <3>1, <3>3 DEF InRange
  <2> QED
    BY <2>1, <2>2
<1> QED
  BY <1>1, <1>2, <1>3, PTL DEF Spec
-----------------------------------------------------------------------------
(* Prefixes.                                                                 *)

LEMMA PrefixIs ==
    ASSUME NEW k \in Strings, NEW p \in Strings
    PROVE  StartsWith(k, p) <=> Len(p) <= Len(k) /\ \A i \in 1 .. Len(p) : k[i] = p[i]
<1>1. /\ Len(k) \in Nat /\ DOMAIN k = 1 .. Len(k) /\ Len(p) \in Nat /\ DOMAIN p = 1 .. Len(p)
  BY StringIs
<1>2. ASSUME Len(p) <= Len(k)
      PROVE  SubSeq(p, 1, Len(p)) = SubSeq(k, 1, Len(p)) <=> \A i \in 1 .. Len(p) : k[i] = p[i]
  <2>1. /\ SubSeq(p, 1, Len(p)) = [i \in 1 .. Len(p) |-> p[i]]
        /\ SubSeq(k, 1, Len(p)) = [i \in 1 .. Len(p) |-> k[i]]
    BY <1>1, <1>2
  <2> QED
    BY <2>1
<1> QED
  BY <1>2 DEF StartsWith, IsPrefix

\* The strings with a prefix are next to each other, from the prefix itself on.
LEMMA PrefixIsConvex ==
    ASSUME NEW p \in Strings, NEW a \in Strings, NEW b \in Strings, NEW c \in Strings,
           StartsWith(a, p), StartsWith(c, p), ~Less(b, a), ~Less(c, b)
    PROVE  StartsWith(b, p)
<1>1. /\ Len(a) \in Nat /\ Len(b) \in Nat /\ Len(c) \in Nat /\ Len(p) \in Nat
      /\ \A i \in 1 .. Len(b) : b[i] \in Int
      /\ \A i \in 1 .. Len(p) : p[i] \in Int
      /\ Len(p) <= Len(a) /\ Len(p) <= Len(c)
      /\ \A i \in 1 .. Len(p) : a[i] = p[i] /\ c[i] = p[i]
  BY StringIs, PrefixIs
<1> DEFINE D == {i \in 1 .. Len(p) : i > Len(b) \/ b[i] # p[i]}
<1> SUFFICES ASSUME D # {} PROVE FALSE
  <2>1. D = {} => Len(p) <= Len(b) /\ \A i \in 1 .. Len(p) : b[i] = p[i]
    <3> SUFFICES ASSUME D = {} PROVE Len(p) <= Len(b) /\ \A i \in 1 .. Len(p) : b[i] = p[i]
      OBVIOUS
    <3>1. \A i \in 1 .. Len(p) : i <= Len(b) /\ b[i] = p[i]
      BY <1>1
    <3>2. Len(p) = 0 \/ Len(p) \in 1 .. Len(p)
      BY <1>1
    <3> QED
      BY <1>1, <3>1, <3>2
  <2> QED
    BY <2>1, PrefixIs
<1>2. PICK i \in D : \A j \in D : i <= j
  <2>1. D \subseteq Nat
    OBVIOUS
  <2> HIDE DEF D
  <2> QED
    BY <2>1, LeastOfNat
<1>3. i \in 1 .. Len(p) /\ (i > Len(b) \/ b[i] # p[i])
  OBVIOUS
<1>4. \A j \in 1 .. i - 1 : j <= Len(b) /\ b[j] = p[j]
  <2> SUFFICES ASSUME NEW j \in 1 .. i - 1, j > Len(b) \/ b[j] # p[j] PROVE FALSE
    BY <1>1
  <2>1. j \in D
    BY <1>1, <1>3
  <2> QED
    BY <1>2, <1>3, <2>1
<1>5. i <= Len(b) + 1
  <2>1. i = 1 \/ i - 1 \in 1 .. i - 1
    BY <1>3
  <2>2. i = 1 \/ i - 1 <= Len(b)
    BY <1>4, <2>1
  <2> QED
    BY <1>1, <1>3, <2>2
<1>6. /\ i \in 1 .. Len(a) /\ i \in 1 .. Len(c) /\ a[i] = p[i] /\ c[i] = p[i] /\ p[i] \in Int
      /\ \A j \in 1 .. i - 1 : b[j] = a[j] /\ b[j] = c[j]
  BY <1>1, <1>3, <1>4
<1>7. CASE i > Len(b)
  <2>1. ~(i <= Len(b))
    BY <1>1, <1>3, <1>7
  <2> HIDE DEF D
  <2> QED
    BY <1>5, <1>6, <2>1 DEF Less
<1>8. CASE i <= Len(b)
  <2>1. b[i] \in Int /\ b[i] # p[i]
    BY <1>1, <1>3, <1>8
  <2>2. b[i] < p[i] => Less(b, a)
    BY <1>5, <1>6 DEF Less
  <2>3. p[i] < b[i] => Less(c, b)
    <3>1. i \in 1 .. Len(b) /\ i <= Len(c) + 1
      BY <1>1, <1>3, <1>6, <1>8
    <3> QED
      BY <1>6, <3>1 DEF Less
  <2> QED
    BY <1>6, <2>1, <2>2, <2>3
<1> QED
  BY <1>1, <1>3, <1>7, <1>8

LEMMA PrefixIsLeast ==
    ASSUME NEW p \in Strings
    PROVE  /\ StartsWith(p, p)
           /\ \A k \in Strings : StartsWith(k, p) => ~Less(k, p)
<1>1. StartsWith(p, p)
  BY StringIs, PrefixIs
<1>2. ASSUME NEW k \in Strings, StartsWith(k, p), Less(k, p) PROVE FALSE
  <2>1. /\ Len(k) \in Nat /\ Len(p) \in Nat /\ Len(p) <= Len(k)
        /\ \A i \in 1 .. Len(p) : k[i] = p[i] /\ p[i] \in Int
    BY <1>2, StringIs, PrefixIs
  <2>2. PICK i \in 1 .. Len(p) : i <= Len(k) => k[i] < p[i]
    BY <1>2 DEF Less
  <2> QED
    BY <2>1, <2>2
<1> QED
  BY <1>1, <1>2

\* A prefix in which the character that is incremented is not the greatest one.
Bumps(p) == p = << >> \/ ~Bumpable(p) \/ p[BumpPos(p)] # ByteMod - 1

\* It is incremented to a string behind all that have the prefix.
LEMMA BumpIs ==
    ASSUME NEW p \in Strings, p # << >>, Bumpable(p), Bumps(p)
    PROVE  Bump(p) \in Strings /\ \A k \in Strings : StartsWith(k, p) => Less(k, Bump(p))
<1> DEFINE pos == BumpPos(p)
           c == p[pos] + 1
<1>1. /\ Len(p) \in Nat /\ DOMAIN p = 1 .. Len(p) /\ ByteMod \in Nat
      /\ \A i \in 1 .. Len(p) : p[i] \in 0 .. ByteMod - 1
  BY StringIs, LdbAssumption DEF Strings
<1>2. pos \in 1 .. Len(p)
  <2> DEFINE D == {n \in 0 .. Len(p) - 1 : p[Len(p) - n] # CharMax}
  <2>1. D # {}
    <3>1. PICK i \in 1 .. Len(p) : p[i] # CharMax
      BY <1>1 DEF Bumpable
    <3>2. Len(p) - i \in 0 .. Len(p) - 1 /\ Len(p) - (Len(p) - i) = i
      BY <1>1
    <3>3. Len(p) - i \in D
      BY <3>1, <3>2
    <3> QED
      BY <3>3
  <2>2. PICK n \in D : \A m \in D : n <= m
    <3>1. D \subseteq Nat
      BY <1>1
    <3> HIDE DEF D
    <3> QED
      BY <2>1, <3>1, LeastOfNat
  <2>3. Len(p) - n \in 1 .. Len(p) /\ p[Len(p) - n] # CharMax
    BY <1>1
  <2>4. ASSUME NEW j \in Len(p) - n + 1 .. Len(p), p[j] # CharMax PROVE FALSE
    <3>1. /\ Len(p) - j \in 0 .. Len(p) - 1 /\ Len(p) - (Len(p) - j) = j
          /\ ~(n <= Len(p) - j)
      BY <1>1
    <3>2. Len(p) - j \in D
      BY <2>4, <3>1
    <3> HIDE DEF D
    <3> QED
      BY <2>2, <3>1, <3>2
  <2>5. \E i \in DOMAIN p : p[i] # CharMax /\ \A j \in i + 1 .. Len(p) : p[j] = CharMax
    BY <1>1, <2>3, <2>4
  <2> QED
    BY <1>1, <2>5 DEF BumpPos
<1>3. p[pos] \in 0 .. ByteMod - 1 /\ p[pos] # ByteMod - 1
  BY <1>1, <1>2 DEF Bumps
<1>4. c \in 0 .. ByteMod - 1 /\ c % ByteMod = c /\ p[pos] < c
  <2>1. c \in 0 .. ByteMod - 1 /\ p[pos] < c
    BY <1>1, <1>3
  <2>2. ASSUME NEW a \in 0 .. ByteMod - 1 PROVE a % ByteMod = a
    BY LdbAssumption
  <2> QED
    BY <2>1, <2>2
<1>5. Bump(p) = [p EXCEPT ![pos] = c % ByteMod]
  BY DEF Bump
<1> HIDE DEF pos, c
<1>6. Bump(p) = [i \in 1 .. Len(p) |-> IF i = pos THEN c ELSE p[i]]
  BY <1>1, <1>4, <1>5
<1>7. Bump(p) \in Strings
  <2> DEFINE B == 0 .. ByteMod - 1
  <2>1. \A i \in 1 .. Len(p) : (IF i = pos THEN c ELSE p[i]) \in B
    BY <1>1, <1>4
  <2> HIDE DEF B
  <2>2. Bump(p) \in [1 .. Len(p) -> B]
    BY <1>6, <2>1
  <2>3. Bump(p) \in Seq(B)
    BY <1>1, <2>2
  <2> QED
    BY <2>3 DEF B, Strings
<1>8. ASSUME NEW k \in Strings, StartsWith(k, p) PROVE Less(k, Bump(p))
  <2>1. /\ Len(k) \in Nat /\ Len(p) <= Len(k) /\ \A i \in 1 .. Len(p) : k[i] = p[i]
    BY <1>8, StringIs, PrefixIs
  <2>2. Len(Bump(p)) = Len(p)
    BY <1>1, <1>6
  <2>3. pos \in 1 .. Len(Bump(p)) /\ pos <= Len(k) + 1
    BY <1>1, <1>2, <2>1, <2>2
  <2>4. \A j \in 1 .. pos - 1 : k[j] = Bump(p)[j]
    BY <1>1, <1>2, <1>6, <2>1
  <2>5. k[pos] < Bump(p)[pos]
    BY <1>2, <1>4, <1>6, <2>1 DEF pos
  <2> QED
    BY <2>3, <2>4, <2>5 DEF Less
<1> QED
  BY <1>7, <1>8

LEMMA CycleIs ==
    ASSUME NEW c \in Nat
    PROVE  /\ \A n \in 0 .. c : n % (c + 1) = n
           /\ (c + 1) % (c + 1) = 0
           /\ (0 - 1) % (c + 1) = c
<1>1. \A n \in 0 .. c : n % (c + 1) = n
  OBVIOUS
<1>2. (c + 1) % (c + 1) = 0
  OBVIOUS
<1>3. (0 - 1) % (c + 1) = c
  OBVIOUS
<1> QED
  BY <1>1, <1>2, <1>3

\* How many of a set of keys are before one of them.
Below(M, k) == {l \in M : Less(l, k)}

LEMMA BelowIs ==
    ASSUME NEW M, M \subseteq Strings, IsFiniteSet(M), NEW at \in M
    PROVE  /\ Cardinality(Below(M, at)) \in Nat /\ Cardinality(M) \in Nat
           /\ Cardinality(Below(M, at)) + 1 <= Cardinality(M)
           /\ (\A k \in M : k = at \/ Less(at, k)) => Cardinality(Below(M, at)) = 0
           /\ (\A k \in M : k = at \/ Less(k, at)) => Cardinality(Below(M, at)) + 1 = Cardinality(M)
<1> DEFINE B == Below(M, at)
<1>1. B \subseteq M \ {at} /\ at \in Strings
  BY Irreflexive DEF Below
<1>2. IsFiniteSet(M \ {at}) /\ Cardinality(M \ {at}) = Cardinality(M) - 1
  BY FS_RemoveElement
<1>3. IsFiniteSet(B) /\ Cardinality(B) <= Cardinality(M \ {at})
  BY <1>1, <1>2, FS_Subset
<1>4. Cardinality(B) \in Nat /\ Cardinality(M) \in Nat
  BY <1>3, FS_CardinalityType
<1>5. Cardinality(B) + 1 <= Cardinality(M)
  BY <1>2, <1>3, <1>4
<1>6. ASSUME \A k \in M : k = at \/ Less(at, k) PROVE Cardinality(B) = 0
  <2>1. ASSUME NEW k \in B PROVE FALSE
    <3>1. k \in M /\ k \in Strings /\ Less(k, at)
      BY DEF Below
    <3>2. k = at \/ Less(at, k)
      BY <1>6, <3>1
    <3> QED
      BY <1>1, <3>1, <3>2, Irreflexive, Transitive
  <2> HIDE DEF B
  <2> QED
    BY <2>1, FS_EmptySet
<1>7. ASSUME \A k \in M : k = at \/ Less(k, at) PROVE Cardinality(B) + 1 = Cardinality(M)
  <2>1. B = M \ {at}
    BY <1>1, <1>7 DEF Below
  <2> HIDE DEF B
  <2> QED
    BY <1>2, <1>4, <2>1
<1> HIDE DEF B
<1> QED
  BY <1>4, <1>5, <1>6, <1>7 DEF B

LEMMA BelowNext ==
    ASSUME NEW M, M \subseteq Strings, IsFiniteSet(M), NEW at \in M, NEW next \in M,
           Less(at, next), \A k \in M : Less(k, at) \/ k = at \/ k = next \/ Less(next, k)
    PROVE  Cardinality(Below(M, next)) = Cardinality(Below(M, at)) + 1
<1>1. ASSUME NEW k \in M PROVE Less(k, next) <=> Less(k, at) \/ k = at
  BY Irreflexive, Transitive
<1>2. Below(M, next) = Below(M, at) \cup {at}
  BY <1>1 DEF Below
<1>3. at \notin Below(M, at) /\ Below(M, at) \subseteq M
  BY Irreflexive DEF Below
<1>4. IsFiniteSet(Below(M, at))
  BY <1>3, FS_Subset
<1> QED
  BY <1>2, <1>3, <1>4, FS_AddElement

\* The keys with the prefix of an iterator, and where it is among them.
OnWalk(e) ==
    IF e.valid THEN e.at \in Matching(e) /\ e.walk = Cardinality(Below(Matching(e), e.at)) + 1
               ELSE e.walk = 0

LEMMA MatchingIs ==
    ASSUME NEW e, IsIterator(e)
    PROVE  /\ Matching(e) \subseteq e.snap /\ Matching(e) \subseteq Strings
           /\ IsFiniteSet(Matching(e)) /\ Cardinality(Matching(e)) \in Nat
           /\ \A k \in e.snap : k \in Matching(e) <=> StartsWith(k, e.starts)
           /\ \A k \in Matching(e) : StartsWith(k, e.starts) /\ ~Less(k, e.starts)
           /\ e.valid => e.at \in Matching(e)
<1>1. e.snap \subseteq Strings /\ IsFiniteSet(e.snap) /\ e.starts \in Strings
      /\ (e.valid => e.at \in e.snap /\ StartsWith(e.at, e.starts))
  BY IteratorIs
<1>2. Matching(e) \subseteq e.snap /\ \A k \in e.snap : k \in Matching(e) <=> StartsWith(k, e.starts)
  BY DEF Matching
<1>3. IsFiniteSet(Matching(e)) /\ Cardinality(Matching(e)) \in Nat
  BY <1>1, <1>2, FS_Subset, FS_CardinalityType
<1>4. \A k \in Matching(e) : StartsWith(k, e.starts) /\ ~Less(k, e.starts)
  BY <1>1, <1>2, PrefixIsLeast
<1> QED
  BY <1>1, <1>2, <1>3, <1>4

\* seekLast finds the last key with the prefix, or none that has it.
LEMMA SeekLastIs ==
    ASSUME NEW e, IsIterator(e), e.starts = << >> \/ Bumpable(e.starts), Bumps(e.starts)
    PROVE  LET last == SeekLast(e)
           IN  /\ last \in e.snap \cup {None}
               /\ Matching(e) = {} => last = None \/ ~StartsWith(last, e.starts)
               /\ Matching(e) # {} => /\ last \in Matching(e)
                                      /\ \A k \in Matching(e) : k = last \/ Less(k, last)
<1> DEFINE p == e.starts
           M == Matching(e)
           after == IF p = << >> THEN None ELSE Seek(e.snap, Bump(p))
           first == IF after = None THEN Greatest(e.snap) ELSE after
           S == {k \in e.snap : /\ k = first \/ Less(k, first)
                                /\ StartsWith(k, p) \/ Less(k, p)}
<1>1. /\ e.snap \subseteq Strings /\ IsFiniteSet(e.snap) /\ p \in Strings
      /\ M \subseteq e.snap /\ \A k \in e.snap : k \in M <=> StartsWith(k, p)
      /\ \A k \in M : ~Less(k, p)
  BY IteratorIs, MatchingIs
<1>2. SeekLast(e) = Greatest(S)
  BY DEF SeekLast
<1>3. M \subseteq S
  <2> SUFFICES ASSUME NEW k \in M PROVE k = first \/ Less(k, first)
    BY <1>1
  <2>1. k \in e.snap /\ k \in Strings /\ StartsWith(k, p)
    BY <1>1
  <2>2. CASE after = None
    BY <1>1, <2>1, <2>2, GreatestIs
  <2>3. CASE after # None
    <3>1. p # << >> /\ after = Seek(e.snap, Bump(p))
      BY <2>3
    <3>2. Bump(p) \in Strings /\ Less(k, Bump(p))
      BY <1>1, <2>1, <3>1, BumpIs
    <3>3. after \in e.snap /\ ~Less(after, Bump(p))
      BY <1>1, <2>3, <3>1, <3>2, SeekIs
    <3>4. Less(k, after)
      <4> HIDE DEF after
      <4> QED
        BY <1>1, <2>1, <3>2, <3>3, Total, Transitive
    <3> QED
      BY <2>3, <3>4
  <2> QED
    BY <2>2, <2>3
<1>4. S \subseteq Strings /\ IsFiniteSet(S) /\ S \subseteq e.snap
      /\ \A k \in S : StartsWith(k, p) \/ Less(k, p)
  BY <1>1, FS_Subset
<1> DEFINE g == Greatest(S)
<1> HIDE DEF S, M, p
<1>5. /\ g = None <=> S = {}
      /\ S # {} => g \in S /\ \A l \in S : l = g \/ Less(l, g)
  BY <1>4, GreatestIs
<1> HIDE DEF g
<1>6. g \in e.snap \cup {None}
  BY <1>4, <1>5
<1>7. M = {} => g = None \/ ~StartsWith(g, p)
  BY <1>1, <1>4, <1>5
<1>8. ASSUME M # {} PROVE g \in M /\ \A k \in M : k = g \/ Less(k, g)
  <2>1. PICK m \in M : TRUE
    BY <1>8
  <2>2. /\ g \in S /\ \A k \in M : k = g \/ Less(k, g)
    BY <1>3, <1>5, <2>1
  <2>3. m \in Strings /\ g \in Strings /\ ~Less(m, p) /\ (m = g \/ Less(m, g)) /\ g \in e.snap
    BY <1>1, <1>4, <2>1, <2>2
  <2>4. ~Less(g, p)
    BY <1>1, <2>3, Transitive
  <2>5. StartsWith(g, p)
    BY <1>4, <2>2, <2>4
  <2> QED
    BY <1>1, <2>2, <2>3, <2>5
<1> QED
  BY <1>2, <1>6, <1>7, <1>8 DEF g, M, p

\* ++ goes to the next key with the prefix, or to the end, or to the first one.
LEMMA UpIs ==
    ASSUME NEW e, IsIterator(e), OnWalk(e)
    PROVE  LET i == Increment(e)
           IN  IF i.valid
               THEN /\ i.at \in Matching(e)
                    /\ Walked(e, 1) = Cardinality(Below(Matching(e), i.at)) + 1
               ELSE Walked(e, 1) = 0
<1> DEFINE i == Increment(e)
           M == Matching(e)
           c == Cardinality(M)
           p == e.starts
<1>1. /\ e.snap \subseteq Strings /\ IsFiniteSet(e.snap) /\ p \in Strings /\ e.walk \in Nat
      /\ (e.valid => e.at \in Strings /\ e.at \in M) /\ e.valid \in BOOLEAN
      /\ M \subseteq e.snap /\ M \subseteq Strings /\ IsFiniteSet(M) /\ c \in Nat
      /\ \A k \in e.snap : k \in M <=> StartsWith(k, p)
      /\ \A k \in M : StartsWith(k, p) /\ ~Less(k, p)
  BY IteratorIs, MatchingIs
<1>2. IsIterator(i) /\ i.snap = e.snap /\ i.starts = p
  BY MovedIs
<1>3. (i.valid <=> i.at # None /\ StartsWith(i.at, p)) /\ i.valid \in BOOLEAN
  BY <1>2, IteratorIs
<1>4. Walked(e, 1) = (e.walk + 1) % (c + 1)
  BY DEF Walked
<1>5. IF e.valid THEN e.walk = Cardinality(Below(M, e.at)) + 1 ELSE e.walk = 0
  BY DEF OnWalk
<1> DEFINE to == IF e.valid THEN NextKey(e.snap, e.at) ELSE Seek(e.snap, p)
<1>6. i.at = to
  <2>1. to \in e.snap \cup {None}
    BY <1>1, NextIs, SeekIs
  <2>2. i = At(e, to)
    BY DEF Increment
  <2> HIDE DEF to, i
  <2> QED
    BY <2>1, <2>2, AtIs
<1> HIDE DEF i, M
<1>7. CASE e.valid
  <2> DEFINE n == NextKey(e.snap, e.at)
  <2>1. IF n = None THEN \A k \in e.snap : k = e.at \/ Less(k, e.at)
        ELSE /\ n \in e.snap /\ Less(e.at, n)
             /\ \A k \in e.snap : Less(k, e.at) \/ k = e.at \/ k = n \/ Less(n, k)
    BY <1>1, <1>7, NextIs
  <2>2. i.at = n
    BY <1>6, <1>7
  <2> HIDE DEF n, to
  <2>3. CASE n # None /\ StartsWith(n, p)
    <3>1. n \in M /\ i.valid
      BY <1>1, <1>3, <2>1, <2>2, <2>3
    <3>2. Cardinality(Below(M, n)) = e.walk
      BY <1>1, <1>5, <1>7, <2>1, <2>3, <3>1, BelowNext
    <3>3. e.walk + 1 \in 0 .. c
      BY <1>1, <3>1, <3>2, BelowIs
    <3>4. Walked(e, 1) = e.walk + 1
      BY <1>1, <1>4, <3>3, CycleIs
    <3> QED
      BY <2>2, <3>1, <3>2, <3>4 DEF i, M
  <2>4. CASE ~(n # None /\ StartsWith(n, p))
    <3>1. ASSUME NEW k \in M PROVE k = e.at \/ Less(k, e.at)
      <4> SUFFICES ASSUME k # e.at, ~Less(k, e.at) PROVE FALSE
        OBVIOUS
      <4>1. k \in e.snap /\ k \in Strings /\ StartsWith(k, p)
        BY <1>1
      <4>2. /\ n # None /\ n \in e.snap /\ n \in Strings /\ Less(e.at, n)
            /\ (k = n \/ Less(n, k)) /\ ~StartsWith(n, p)
        BY <1>1, <2>1, <2>4, <4>1
      <4>3. ~Less(n, e.at) /\ ~Less(k, n) /\ StartsWith(e.at, p)
        BY <1>1, <1>7, <4>1, <4>2, Irreflexive, Transitive
      <4> QED
        BY <1>1, <1>7, <4>1, <4>2, <4>3, PrefixIsConvex
    <3>2. e.walk = c
      BY <1>1, <1>5, <1>7, <3>1, BelowIs
    <3>3. Walked(e, 1) = 0 /\ ~i.valid
      BY <1>1, <1>3, <1>4, <2>2, <2>4, <3>2, CycleIs
    <3> QED
      BY <3>3 DEF i
  <2> QED
    BY <2>3, <2>4
<1>8. CASE ~e.valid
  <2> DEFINE s == Seek(e.snap, p)
  <2>1. IF s = None THEN \A k \in e.snap : Less(k, p)
        ELSE /\ s \in e.snap /\ ~Less(s, p)
             /\ \A k \in e.snap : Less(k, p) \/ k = s \/ Less(s, k)
    BY <1>1, SeekIs
  <2>2. i.at = s
    BY <1>6, <1>8
  <2> HIDE DEF s, to
  <2>3. CASE s # None /\ StartsWith(s, p)
    <3>1. s \in M /\ i.valid
      BY <1>1, <1>3, <2>1, <2>2, <2>3
    <3>2. Cardinality(Below(M, s)) = 0
      BY <1>1, <2>1, <2>3, <3>1, BelowIs
    <3>3. 1 \in 0 .. c
      BY <1>1, <3>1, <3>2, BelowIs
    <3>4. Walked(e, 1) = 1
      BY <1>1, <1>4, <1>5, <1>8, <3>3, CycleIs
    <3> QED
      BY <2>2, <3>1, <3>2, <3>4 DEF i, M
  <2>4. CASE ~(s # None /\ StartsWith(s, p))
    <3>1. ASSUME NEW k \in M PROVE FALSE
      <4>1. k \in e.snap /\ k \in Strings /\ StartsWith(k, p) /\ ~Less(k, p)
        BY <1>1
      <4>2. /\ s # None /\ s \in e.snap /\ s \in Strings /\ ~Less(s, p)
            /\ (k = s \/ Less(s, k)) /\ ~StartsWith(s, p)
        BY <1>1, <2>1, <2>4, <4>1
      <4>3. ~Less(k, s) /\ StartsWith(p, p)
        BY <1>1, <4>1, <4>2, Irreflexive, Transitive, PrefixIsLeast
      <4> QED
        BY <1>1, <4>1, <4>2, <4>3, PrefixIsConvex
    <3>2. M = {}
      BY <3>1
    <3>3. c = 0
      BY <3>2, FS_EmptySet
    <3>4. Walked(e, 1) = (0 + 1) % (0 + 1) /\ ~i.valid
      BY <1>3, <1>4, <1>5, <1>8, <2>2, <2>4, <3>3
    <3>5. (0 + 1) % (0 + 1) = 0
      OBVIOUS
    <3> QED
      BY <3>4, <3>5 DEF i
  <2> QED
    BY <2>3, <2>4
<1> QED
  BY <1>1, <1>7, <1>8

\* -- goes to the one before, or to the end, or to the last one.
LEMMA DownIs ==
    ASSUME NEW e, IsIterator(e), OnWalk(e), e.valid \/ Bumpable(e.starts), Bumps(e.starts)
    PROVE  LET i == Decrement(e)
           IN  IF i.valid
               THEN /\ i.at \in Matching(e)
                    /\ Walked(e, -1) = Cardinality(Below(Matching(e), i.at)) + 1
               ELSE Walked(e, -1) = 0
<1> DEFINE i == Decrement(e)
           M == Matching(e)
           c == Cardinality(M)
           p == e.starts
<1>1. /\ e.snap \subseteq Strings /\ IsFiniteSet(e.snap) /\ p \in Strings /\ e.walk \in Nat
      /\ (e.valid => e.at \in Strings /\ e.at \in M) /\ e.valid \in BOOLEAN
      /\ M \subseteq e.snap /\ M \subseteq Strings /\ IsFiniteSet(M) /\ c \in Nat
      /\ \A k \in e.snap : k \in M <=> StartsWith(k, p)
      /\ \A k \in M : StartsWith(k, p) /\ ~Less(k, p)
  BY IteratorIs, MatchingIs
<1>2. IsIterator(i) /\ i.snap = e.snap /\ i.starts = p
  BY MovedIs
<1>3. (i.valid <=> i.at # None /\ StartsWith(i.at, p)) /\ i.valid \in BOOLEAN
  BY <1>2, IteratorIs
<1>4. Walked(e, -1) = (e.walk - 1) % (c + 1)
  <2>1. e.walk + (-1) = e.walk - 1
    BY <1>1
  <2> QED
    BY <2>1 DEF Walked
<1>5. IF e.valid THEN e.walk = Cardinality(Below(M, e.at)) + 1 ELSE e.walk = 0
  BY DEF OnWalk
<1> DEFINE to == IF e.valid THEN PrevKey(e.snap, e.at) ELSE SeekLast(e)
<1>6. i.at = to
  <2>1. to \in e.snap \cup {None}
    <3>1. e.valid => PrevKey(e.snap, e.at) \in e.snap \cup {None}
      BY <1>1, PrevIs
    <3>2. ~e.valid => SeekLast(e) \in e.snap \cup {None}
      BY SeekLastIs
    <3> QED
      BY <1>1, <3>1, <3>2
  <2>2. i = At(e, to)
    BY DEF Decrement
  <2> HIDE DEF to, i
  <2> QED
    BY <2>1, <2>2, AtIs
<1> HIDE DEF i, M
<1>7. CASE e.valid
  <2> DEFINE n == PrevKey(e.snap, e.at)
  <2>1. IF n = None THEN \A k \in e.snap : k = e.at \/ Less(e.at, k)
        ELSE /\ n \in e.snap /\ Less(n, e.at)
             /\ \A k \in e.snap : Less(e.at, k) \/ k = e.at \/ k = n \/ Less(k, n)
    BY <1>1, <1>7, PrevIs
  <2>2. i.at = n
    BY <1>6, <1>7
  <2> HIDE DEF n, to
  <2>3. CASE n # None /\ StartsWith(n, p)
    <3>1. n \in M /\ i.valid
      BY <1>1, <1>3, <2>1, <2>2, <2>3
    <3>2. Cardinality(Below(M, e.at)) = Cardinality(Below(M, n)) + 1
      <4>1. \A k \in M : Less(k, n) \/ k = n \/ k = e.at \/ Less(e.at, k)
        BY <1>1, <2>1, <2>3
      <4> QED
        BY <1>1, <1>7, <2>1, <2>3, <3>1, <4>1, BelowNext
    <3>3. /\ Cardinality(Below(M, n)) + 1 \in 0 .. c
          /\ e.walk - 1 = Cardinality(Below(M, n)) + 1
      BY <1>1, <1>5, <1>7, <3>1, <3>2, BelowIs
    <3>4. Walked(e, -1) = Cardinality(Below(M, n)) + 1
      BY <1>1, <1>4, <3>3, CycleIs
    <3> QED
      BY <2>2, <3>1, <3>4 DEF i, M
  <2>4. CASE ~(n # None /\ StartsWith(n, p))
    <3>1. ASSUME NEW k \in M PROVE k = e.at \/ Less(e.at, k)
      <4> SUFFICES ASSUME k # e.at, ~Less(e.at, k) PROVE FALSE
        OBVIOUS
      <4>1. k \in e.snap /\ k \in Strings /\ StartsWith(k, p)
        BY <1>1
      <4>2. /\ n # None /\ n \in e.snap /\ n \in Strings /\ Less(n, e.at)
            /\ (k = n \/ Less(k, n)) /\ ~StartsWith(n, p)
        BY <1>1, <2>1, <2>4, <4>1
      <4>3. ~Less(n, k) /\ ~Less(e.at, n) /\ StartsWith(e.at, p)
        BY <1>1, <1>7, <4>1, <4>2, Irreflexive, Transitive
      <4> QED
        BY <1>1, <1>7, <4>1, <4>2, <4>3, PrefixIsConvex
    <3>2. Cardinality(Below(M, e.at)) = 0
      BY <1>1, <1>7, <3>1, BelowIs
    <3>3. e.walk - 1 = 0 /\ 0 \in 0 .. c
      BY <1>1, <1>5, <1>7, <3>2
    <3>4. Walked(e, -1) = 0 /\ ~i.valid
      BY <1>1, <1>3, <1>4, <2>2, <2>4, <3>3, CycleIs
    <3> QED
      BY <3>4 DEF i
  <2> QED
    BY <2>3, <2>4
<1>8. CASE ~e.valid
  <2> DEFINE s == SeekLast(e)
  <2>1. /\ M = {} => s = None \/ ~StartsWith(s, p)
        /\ M # {} => s \in M /\ \A k \in M : k = s \/ Less(k, s)
    BY <1>8, SeekLastIs DEF M
  <2>2. i.at = s
    BY <1>6, <1>8
  <2> HIDE DEF s, to
  <2>3. Walked(e, -1) = c
    BY <1>1, <1>4, <1>5, <1>8, CycleIs
  <2>4. CASE M = {}
    <3>1. c = 0 /\ ~i.valid
      BY <1>3, <2>1, <2>2, <2>4, FS_EmptySet
    <3> QED
      BY <2>3, <3>1 DEF i
  <2>5. CASE M # {}
    <3>1. s \in M /\ \A k \in M : k = s \/ Less(k, s)
      BY <2>1, <2>5
    <3>2. s # None
      BY <1>1, <3>1, StringIs
    <3>3. i.valid
      BY <1>1, <1>3, <2>2, <3>1, <3>2
    <3>4. Cardinality(Below(M, s)) + 1 = c
      BY <1>1, <3>1, BelowIs
    <3> QED
      BY <2>2, <2>3, <3>1, <3>3, <3>4 DEF i, M
  <2> QED
    BY <2>4, <2>5
<1> QED
  BY <1>1, <1>7, <1>8

Walks == pc = "walking" => OnWalk(it)

LEMMA WalksKept ==
    ASSUME \A p \in Starts : Bumps(p), Shape, Walks, [Next]_vars
    PROVE  Walks'
<1> SUFFICES ASSUME pc' = "walking" PROVE OnWalk(it')
  BY DEF Walks, OnWalk, Matching, Below
<1>1. ASSUME UNCHANGED <<pc, it>> PROVE OnWalk(it')
  BY <1>1 DEF Walks
<1>2. ASSUME NEW p \in Starts, OpenPrefix(p) PROVE OnWalk(it')
  <2> DEFINE e == Entry(p)
             o == At(e, Seek(e.snap, p))
             w == IF o.valid THEN 1 ELSE 0
  <2>1. db \subseteq Keys /\ IsFiniteSet(db) /\ p \in Strings /\ db \subseteq Strings
    BY LdbAssumption DEF Shape
  <2>2. IsIterator(e) /\ e.snap = db /\ e.at = None /\ e.starts = p /\ e.walk = 0 /\ ~e.valid
    BY <2>1, EntryIs
  <2>3. it' = [o EXCEPT !.walk = w]
    BY <1>2 DEF OpenPrefix
  <2>4. o = Increment(e)
    BY <2>2 DEF Increment
  <2> HIDE DEF e, o
  <2>5. OnWalk(e)
    BY <2>2 DEF OnWalk
  <2>6. /\ IsIterator(o) /\ o.snap = e.snap /\ o.starts = e.starts
        /\ IF o.valid THEN /\ o.at \in Matching(e)
                           /\ Walked(e, 1) = Cardinality(Below(Matching(e), o.at)) + 1
                      ELSE Walked(e, 1) = 0
    BY <2>2, <2>4, <2>5, MovedIs, UpIs
  <2>7. o.valid => Walked(e, 1) = 1
    <3>1. Walked(e, 1) = 1 % (Cardinality(Matching(e)) + 1)
      BY <2>2 DEF Walked
    <3>2. ASSUME o.valid PROVE 1 \in 0 .. Cardinality(Matching(e))
      <4>1. /\ Matching(e) \subseteq Strings /\ IsFiniteSet(Matching(e)) /\ o.at \in Matching(e)
        BY <2>2, <2>6, <3>2, MatchingIs
      <4>2. /\ Cardinality(Below(Matching(e), o.at)) \in Nat /\ Cardinality(Matching(e)) \in Nat
            /\ Cardinality(Below(Matching(e), o.at)) + 1 <= Cardinality(Matching(e))
        BY <4>1, BelowIs
      <4> QED
        BY <4>2
    <3> QED
      BY <2>2, <3>1, <3>2, MatchingIs, CycleIs
  <2>8. w \in Nat
    OBVIOUS
  <2>9. o.valid \in BOOLEAN
    BY <2>6, IteratorIs
  <2>10. /\ it'.snap = o.snap /\ it'.at = o.at /\ it'.starts = o.starts
         /\ it'.valid = o.valid /\ it'.walk = w
    <3> HIDE DEF w
    <3> QED
      BY <2>3, <2>6, <2>8, WalkIs
  <2>11. Matching(it') = Matching(e)
    BY <2>6, <2>10 DEF Matching
  <2> QED
    BY <2>6, <2>7, <2>9, <2>10, <2>11 DEF OnWalk
<1>3. ASSUME NEW d \in {1, -1}, Walk(d) PROVE OnWalk(it')
  <2> DEFINE i == IF d = 1 THEN Increment(it) ELSE Decrement(it)
             w == Walked(it, d)
  <2>1. /\ pc = "walking" /\ IsIterator(it) /\ OnWalk(it) /\ it.starts \in Starts
        /\ (d = 1 \/ it.valid \/ Bumpable(it.starts)) /\ Bumps(it.starts)
        /\ it' = [i EXCEPT !.walk = w]
    BY <1>3 DEF Walk, Shape, Walks
  <2>2. /\ IsIterator(i) /\ i.snap = it.snap /\ i.starts = it.starts
    BY <2>1, MovedIs
  <2>3. IF i.valid THEN i.at \in Matching(it) /\ w = Cardinality(Below(Matching(it), i.at)) + 1
                   ELSE w = 0
    BY <2>1, UpIs, DownIs
  <2>4. w \in Nat
    <3>1. i.valid \in BOOLEAN
      BY <2>2, IteratorIs
    <3>2. i.valid => Cardinality(Below(Matching(it), i.at)) \in Nat
      BY <2>1, <2>3, MatchingIs, BelowIs
    <3> HIDE DEF i, w
    <3> QED
      BY <2>3, <3>1, <3>2
  <2> HIDE DEF i, w
  <2>5. /\ it'.snap = i.snap /\ it'.at = i.at /\ it'.starts = i.starts
        /\ it'.valid = i.valid /\ it'.walk = w
    BY <2>1, <2>2, <2>4, WalkIs
  <2>6. Matching(it') = Matching(it)
    BY <2>2, <2>5 DEF Matching
  <2> QED
    BY <2>3, <2>5, <2>6 DEF OnWalk
<1>4. ASSUME NEW n \in 1 .. MaxBatch, NEW batch \in [1 .. n -> Operations], Write(batch)
      PROVE  OnWalk(it')
  BY <1>1, <1>4 DEF Write
<1> QED
  BY <1>1, <1>2, <1>3, <1>4
  DEF Next, WalkOut, OpenFrom, OpenTill, OpenAll, Loop, Close, vars

\* ++ and -- go through the keys with a prefix, in order and through the end, for
\* any keys and for every prefix whose character that is incremented is not the
\* greatest one (ldb.hpp:223-248, test_ldb.cc:119-134).
THEOREM PrefixesAreWalked ==
    ASSUME \A p \in Starts : Bumps(p)
    PROVE  Spec => []WalksPrefix
<1>1. Init => Shape /\ Walks
  BY InitShape DEF Init, Walks
<1>2. Shape /\ Walks /\ [Next]_vars => Shape' /\ Walks'
  BY ShapeKept, WalksKept
<1>3. Shape /\ Walks => WalksPrefix
  BY DEF Walks, OnWalk, WalksPrefix, Below
<1> QED
  BY <1>1, <1>2, <1>3, PTL DEF Spec
=============================================================================
