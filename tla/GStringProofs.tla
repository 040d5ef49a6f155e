--------------------------- MODULE GStringProofs ---------------------------
(* Who owns the buffers of GString, that nothing is outside of them, and that*)
(* strings are values, for any strings, blocks, bytes and numbers.          *)
EXTENDS GString, FiniteSetTheorems, WellFoundedInduction, TLAPS

\* A string has the fields of one.
Shape(s) ==
    /\ s = [free |-> s.free, ref |-> s.ref, power |-> s.power, len |-> s.len,
            at |-> s.at, off |-> s.off]
    /\ s.free \in BOOLEAN

\* What a string owns.
Owns(s) == IF NeedsFreeing(s) THEN {s.at} ELSE {}

Shapes == Alive \subseteq Names /\ \A n \in Alive : Shape(str[n])
Fixed == /\ Stacks \cup Literals \subseteq DOMAIN mem
         /\ DOMAIN mem \subseteq Blocks \cup Stacks \cup Literals
\* Buffers are in memory that is allocated.
Placed == \A n \in Alive : str[n].at = Null \/ str[n].at \in DOMAIN mem

IInv == Shapes /\ Fixed /\ Placed /\ OneOwner /\ NoLeak

\* The string n becomes s, which frees what n owned and takes what it owns.
Becomes(n, s) ==
    LET old == IF n \in Alive THEN Owns(str[n]) ELSE {}
    IN  /\ str' = Put(str, n, s) /\ Shape(s)
        /\ Owns(s) \subseteq Blocks
        /\ NeedsFreeing(s) => s.off = 0
        /\ DOMAIN mem' = (DOMAIN mem \ old) \cup Owns(s)
        /\ Owns(s) \cap (DOMAIN mem \ old) = {}
        /\ old = Owns(s) \/ \A m \in Alive \ {n} : str[m].at \notin old
        /\ s.at = Null \/ s.at \in DOMAIN mem'

LEMMA BecomesKeeps ==
  ASSUME IInv, GStringAssumption, NEW n \in Names, NEW s, Becomes(n, s)
  PROVE  IInv'
<1> DEFINE old == IF n \in Alive THEN Owns(str[n]) ELSE {}
<1>1. /\ DOMAIN str' = Alive \cup {n}
      /\ str'[n] = s
      /\ \A m \in Alive \ {n} : str'[m] = str[m]
  <2>1. str' = Put(str, n, s)
    BY DEF Becomes
  <2> QED
    BY <2>1 DEF Put, Alive
<1>2. old \subseteq Blocks /\ old \subseteq DOMAIN mem
  BY DEF IInv, OneOwner, Owns, Heap
<1>3. \A m \in Alive \ {n} : NeedsFreeing(str[m]) => str[m].at \notin old
  BY DEF IInv, OneOwner, Owns
<1>4. Shapes'
  BY <1>1 DEF Shapes, IInv, Becomes, Alive
<1>5. Fixed'
  BY <1>2 DEF Fixed, IInv, Becomes, GStringAssumption
<1>6. Placed'
  <2> SUFFICES ASSUME NEW m \in Alive', str'[m].at # Null PROVE str'[m].at \in DOMAIN mem'
    BY DEF Placed
  <2>1. CASE m = n
    BY <2>1, <1>1 DEF Becomes
  <2>2. CASE m # n
    <3>1. m \in Alive \ {n} /\ str'[m] = str[m] /\ str[m].at \in DOMAIN mem
      BY <2>2, <1>1 DEF Alive, IInv, Placed
    <3> QED
      BY <3>1 DEF Becomes
  <2> QED
    BY <2>1, <2>2
<1>7. OneOwner'
  <2>1. \A m \in Alive \ {n} : NeedsFreeing(str[m]) => str[m].at \in DOMAIN mem \ old
    BY <1>3 DEF IInv, OneOwner, Heap
  <2>2. NeedsFreeing(s) => s.at \in DOMAIN mem' \cap Blocks /\ s.at \notin DOMAIN mem \ old
    BY DEF Becomes, Owns
  <2>3. \A m \in Alive \ {n} : NeedsFreeing(str[m]) =>
           /\ str[m].at \in DOMAIN mem' \cap Blocks /\ str[m].off = 0
           /\ \A k \in Alive \ {n, m} : NeedsFreeing(str[k]) => str[k].at # str[m].at
    BY <2>1 DEF IInv, OneOwner, Heap, Becomes
  <2> QED
    BY <1>1, <2>1, <2>2, <2>3 DEF OneOwner, Heap, Alive, NeedsFreeing, Becomes
<1>8. NoLeak'
  <2> SUFFICES ASSUME NEW b \in Heap' PROVE \E m \in Alive' : str'[m].free /\ str'[m].at = b
    BY DEF NoLeak
  <2>1. CASE b \in Owns(s)
    BY <2>1, <1>1 DEF Owns, NeedsFreeing, Alive
  <2>2. CASE b \notin Owns(s)
    <3>1. b \in Heap \ old
      BY <2>2 DEF Becomes, Heap
    <3>2. PICK m \in Alive : str[m].free /\ str[m].at = b
      BY <3>1 DEF IInv, NoLeak
    <3>3. m # n
      <4> SUFFICES ASSUME m = n PROVE FALSE
        OBVIOUS
      <4>1. b # Null
        BY DEF Heap, GStringAssumption
      <4> QED
        BY <4>1, <3>1, <3>2 DEF Owns, NeedsFreeing
    <3> QED
      BY <3>2, <3>3, <1>1 DEF Alive
  <2> QED
    BY <2>1, <2>2
<1> QED
  BY <1>4, <1>5, <1>6, <1>7, <1>8 DEF IInv

\* What FREE_FLAG means for a string that is not changed in who owns it.
LEMMA Unfreed ==
  ASSUME IInv, GStringAssumption, NEW n \in Alive, NEW s, Shape(s),
         s.free = str[n].free, s.at = str[n].at, s.off = str[n].off,
         str' = Put(str, n, s), DOMAIN mem' = DOMAIN mem
  PROVE  IInv'
<1>1. Owns(s) = Owns(str[n]) /\ Owns(s) \subseteq DOMAIN mem \cap Blocks
  BY DEF Owns, NeedsFreeing, IInv, OneOwner, Heap
<1>2. NeedsFreeing(s) => s.off = 0
  BY DEF NeedsFreeing, IInv, OneOwner
<1>3. s.at = Null \/ s.at \in DOMAIN mem
  BY DEF IInv, Placed
<1>4. Becomes(n, s)
  BY <1>1, <1>2, <1>3 DEF Becomes
<1> QED
  BY <1>4, BecomesKeeps DEF IInv, Shapes

\* A string that nobody has to free, in memory that is there.
LEMMA Borrows ==
  ASSUME IInv, GStringAssumption, NEW n \in Names, NEW s, Shape(s), ~NeedsFreeing(s),
         s.at = Null \/ s.at \in DOMAIN mem,
         n \in Alive => ~str[n].free,
         str' = Put(str, n, s), mem' = mem
  PROVE  IInv'
<1>1. Owns(s) = {} /\ (n \in Alive => Owns(str[n]) = {})
  BY DEF Owns, NeedsFreeing, IInv, Shapes
<1>2. Becomes(n, s)
  BY <1>1 DEF Becomes
<1> QED
  BY <1>2, BecomesKeeps

\* A string whose own buffer, if it had one, is freed for a malloced one.
LEMMA Mallocs ==
  ASSUME IInv, GStringAssumption, NEW n \in Names, NEW s, Shape(s), s.free, s.off = 0,
         n \in Alive => Undisturbed(n),
         NEW m, m = IF n \in Alive THEN Freed(str[n]) ELSE mem,
         s.at \in Free(m),
         str' = Put(str, n, s), DOMAIN mem' = DOMAIN m \cup {s.at}
  PROVE  IInv'
<1> DEFINE old == IF n \in Alive THEN Owns(str[n]) ELSE {}
<1>1. DOMAIN m = DOMAIN mem \ old
  BY DEF Freed, Drop, Owns
<1>2. Owns(s) = {s.at} /\ s.at \in Blocks /\ s.at \notin DOMAIN m
  BY DEF Owns, NeedsFreeing, Free, GStringAssumption
<1>3. \A k \in Alive \ {n} : str[k].at \notin old
  BY DEF Owns, Undisturbed, Shared, NeedsFreeing
<1>4. Becomes(n, s)
  BY <1>1, <1>2, <1>3 DEF Becomes
<1> QED
  BY <1>4, BecomesKeeps

LEMMA WriteDomain == ASSUME NEW m, NEW s, NEW pos, NEW v PROVE DOMAIN Write(m, s, pos, v) = DOMAIN m
  BY DEF Write

\* reserve leaves the string as it is, or mallocs.
LEMMA ReservedIs ==
  ASSUME NEW s, Shape(s), NEW to, NEW r \in Reserved(s, to)
  PROVE  /\ Shape(r.s)
         /\ \/ r.s = s /\ r.mem = mem
            \/ /\ r.s.free /\ r.s.off = 0 /\ r.s.at \in Free(Freed(s))
               /\ DOMAIN r.mem = DOMAIN Freed(s) \cup {r.s.at}
<1> DEFINE p == PowerFor(s.power, to)
           kept == IF s.at = Null THEN << >> ELSE IF s.free THEN mem[s.at] ELSE Bytes(s, mem)
           moved == [i \in 1 .. 2 ^ p |-> IF i <= Len(kept) THEN kept[i] ELSE Junk]
<1>1. CASE p = s.power /\ p > 0
  <2>1. Reserved(s, to) = {[s |-> s, mem |-> mem]}
    BY <1>1 DEF Reserved
  <2> QED
    BY <2>1
<1>2. CASE ~(p = s.power /\ p > 0)
  <2>1. PICK b \in Free(Freed(s)) :
           r = [s |-> [s EXCEPT !.power = p, !.free = TRUE, !.at = b, !.off = 0],
                mem |-> Put(Freed(s), b, moved)]
    BY <1>2 DEF Reserved
  <2>2. DOMAIN r.mem = DOMAIN Freed(s) \cup {b}
    <3> HIDE DEF moved
    <3> QED
      BY <2>1 DEF Put
  <2>3. r.s = [s EXCEPT !.power = p, !.free = TRUE, !.at = b, !.off = 0]
    BY <2>1
  <2> HIDE DEF p
  <2>4. r.s.at = b /\ r.s.free /\ r.s.off = 0 /\ Shape(r.s)
    BY <2>3 DEF Shape
  <2> QED
    BY <2>2, <2>4
<1> QED
  BY <1>1, <1>2

\* Whatever grows by reserve.
LEMMA Grows ==
  ASSUME IInv, GStringAssumption, NEW n \in Alive, Undisturbed(n),
         NEW s, Shape(s), s.free = str[n].free, s.at = str[n].at, s.off = str[n].off,
         NEW to, NEW r \in Reserved(s, to),
         NEW t, Shape(t), t.free = r.s.free, t.at = r.s.at, t.off = r.s.off,
         str' = Put(str, n, t), DOMAIN mem' = DOMAIN r.mem
  PROVE  IInv'
<1>1. CASE r.s = s /\ r.mem = mem
  BY <1>1, Unfreed
<1>2. CASE /\ r.s.free /\ r.s.off = 0 /\ r.s.at \in Free(Freed(s))
           /\ DOMAIN r.mem = DOMAIN Freed(s) \cup {r.s.at}
  <2>1. Freed(s) = Freed(str[n])
    BY DEF Freed, NeedsFreeing
  <2>2. n \in Names
    BY DEF IInv, Shapes
  <2> QED
    BY <1>2, <2>1, <2>2, Mallocs
<1> QED
  BY <1>1, <1>2, ReservedIs

LEMMA Extends ==
  ASSUME IInv, GStringAssumption, NEW n \in Alive, Undisturbed(n),
         NEW s, Shape(s), s.free = str[n].free, s.at = str[n].at, s.off = str[n].off,
         NEW to, NEW r \in Reserved(s, to), NEW v, NEW terminated \in BOOLEAN,
         Extend(n, s, r, v, terminated)
  PROVE  IInv'
<1> DEFINE t == [r.s EXCEPT !.len = (s.len + Len(v)) % 2 ^ LengthBits]
<1>1. Shape(r.s)
  BY ReservedIs
<1>2. Shape(t) /\ t.free = r.s.free /\ t.at = r.s.at /\ t.off = r.s.off
  <2> DEFINE len == (s.len + Len(v)) % 2 ^ LengthBits
  <2> HIDE DEF len
  <2> QED
    BY <1>1 DEF Shape
<1>3. str' = Put(str, n, t) /\ DOMAIN mem' = DOMAIN r.mem
  BY WriteDomain DEF Extend
<1> HIDE DEF t
<1> QED
  BY <1>2, <1>3, Grows
-----------------------------------------------------------------------------
(* The calls.                                                                *)

\* The changes that are made to strings leave them strings.
LEMMA Reset ==
  ASSUME NEW e, Shape(e), NEW x, NEW b \in BOOLEAN
  PROVE  /\ Shape([e EXCEPT !.ref = x])
         /\ Shape([e EXCEPT !.power = x])
         /\ Shape([e EXCEPT !.len = x])
         /\ Shape([e EXCEPT !.at = x])
         /\ Shape([e EXCEPT !.off = x])
         /\ Shape([e EXCEPT !.free = b])
<1>1. Shape([e EXCEPT !.ref = x])
  BY DEF Shape
<1>2. Shape([e EXCEPT !.power = x])
  BY DEF Shape
<1>3. Shape([e EXCEPT !.len = x])
  BY DEF Shape
<1>4. Shape([e EXCEPT !.at = x])
  BY DEF Shape
<1>5. Shape([e EXCEPT !.off = x])
  BY DEF Shape
<1>6. Shape([e EXCEPT !.free = b])
  BY DEF Shape
<1> QED
  BY <1>1, <1>2, <1>3, <1>4, <1>5, <1>6

LEMMA Reshaped ==
  ASSUME NEW e, Shape(e), NEW ref, NEW power, NEW len, NEW at, NEW off
  PROVE  /\ Shape([e EXCEPT !.len = len])
         /\ Shape([e EXCEPT !.free = TRUE])
         /\ Shape([e EXCEPT !.free = TRUE, !.ref = ref, !.len = len])
         /\ Shape([e EXCEPT !.power = power, !.at = at])
         /\ Shape([e EXCEPT !.ref = ref, !.len = len, !.at = at])
         /\ Shape([e EXCEPT !.ref = ref, !.len = len, !.at = at, !.off = off])
<1> DEFINE f == [e EXCEPT !.free = TRUE]
           fr == [f EXCEPT !.ref = ref]
           p == [e EXCEPT !.power = power]
           r == [e EXCEPT !.ref = ref]
           l == [r EXCEPT !.len = len]
           a == [l EXCEPT !.at = at]
<1>1. Shape(f) /\ Shape(p) /\ Shape(r) /\ Shape([e EXCEPT !.len = len])
  BY Reset
<1>2. Shape(fr) /\ Shape(l)
  <2> HIDE DEF f, r
  <2> QED
    BY <1>1, Reset
<1>3. Shape(a)
  <2> HIDE DEF l
  <2> QED
    BY <1>2, Reset
<1>4. Shape([fr EXCEPT !.len = len]) /\ Shape([p EXCEPT !.at = at]) /\ Shape([a EXCEPT !.off = off])
  <2> HIDE DEF fr, p, a
  <2> QED
    BY <1>1, <1>2, <1>3, Reset
<1> QED
  BY <1>1, <1>3, <1>4

\* An assignment to a field, as a Put.
LEMMA Relength ==
  ASSUME NEW n \in Alive, NEW len
  PROVE  [str EXCEPT ![n].len = len] = Put(str, n, [str[n] EXCEPT !.len = len])
<1> DEFINE s == [str[n] EXCEPT !.len = len]
<1> HIDE DEF s
<1>1. DOMAIN str \cup {n} = DOMAIN str
  BY DEF Alive
<1>2. [str EXCEPT ![n] = s] = Put(str, n, s)
  BY <1>1 DEF Put
<1> QED
  BY <1>2 DEF s

LEMMA EmptyShape == Shape(Empty) /\ ~Empty.free /\ Empty.at = Null /\ Empty.off = 0
  BY DEF Shape, Empty

LEMMA MallocedShape ==
  ASSUME NEW v, NEW b
  PROVE  /\ Shape(Malloced(v, b)) /\ Malloced(v, b).free
         /\ Malloced(v, b).at = b /\ Malloced(v, b).off = 0
<1> DEFINE len == Len(v)
<1> HIDE DEF len
<1>1. Malloced(v, b) = [Empty EXCEPT !.free = TRUE, !.len = len, !.at = b]
  BY DEF Malloced, len
<1> QED
  BY <1>1, EmptyShape DEF Shape

LEMMA InitIInv == ASSUME Init, GStringAssumption PROVE IInv
<1>1. Alive = {}
  BY DEF Init, Alive
<1> QED
  BY <1>1 DEF Init, IInv, Shapes, Fixed, Placed, OneOwner, NoLeak, Heap, GStringAssumption

LEMMA FromCharsKeeps ==
  ASSUME IInv, GStringAssumption, NEW n \in Names, NEW v, FromChars(n, v)
  PROVE  IInv'
<1>1. CASE v = << >>
  <2> DEFINE s == [Empty EXCEPT !.free = TRUE]
  <2>1. s.at = Null /\ Shape(s)
    BY EmptyShape, Reshaped DEF Empty
  <2>2. ~NeedsFreeing(s)
    BY <2>1 DEF NeedsFreeing
  <2>3. str' = Put(str, n, s) /\ mem' = mem /\ n \notin Alive
    BY <1>1 DEF FromChars
  <2> HIDE DEF s
  <2> QED
    BY <2>1, <2>2, <2>3, Borrows
<1>2. CASE v # << >>
  <2>1. PICK b \in Free(mem) : str' = Put(str, n, Malloced(v, b)) /\ mem' = Put(mem, b, v)
    BY <1>2 DEF FromChars
  <2>2. DOMAIN mem' = DOMAIN mem \cup {b} /\ n \notin Alive
    BY <2>1 DEF Put, FromChars
  <2> QED
    BY <2>1, <2>2, MallocedShape, Mallocs
<1> QED
  BY <1>1, <1>2

\* What is moved takes its buffer along; what was in its place is freed.
LEMMA Moves ==
  ASSUME IInv, GStringAssumption, NEW n \in Names, NEW m \in Alive, n # m,
         n \in Alive => Undisturbed(n),
         str' = Put(Put(str, m, Empty), n, str[m]),
         mem' = IF n \in Alive THEN Freed(str[n]) ELSE mem
  PROVE  IInv'
<1> DEFINE old == IF n \in Alive THEN Owns(str[n]) ELSE {}
<1>1. /\ Alive' = Alive \cup {n}
      /\ str'[n] = str[m] /\ str'[m] = Empty
      /\ \A k \in Alive \ {n, m} : str'[k] = str[k]
  BY DEF Put, Alive
<1>2. DOMAIN mem' = DOMAIN mem \ old
  BY DEF Freed, Drop, Owns
<1>3. \A k \in Alive \ {n} : str[k].at \notin old
  BY DEF Owns, Undisturbed, Shared, NeedsFreeing
<1>4. Shapes' /\ Fixed'
  <2>1. old \subseteq Blocks
    BY DEF Owns, IInv, OneOwner, Heap
  <2>2. Fixed'
    BY <2>1, <1>2 DEF IInv, Fixed, GStringAssumption
  <2>3. Shapes'
    BY <1>1, EmptyShape DEF IInv, Shapes
  <2> QED
    BY <2>2, <2>3
<1>5. Placed'
  BY <1>1, <1>2, <1>3, EmptyShape DEF IInv, Placed
<1>6. OneOwner'
  <2>1. \A k \in Alive \ {n} : NeedsFreeing(str[k]) => str[k].at \in DOMAIN mem' \cap Blocks
    BY <1>2, <1>3 DEF IInv, OneOwner, Heap
  <2>2. ~NeedsFreeing(Empty)
    BY EmptyShape DEF NeedsFreeing
  <2>3. \A j, k \in Alive \ {n} : j # k /\ NeedsFreeing(str[j]) /\ NeedsFreeing(str[k]) =>
           str[j].at # str[k].at /\ str[j].off = 0 /\ str[k].off = 0
    BY DEF IInv, OneOwner
  <2>4. \A k \in Alive \ {n} : NeedsFreeing(str[k]) => str[k].off = 0
    BY DEF IInv, OneOwner
  <2> QED
    BY <1>1, <2>1, <2>2, <2>3, <2>4 DEF OneOwner, Heap, NeedsFreeing
<1>7. NoLeak'
  <2> SUFFICES ASSUME NEW b \in Heap' PROVE \E k \in Alive' : str'[k].free /\ str'[k].at = b
    BY DEF NoLeak
  <2>1. b \in Heap /\ b \notin old
    BY <1>2 DEF Heap
  <2>2. PICK k \in Alive : str[k].free /\ str[k].at = b
    BY <2>1 DEF IInv, NoLeak
  <2>3. k # n
    BY <2>1, <2>2 DEF Owns, NeedsFreeing, Heap, GStringAssumption
  <2>4. CASE k = m
    BY <2>2, <2>4, <1>1
  <2>5. CASE k # m
    BY <2>2, <2>3, <2>5, <1>1
  <2> QED
    BY <2>4, <2>5
<1> QED
  BY <1>4, <1>5, <1>6, <1>7 DEF IInv

LEMMA DestroyKeeps ==
  ASSUME IInv, GStringAssumption, NEW n \in Alive, Destroy(n)
  PROVE  IInv'
<1>1. /\ Alive' = Alive \ {n}
      /\ \A k \in Alive \ {n} : str'[k] = str[k]
  BY DEF Destroy, Drop, Alive
<1>2. DOMAIN mem' = DOMAIN mem \ Owns(str[n])
  BY DEF Destroy, Freed, Drop, Owns
<1>3. \A k \in Alive \ {n} : str[k].at \notin Owns(str[n])
  BY DEF Owns, Destroy, Undisturbed, Shared, NeedsFreeing
<1>4. Shapes' /\ Placed'
  BY <1>1, <1>2, <1>3 DEF IInv, Shapes, Placed
<1>5. Fixed'
  <2>1. Owns(str[n]) \subseteq Blocks
    BY DEF Owns, IInv, OneOwner, Heap
  <2> QED
    BY <2>1, <1>2 DEF IInv, Fixed, GStringAssumption
<1>6. OneOwner'
  BY <1>1, <1>2, <1>3 DEF IInv, OneOwner, Heap, NeedsFreeing
<1>7. NoLeak'
  <2> SUFFICES ASSUME NEW b \in Heap' PROVE \E k \in Alive' : str'[k].free /\ str'[k].at = b
    BY DEF NoLeak
  <2>1. b \in Heap /\ b \notin Owns(str[n])
    BY <1>2 DEF Heap
  <2>2. PICK k \in Alive : str[k].free /\ str[k].at = b
    BY <2>1 DEF IInv, NoLeak
  <2>3. k # n
    BY <2>1, <2>2 DEF Owns, NeedsFreeing, Heap, GStringAssumption
  <2> QED
    BY <2>2, <2>3, <1>1
<1> QED
  BY <1>4, <1>5, <1>6, <1>7 DEF IInv

\* Constructors and views.
LEMMA ConstructKeeps ==
  ASSUME IInv, GStringAssumption, Habits = {}, NEW n \in Names, Construct(n)
  PROVE  IInv'
<1>1. CASE Default(n)
  BY <1>1, EmptyShape, Borrows DEF Default, NeedsFreeing
<1>2. ASSUME NEW v, FromChars(n, v) PROVE IInv'
  BY <1>2, FromCharsKeeps
<1>3. ASSUME NEW b \in Stacks, OnStack(n, b) PROVE IInv'
  <2>1. PICK p : str' = Put(str, n, [Empty EXCEPT !.power = p, !.at = b])
    BY <1>3 DEF OnStack
  <2> DEFINE s == [Empty EXCEPT !.power = p, !.at = b]
  <2>2. ~s.free /\ s.at = b
    BY DEF Empty
  <2>0. Shape(s)
    BY EmptyShape, Reshaped
  <2>3. b \in DOMAIN mem /\ mem' = mem /\ n \notin Alive
    BY <1>3 DEF OnStack, IInv, Fixed
  <2>4. str' = Put(str, n, s)
    BY <2>1
  <2> HIDE DEF s
  <2> QED
    BY <2>0, <2>2, <2>3, <2>4, Borrows DEF NeedsFreeing
<1>4. ASSUME NEW l \in Literals, Literal(n, l) PROVE IInv'
  <2> DEFINE len == Len(mem[l])
             s == [Empty EXCEPT !.ref = TRUE, !.len = len, !.at = l]
  <2> HIDE DEF len
  <2>2. ~s.free /\ s.at = l
    BY DEF Empty
  <2>0. Shape(s)
    BY EmptyShape, Reshaped
  <2>3. l \in DOMAIN mem /\ mem' = mem /\ n \notin Alive /\ str' = Put(str, n, s)
    BY <1>4 DEF Literal, IInv, Fixed, len
  <2> HIDE DEF s
  <2> QED
    BY <2>0, <2>2, <2>3, Borrows DEF NeedsFreeing
<1>5. ASSUME NEW m \in Alive, Clone(n, m) PROVE IInv'
  BY <1>5, FromCharsKeeps DEF Clone
<1>6. ASSUME NEW m \in Alive, Copy(n, m) PROVE IInv'
  <2>1. n \notin Alive
    BY <1>6 DEF Copy
  <2>2. CASE str' = Put(str, n, Empty) /\ mem' = mem
    BY <2>1, <2>2, EmptyShape, Borrows DEF NeedsFreeing
  <2>3. CASE str[m].ref /\ str' = Put(str, n, str[m]) /\ mem' = mem
    <3>1. ~str[m].free
      BY <2>3, <1>6 DEF Copy
    <3>2. Shape(str[m]) /\ (str[m].at = Null \/ str[m].at \in DOMAIN mem)
      BY DEF IInv, Shapes, Placed
    <3> QED
      BY <2>1, <2>3, <3>1, <3>2, Borrows DEF NeedsFreeing
  <2>4. ASSUME NEW b \in Free(mem), str' = Put(str, n, Malloced(Content(m), b)),
               mem' = Put(mem, b, Content(m))
        PROVE  IInv'
    <3>1. DOMAIN mem' = DOMAIN mem \cup {b}
      BY <2>4 DEF Put
    <3> QED
      BY <2>1, <2>4, <3>1, MallocedShape, Mallocs
  <2> QED
    BY <1>6, <2>2, <2>3, <2>4 DEF Copy
<1>7. ASSUME NEW m \in Alive, MoveCtor(n, m) PROVE IInv'
  BY <1>7, Moves DEF MoveCtor
<1>8. ASSUME NEW m \in Alive, RefOf(n, m) PROVE IInv'
  <2> DEFINE s == [Empty EXCEPT !.ref = TRUE, !.len = str[m].len, !.at = str[m].at, !.off = str[m].off]
  <2>1. ~s.free /\ s.at = str[m].at
    BY DEF Empty
  <2>0. Shape(s)
    BY EmptyShape, Reshaped
  <2>2. str' = Put(str, n, s) /\ mem' = mem /\ n \notin Alive
    BY <1>8 DEF RefOf
  <2>3. str[m].at = Null \/ str[m].at \in DOMAIN mem
    BY DEF IInv, Placed
  <2> HIDE DEF s
  <2> QED
    BY <2>0, <2>1, <2>2, <2>3, Borrows DEF NeedsFreeing
<1>9. ASSUME NEW m \in Alive, NEW pos, NEW count, View(n, m, pos, count) PROVE IInv'
  <2> DEFINE off == str[m].off + pos
             s == [Empty EXCEPT !.ref = str[m].ref, !.len = count, !.at = str[m].at, !.off = off]
  <2> HIDE DEF off
  <2>1. ~s.free /\ s.at = str[m].at
    BY DEF Empty
  <2>0. Shape(s)
    BY EmptyShape, Reshaped
  <2>2. str' = Put(str, n, s) /\ mem' = mem /\ n \notin Alive
    BY <1>9 DEF View, off
  <2>3. str[m].at = Null \/ str[m].at \in DOMAIN mem
    BY DEF IInv, Placed
  <2> HIDE DEF s
  <2> QED
    BY <2>0, <2>1, <2>2, <2>3, Borrows DEF NeedsFreeing
<1> QED
  BY <1>1, <1>2, <1>3, <1>4, <1>5, <1>6, <1>7, <1>8, <1>9 DEF Construct

LEMMA AssignKeeps ==
  ASSUME IInv, GStringAssumption, Habits = {}, NEW n \in Alive, NEW m \in Alive, Assign(n, m)
  PROVE  IInv'
<1> DEFINE s == str[n]
           g == str[m]
           v == Content(m)
<1> HIDE DEF v
<1>1. n \in Names /\ Shape(s) /\ Shape(g) /\ Undisturbed(n) /\ n # m
  BY DEF IInv, Shapes, Assign
<1>2. CASE Reuses(s, g.len)
  <2> DEFINE t == [s EXCEPT !.free = TRUE, !.ref = FALSE, !.len = g.len]
  <2>1. s.free /\ str' = Put(str, n, t) /\ mem' = Write(mem, s, 0, v)
    BY <1>2 DEF Assign, v
  <2>2. Shape(t) /\ t.free /\ t.at = s.at /\ t.off = s.off
    <3>1. Shape(t)
      BY <1>1, Reshaped
    <3>2. s = [free |-> s.free, ref |-> s.ref, power |-> s.power, len |-> s.len,
               at |-> s.at, off |-> s.off]
      BY <1>1 DEF Shape
    <3> QED
      BY <3>1, <3>2
  <2>3. DOMAIN mem' = DOMAIN mem
    BY <2>1, WriteDomain
  <2> HIDE DEF t
  <2>4. t.free = s.free
    BY <1>1, <2>1, <2>2 DEF Shape
  <2> QED
    BY <2>1, <2>2, <2>3, <2>4, Unfreed
<1>3. CASE ~Reuses(s, g.len) /\ g.ref
  <2>1. ~g.free /\ str' = Put(str, n, g) /\ mem' = Freed(s)
    BY <1>3 DEF Assign
  <2>2. DOMAIN mem' = DOMAIN mem \ Owns(s) /\ Owns(g) = {}
    BY <2>1 DEF Freed, Drop, Owns, NeedsFreeing
  <2>3. \A k \in Alive \ {n} : str[k].at \notin Owns(s)
    BY <1>1 DEF Owns, Undisturbed, Shared, NeedsFreeing
  <2>4. g.at = Null \/ g.at \in DOMAIN mem'
    BY <1>1, <2>2, <2>3 DEF IInv, Placed
  <2>5. Becomes(n, g)
    BY <1>1, <2>1, <2>2, <2>3, <2>4 DEF Becomes, NeedsFreeing
  <2> QED
    BY <1>1, <2>5, BecomesKeeps
<1>4. CASE ~Reuses(s, g.len) /\ ~g.ref
  <2>1. PICK b \in Free(Freed(s)) : str' = Put(str, n, Malloced(v, b)) /\ mem' = Put(Freed(s), b, v)
    BY <1>4 DEF Assign, v
  <2>2. DOMAIN mem' = DOMAIN Freed(s) \cup {b}
    BY <2>1 DEF Put
  <2> QED
    BY <1>1, <2>1, <2>2, MallocedShape, Mallocs
<1> QED
  BY <1>2, <1>3, <1>4

LEMMA ChangeKeeps ==
  ASSUME IInv, GStringAssumption, Habits = {}, NEW n \in Alive, Change(n)
  PROVE  IInv'
<1>0. n \in Names /\ Shape(str[n])
  BY DEF IInv, Shapes
<1>1. CASE Destroy(n)
  BY <1>1, DestroyKeeps
<1>2. CASE Owned(n)
  <2>1. CASE str[n].len = 0
    <3> DEFINE s == [Empty EXCEPT !.free = TRUE]
    <3>1. s.at = Null /\ Shape(s)
      BY EmptyShape, Reshaped DEF Empty
    <3>2. str' = Put(str, n, s) /\ mem' = mem /\ ~str[n].free
      BY <1>2, <2>1 DEF Owned
    <3> HIDE DEF s
    <3> QED
      BY <1>0, <3>1, <3>2, Borrows DEF NeedsFreeing
  <2>2. CASE str[n].len # 0
    <3>1. PICK b \in Free(mem) : str' = Put(str, n, Malloced(Content(n), b))
                                 /\ mem' = Put(mem, b, Content(n))
      BY <1>2, <2>2 DEF Owned
    <3>2. DOMAIN mem' = DOMAIN mem \cup {b}
      BY <3>1 DEF Put
    <3>3. Owns(str[n]) = {} /\ Owns(Malloced(Content(n), b)) = {b} /\ b \in Blocks \ DOMAIN mem
      BY <1>2, MallocedShape DEF Owns, NeedsFreeing, Owned, Free, GStringAssumption
    <3>4. Becomes(n, Malloced(Content(n), b))
      BY <3>1, <3>2, <3>3, MallocedShape DEF Becomes
    <3> QED
      BY <1>0, <3>4, BecomesKeeps
  <2> QED
    BY <2>1, <2>2
<1>3. CASE CStr(n)
  <2>1. PICK r \in Reserved(str[n], str[n].len + 1) :
           str' = Put(str, n, r.s) /\ mem' = Write(r.mem, r.s, str[n].len, <<"nul">>)
    BY <1>3 DEF CStr
  <2>2. DOMAIN mem' = DOMAIN r.mem /\ Shape(r.s) /\ Undisturbed(n)
    BY <1>0, <1>3, <2>1, WriteDomain, ReservedIs DEF CStr
  <2> QED
    BY <1>0, <2>1, <2>2, Grows
<1>4. ASSUME NEW to, Reserve(n, to) PROVE IInv'
  <2>1. PICK r \in Reserved(str[n], to) : str' = Put(str, n, r.s) /\ mem' = r.mem
    BY <1>4 DEF Reserve
  <2>2. Shape(r.s) /\ Undisturbed(n)
    BY <1>0, <1>4, <2>1, ReservedIs DEF Reserve
  <2> QED
    BY <1>0, <2>1, <2>2, Grows
<1>5. ASSUME NEW m \in Alive, Assign(n, m) PROVE IInv'
  BY <1>5, AssignKeeps
<1>6. ASSUME NEW m \in Alive, MoveAssign(n, m) PROVE IInv'
  BY <1>0, <1>6, Moves DEF MoveAssign
<1>7. ASSUME NEW m \in Alive, AppendString(n, m) PROVE IInv'
  BY <1>0, <1>7, Extends DEF AppendString
<1>8. ASSUME NEW v, AppendChars(n, v) PROVE IInv'
  BY <1>0, <1>8, Extends DEF AppendChars
<1>9. ASSUME NEW v, ParseFrom(n, v) PROVE IInv'
  <2> DEFINE s == [str[n] EXCEPT !.len = 0]
  <2>1. Shape(s) /\ s.free = str[n].free /\ s.at = str[n].at /\ s.off = str[n].off
    BY <1>0 DEF Shape
  <2>2. Undisturbed(n) /\ \E r \in Reserved(s, Len(v)) : Extend(n, s, r, v, FALSE)
    BY <1>9 DEF ParseFrom
  <2> HIDE DEF s
  <2> QED
    BY <2>1, <2>2, Extends
<1>10. ASSUME NEW v, Fill(n, v) PROVE IInv'
  <2> DEFINE len == Len(v)
             s == [str[n] EXCEPT !.len = len]
  <2> HIDE DEF len
  <2>1. Shape(s) /\ s.free = str[n].free /\ s.at = str[n].at /\ s.off = str[n].off
    BY <1>0 DEF Shape
  <2>2. str' = [str EXCEPT ![n].len = len] /\ DOMAIN mem' = DOMAIN mem
    BY <1>10, WriteDomain DEF Fill, len
  <2>3. str' = Put(str, n, s)
    BY <2>2, Relength
  <2> HIDE DEF s
  <2> QED
    BY <2>1, <2>2, <2>3, Unfreed
<1>11. ASSUME NEW iv, NEW base, Append64(n, iv, base) PROVE IInv'
  BY <1>0, <1>11, Extends DEF Append64
<1>12. ASSUME NEW v, AppendTime(n, v) PROVE IInv'
  <2> DEFINE end == TimeEnd(str[n].power, str[n].len, v)
             to == 2 ^ end[1]
  <2>1. Undisturbed(n) /\ \E r \in Reserved(str[n], to) :
           Extend(n, str[n], r, v, TRUE) \/ (str' = Put(str, n, r.s) /\ mem' = r.mem)
    BY <1>12 DEF AppendTime
  <2> HIDE DEF to
  <2>2. PICK r \in Reserved(str[n], to) :
           Extend(n, str[n], r, v, TRUE) \/ (str' = Put(str, n, r.s) /\ mem' = r.mem)
    BY <2>1
  <2>3. Shape(r.s)
    BY <1>0, ReservedIs
  <2>4. CASE Extend(n, str[n], r, v, TRUE)
    BY <1>0, <2>1, <2>4, Extends
  <2>5. CASE str' = Put(str, n, r.s) /\ mem' = r.mem
    BY <1>0, <2>1, <2>3, <2>5, Grows
  <2> QED
    BY <2>2, <2>4, <2>5
<1>13. ASSUME NEW len, Length(n, len) PROVE IInv'
  <2> DEFINE s == [str[n] EXCEPT !.len = len]
  <2>1. Shape(s) /\ s.free = str[n].free /\ s.at = str[n].at /\ s.off = str[n].off
    BY <1>0 DEF Shape
  <2>2. str' = Put(str, n, s) /\ mem' = mem
    BY <1>13, Relength DEF Length
  <2> HIDE DEF s
  <2> QED
    BY <2>1, <2>2, Unfreed
<1>14. ASSUME NEW i, NEW c, SetAt(n, i, c) PROVE IInv'
  <2>1. str' = str /\ DOMAIN mem' = DOMAIN mem
    BY <1>14, WriteDomain DEF SetAt
  <2> QED
    BY <2>1 DEF IInv, Shapes, Fixed, Placed, OneOwner, NoLeak, Alive, Heap
<1>15. ASSUME NEW pos, NEW count, Erase(n, pos, count) PROVE IInv'
  <2> DEFINE len == str[n].len - count
             s == [str[n] EXCEPT !.len = len]
  <2> HIDE DEF len
  <2>1. Shape(s) /\ s.free = str[n].free /\ s.at = str[n].at /\ s.off = str[n].off
    BY <1>0 DEF Shape
  <2>2. str' = [str EXCEPT ![n].len = len] /\ DOMAIN mem' = DOMAIN mem
    BY <1>15, WriteDomain DEF Erase, len
  <2>3. str' = Put(str, n, s)
    BY <2>2, Relength
  <2> HIDE DEF s
  <2> QED
    BY <2>1, <2>2, <2>3, Unfreed
<1> QED
  BY <1>1, <1>2, <1>3, <1>4, <1>5, <1>6, <1>7, <1>8, <1>9, <1>10, <1>11, <1>12, <1>13, <1>14,
     <1>15 DEF Change

LEMMA StutterKeeps == IInv /\ UNCHANGED vars => IInv'
BY DEF vars, IInv, Shapes, Fixed, Placed, OneOwner, NoLeak, Alive, Heap

\* The buffers of the strings are kept in order by every sequence of calls that
\* has none of the habits.
THEOREM TypeIInv == Spec /\ Habits = {} => []IInv
<1> USE GStringAssumption
<1>1. SUFFICES ASSUME Habits = {} PROVE Spec => []IInv
  OBVIOUS
<1>2. Init => IInv
  BY InitIInv
<1>3. IInv /\ [Next]_vars => IInv'
  BY <1>1, ConstructKeeps, ChangeKeeps, StutterKeeps DEF Next
<1> QED
  BY <1>2, <1>3, PTL DEF Spec

\* No block is freed twice, nor what is no block, whatever strings there are and
\* however they were made, moved, assigned and grown (FREE_FLAG, gstring.hpp:80).
THEOREM OwnersAreUnique == Spec /\ Habits = {} => []OneOwner
<1>1. IInv => OneOwner
  BY DEF IInv
<1> QED
  BY <1>1, TypeIInv, PTL

\* Every block that was malloced is some string's to free (gstring.hpp:506-508).
THEOREM NothingLeaks == Spec /\ Habits = {} => []NoLeak
<1>1. IInv => NoLeak
  BY DEF IInv
<1> QED
  BY <1>1, TypeIInv, PTL
-----------------------------------------------------------------------------
(* Numbers.                                                                  *)

\* A set of numbers has a least one.
LEMMA LeastOfNat ==
    ASSUME NEW T, T \subseteq Nat, T # {}
    PROVE  \E x \in T : \A y \in T : x <= y
<1> DEFINE R == OpToRel(<, Nat)
<1>1. IsWellFoundedOn(R, Nat)
  BY NatLessThanWellFounded
<1>2. \A a, b \in Nat : <<a, b>> \in R <=> a < b
  BY DEF OpToRel
<1> HIDE DEF R
<1>3. PICK x \in T : \A y \in T : ~ (<<y, x>> \in R)
  BY <1>1, WFMin
<1>4. ASSUME NEW y \in T PROVE x <= y
  <2>1. x \in Nat /\ y \in Nat /\ ~ (y < x)
    BY <1>2, <1>3
  <2> QED
    BY <2>1
<1> QED
  BY <1>4

\* Induction, for the numbers of a set.
LEMMA InductionInSet ==
    ASSUME NEW T, 0 \in T, \A n \in Nat : n \in T => n + 1 \in T
    PROVE  Nat \subseteq T
<1> SUFFICES ASSUME NEW n \in Nat, n \notin T PROVE FALSE
  OBVIOUS
<1>1. PICK x \in Nat \ T : \A y \in Nat \ T : x <= y
  BY LeastOfNat
<1>2. x # 0 /\ x - 1 \in Nat
  BY <1>1
<1>3. x - 1 \in T
  BY <1>1, <1>2
<1> QED
  BY <1>2, <1>3

\* Powers of two grow faster than their exponents: there are as many of them
\* as subsets, and more than elements.
LEMMA PowersGrow == ASSUME NEW n \in Nat PROVE 2 ^ n \in Nat /\ n < 2 ^ n
<1> DEFINE S == 1 .. n
           f == [i \in 0 .. n |-> IF i = 0 THEN {} ELSE {i}]
<1>1. IsFiniteSet(S) /\ Cardinality(S) = n
  BY FS_Interval
<1>2. IsFiniteSet(SUBSET S) /\ Cardinality(SUBSET S) = 2 ^ n
  BY <1>1, FS_SUBSET
<1>3. f \in [0 .. n -> SUBSET S]
  OBVIOUS
<1>4. f \in Injection(0 .. n, SUBSET S)
  BY <1>3 DEF Injection, IsInjective
<1>5. Cardinality(0 .. n) = n + 1
  BY FS_Interval
<1>6. n + 1 <= Cardinality(SUBSET S)
  BY <1>2, <1>4, <1>5, FS_Injection
<1>7. Cardinality(SUBSET S) \in Nat
  BY <1>2, FS_CardinalityType
<1> QED
  BY <1>2, <1>6, <1>7


LEMMA Modulo == ASSUME NEW a \in Nat, NEW b \in Nat, a < b PROVE a % b = a
OBVIOUS

LEMMA PowerOfZero == 2 ^ 0 = 1
OBVIOUS

LEMMA PowersAreOrdered ==
  ASSUME NEW m \in Nat, NEW n \in Nat
  PROVE  /\ m <= n => 2 ^ m <= 2 ^ n
         /\ m < n => 2 ^ m < 2 ^ n
<1> SUFFICES ASSUME m <= n PROVE 2 ^ m <= 2 ^ n /\ (m < n => 2 ^ m < 2 ^ n)
  BY PowersGrow
<1> DEFINE S == 1 .. m
           T == 1 .. n
<1>1. IsFiniteSet(S) /\ Cardinality(S) = m /\ IsFiniteSet(T) /\ Cardinality(T) = n
  BY FS_Interval
<1>2. /\ IsFiniteSet(SUBSET S) /\ Cardinality(SUBSET S) = 2 ^ m
      /\ IsFiniteSet(SUBSET T) /\ Cardinality(SUBSET T) = 2 ^ n
  BY <1>1, FS_SUBSET
<1>3. S \subseteq T /\ (m < n => n \in T /\ n \notin S)
  OBVIOUS
<1> HIDE DEF S, T
<1>4. SUBSET S \in SUBSET (SUBSET T)
  BY <1>3
<1>5. m < n => SUBSET S # SUBSET T
  BY <1>3
<1>6. 2 ^ m <= 2 ^ n /\ (2 ^ m = 2 ^ n => SUBSET S = SUBSET T)
  <2> DEFINE A == SUBSET S
             B == SUBSET T
  <2>1. A \in SUBSET B /\ IsFiniteSet(B) /\ Cardinality(A) = 2 ^ m /\ Cardinality(B) = 2 ^ n
    BY <1>2, <1>4
  <2> HIDE DEF A, B
  <2>2. Cardinality(A) <= Cardinality(B) /\ (Cardinality(B) = Cardinality(A) => B = A)
    BY <2>1, FS_Subset
  <2>3. 2 ^ m <= 2 ^ n /\ (2 ^ m = 2 ^ n => A = B)
    BY <2>1, <2>2
  <2> QED
    BY <2>3 DEF A, B
<1>7. 2 ^ m \in Nat /\ 2 ^ n \in Nat
  BY PowersGrow
<1> QED
  BY <1>5, <1>6, <1>7
-----------------------------------------------------------------------------
(* Characters.                                                               *)

\* Characters are a sequence, whatever they are.
Chars(v) == Len(v) \in Nat /\ v = [i \in 1 .. Len(v) |-> v[i]]

LEMMA CharsOf ==
  ASSUME NEW k \in Nat, NEW v, v = [i \in 1 .. k |-> v[i]]
  PROVE  Chars(v) /\ Len(v) = k
<1>1. Len(v) = k
  OBVIOUS
<1> QED
  BY <1>1 DEF Chars

LEMMA SeqsAreChars == ASSUME NEW T, NEW v \in Seq(T) PROVE Chars(v)
<1>1. Len(v) \in Nat /\ DOMAIN v = 1 .. Len(v) /\ v \in [1 .. Len(v) -> T]
  OBVIOUS
<1> QED
  BY <1>1 DEF Chars

LEMMA CharsAndZero ==
  ASSUME NEW v, Chars(v), NEW e
  PROVE  /\ Chars(Append(v, e)) /\ Len(Append(v, e)) = Len(v) + 1
         /\ \A k \in 1 .. Len(v) : Append(v, e)[k] = v[k]
<1> DEFINE T == {v[i] : i \in 1 .. Len(v)} \cup {e}
<1>1. v \in Seq(T) /\ e \in T
  BY DEF Chars
<1> HIDE DEF T
<1>2. Append(v, e) \in Seq(T) /\ Len(Append(v, e)) = Len(v) + 1
  BY <1>1
<1>3. \A k \in 1 .. Len(v) : Append(v, e)[k] = v[k]
  BY <1>1 DEF Chars
<1> QED
  BY <1>2, <1>3, SeqsAreChars

LEMMA OneChar == ASSUME NEW c PROVE Chars(<<c>>) /\ Len(<<c>>) = 1
<1>1. <<c>> \in Seq({c}) /\ Len(<<c>>) = 1
  OBVIOUS
<1> QED
  BY <1>1, SeqsAreChars

LEMMA NoChars == Chars(<< >>) /\ Len(<< >>) = 0
<1>1. << >> \in Seq({}) /\ Len(<< >>) = 0
  OBVIOUS
<1> QED
  BY <1>1, SeqsAreChars

LEMMA SomeChars ==
  ASSUME NEW v, Chars(v), NEW i \in Nat, NEW j \in Nat, 1 <= i, i <= j + 1, j <= Len(v)
  PROVE  /\ Chars(SubSeq(v, i, j)) /\ Len(SubSeq(v, i, j)) = j - i + 1
         /\ \A k \in 1 .. j - i + 1 : SubSeq(v, i, j)[k] = v[i + k - 1]
<1> DEFINE T == {v[k] : k \in 1 .. Len(v)}
<1>1. v \in Seq(T)
  BY DEF Chars
<1> HIDE DEF T
<1>2. SubSeq(v, i, j) \in Seq(T) /\ Len(SubSeq(v, i, j)) = j - i + 1
  BY <1>1 DEF Chars
<1>3. \A k \in 1 .. j - i + 1 : SubSeq(v, i, j)[k] = v[i + k - 1]
  BY <1>1 DEF Chars
<1> QED
  BY <1>2, <1>3, SeqsAreChars

LEMMA Concat ==
  ASSUME NEW v, Chars(v), NEW w, Chars(w)
  PROVE  /\ Chars(v \o w) /\ Len(v \o w) = Len(v) + Len(w)
         /\ \A i \in 1 .. Len(v) + Len(w) : (v \o w)[i] = IF i <= Len(v) THEN v[i] ELSE w[i - Len(v)]
<1> DEFINE T == {v[i] : i \in 1 .. Len(v)} \cup {w[i] : i \in 1 .. Len(w)}
<1>1. v \in Seq(T) /\ w \in Seq(T)
  BY DEF Chars
<1> HIDE DEF T
<1>2. v \o w \in Seq(T) /\ Len(v \o w) = Len(v) + Len(w)
  BY <1>1
<1>3. \A i \in 1 .. Len(v) + Len(w) : (v \o w)[i] = IF i <= Len(v) THEN v[i] ELSE w[i - Len(v)]
  BY <1>1
<1>4. Chars(v \o w)
  BY <1>2, SeqsAreChars
<1> QED
  BY <1>2, <1>3, <1>4

LEMMA Backwards ==
  ASSUME NEW v, Chars(v)
  PROVE  /\ Chars(Reverse(v)) /\ Len(Reverse(v)) = Len(v)
         /\ \A k \in 1 .. Len(v) : Reverse(v)[k] = v[Len(v) - k + 1]
<1> DEFINE w == Reverse(v)
           n == Len(v)
<1>1. n \in Nat /\ w = [k \in 1 .. n |-> v[(n - k) + 1]]
  BY DEF Reverse, Chars
<1>2. w = [k \in 1 .. n |-> w[k]]
  BY <1>1
<1> HIDE DEF w
<1>3. Chars(w) /\ Len(w) = n
  BY <1>1, <1>2, CharsOf
<1> QED
  BY <1>1, <1>3 DEF w

LEMMA EqualChars ==
  ASSUME NEW v, NEW w, Chars(v), Chars(w), Len(v) = Len(w), \A i \in 1 .. Len(v) : v[i] = w[i]
  PROVE  v = w
BY DEF Chars

LEMMA NoneBefore == ASSUME NEW v, Chars(v) PROVE << >> \o v = v
<1> DEFINE w == << >> \o v
           none == << >>
<1>1. Chars(w) /\ Len(w) = Len(none) + Len(v)
      /\ \A i \in 1 .. Len(none) + Len(v) : w[i] = IF i <= Len(none) THEN none[i] ELSE v[i - Len(none)]
  BY NoChars, Concat
<1>2. Len(none) = 0 /\ Len(v) \in Nat
  BY NoChars DEF Chars
<1> HIDE DEF w, none
<1>3. ASSUME NEW i \in 1 .. Len(v) PROVE w[i] = v[i]
  <2>1. i \in 1 .. Len(none) + Len(v) /\ ~(i <= Len(none)) /\ i - Len(none) = i
    BY <1>2
  <2> QED
    BY <1>1, <2>1
<1>4. Len(w) = Len(v)
  BY <1>1, <1>2
<1>5. w = v
  BY <1>1, <1>3, <1>4, EqualChars
<1> QED
  BY <1>5 DEF w

LEMMA FirstChars ==
  ASSUME NEW v, Chars(v), NEW j \in Nat, j <= Len(v)
  PROVE  /\ Chars(SubSeq(v, 1, j)) /\ Len(SubSeq(v, 1, j)) = j
         /\ \A k \in 1 .. j : SubSeq(v, 1, j)[k] = v[k]
<1> DEFINE from == 1
<1>1. from \in Nat /\ 1 <= from /\ from <= j + 1 /\ j - from + 1 = j /\ \A k \in 1 .. j : from + k - 1 = k
  OBVIOUS
<1> HIDE DEF from
<1>2. /\ Chars(SubSeq(v, from, j)) /\ Len(SubSeq(v, from, j)) = j - from + 1
      /\ \A k \in 1 .. j - from + 1 : SubSeq(v, from, j)[k] = v[from + k - 1]
  BY <1>1, SomeChars
<1>3. /\ Chars(SubSeq(v, from, j)) /\ Len(SubSeq(v, from, j)) = j
      /\ \A k \in 1 .. j : SubSeq(v, from, j)[k] = v[k]
  BY <1>1, <1>2
<1> QED
  BY <1>3 DEF from
-----------------------------------------------------------------------------
(* What is in the buffers.                                                   *)

\* The memory is made of sequences; the literals are what they were, and the
\* stack buffers as long.
Memory(m) ==
    /\ \A x \in DOMAIN m : Chars(m[x])
    /\ \A l \in Literals : l \in DOMAIN m /\ m[l] = Static[l]
    /\ \A b \in Stacks : b \in DOMAIN m /\ Len(m[b]) = Len(Static[b])

\* What a string says of its length and its capacity is in some memory.
Within(s, m) ==
    /\ s.len \in Nat /\ s.power \in Nat /\ s.power <= LengthBits /\ s.off \in Nat
    /\ IF s.at = Null THEN s.len = 0 /\ s.power = 0
       ELSE /\ s.at \in DOMAIN m /\ s.off + s.len <= Len(m[s.at])
            /\ s.power > 0 => s.at \notin Literals /\ s.off + Capacity(s) <= Len(m[s.at])

BInv == Memory(mem) /\ \A n \in Alive : Within(str[n], mem)

\* The buffer of a string is still there, with the same bytes.
Kept(s, m, m2) == s.at # Null => s.at \in DOMAIN m2 /\ m2[s.at] = m[s.at]

\* There is room for so many characters in the buffer of a string.
Room(s, m, to) == s.at # Null /\ s.at \in DOMAIN m /\ s.off + to <= Len(m[s.at])

LEMMA KeptWithin == ASSUME NEW s, NEW m, NEW m2, Within(s, m), Kept(s, m, m2) PROVE Within(s, m2)
BY DEF Within, Kept

\* The characters of a string in bounds.
LEMMA BytesAre ==
  ASSUME NEW s, NEW m, Memory(m), Within(s, m)
  PROVE  /\ Chars(Bytes(s, m)) /\ Len(Bytes(s, m)) = s.len
         /\ s.at = Null => Bytes(s, m) = << >>
         /\ \A i \in 1 .. s.len : Bytes(s, m)[i] = m[s.at][s.off + i]
<1> DEFINE v == Bytes(s, m)
<1>0. s.len \in Nat /\ s.off \in Nat
  BY DEF Within
<1>1. v = [i \in 1 .. s.len |-> v[i]]
  BY DEF Bytes
<1>2. \A i \in 1 .. s.len :
         v[i] = IF s.at \in DOMAIN m /\ s.off + i <= Len(m[s.at]) THEN m[s.at][s.off + i] ELSE Junk
  BY DEF Bytes
<1> HIDE DEF v
<1>3. Chars(v) /\ Len(v) = s.len
  BY <1>0, <1>1, CharsOf
<1>4. s.at = Null => v = << >>
  <2>1. s.at = Null => Len(v) = 0
    BY <1>3 DEF Within
  <2> QED
    BY <2>1, <1>3, NoChars, EqualChars
<1>5. ASSUME NEW i \in 1 .. s.len PROVE v[i] = m[s.at][s.off + i]
  <2>1. s.at # Null
    BY <1>0 DEF Within
  <2>2. s.at \in DOMAIN m /\ s.off + s.len <= Len(m[s.at]) /\ Len(m[s.at]) \in Nat
    BY <2>1 DEF Within, Memory, Chars
  <2>3. s.off + i <= Len(m[s.at])
    BY <1>0, <2>2
  <2> QED
    BY <1>2, <2>2, <2>3
<1> QED
  BY <1>3, <1>4, <1>5 DEF v

LEMMA ContentIs ==
  ASSUME BInv, NEW n \in Alive
  PROVE  Chars(Content(n)) /\ Len(Content(n)) = str[n].len
BY BytesAre DEF BInv, Content

LEMMA KeptBytes ==
  ASSUME NEW s, NEW m, Memory(m), NEW m2, Memory(m2), Within(s, m), Kept(s, m, m2)
  PROVE  Bytes(s, m2) = Bytes(s, m)
<1>1. Within(s, m2)
  BY KeptWithin
<1>2. CASE s.at = Null
  BY <1>1, <1>2, BytesAre
<1>3. CASE s.at # Null
  <2> DEFINE v == Bytes(s, m)
             w == Bytes(s, m2)
  <2>1. Chars(v) /\ Chars(w) /\ Len(v) = s.len /\ Len(w) = s.len /\ m2[s.at] = m[s.at]
        /\ (\A i \in 1 .. s.len : v[i] = m[s.at][s.off + i])
        /\ (\A i \in 1 .. s.len : w[i] = m2[s.at][s.off + i])
    BY <1>1, <1>3, BytesAre DEF Kept
  <2> HIDE DEF v, w
  <2>2. v = w
    BY <2>1, EqualChars
  <2> QED
    BY <2>2 DEF v, w
<1> QED
  BY <1>2, <1>3

\* A string is given a value, in bounds.
Gives(n, v) == BInv' /\ ValueStrings!Give(n, v)

\* The string n is s then, and the others are what they were.
Turns(n, s) == Alive' = Alive \cup {n} /\ str'[n] = s /\ \A m \in Alive \ {n} : str'[m] = str[m]

\* Whoever turns into s, and stays in bounds, leaves the others as they are.
LEMMA TurnsBounded ==
  ASSUME BInv, NEW n, NEW s, Turns(n, s), Within(s, mem'), Memory(mem'),
         \A m \in Alive \ {n} : Kept(str[m], mem, mem')
  PROVE  Gives(n, Bytes(s, mem'))
<1>1. \A m \in Alive \ {n} : Within(str[m], mem') /\ Bytes(str[m], mem') = Bytes(str[m], mem)
  BY KeptWithin, KeptBytes DEF BInv
<1>2. Alive' = Alive \cup {n} /\ str'[n] = s /\ \A m \in Alive \ {n} : str'[m] = str[m]
  BY DEF Turns
<1>3. BInv'
  BY <1>1, <1>2 DEF BInv
<1>4. ValueStrings!Give(n, Bytes(s, mem'))
  <2>1. \A m \in Alive \cup {n} :
           Content(m)' = IF m = n THEN Bytes(s, mem') ELSE Content(m)
    BY <1>1, <1>2 DEF Content
  <2> QED
    BY <1>2, <2>1 DEF ValueStrings!Give
<1> QED
  BY <1>3, <1>4 DEF Gives

LEMMA PutTurns == ASSUME NEW n, NEW s, str' = Put(str, n, s) PROVE Turns(n, s)
BY DEF Put, Alive, Turns

LEMMA BecomesBounded ==
  ASSUME BInv, NEW n, NEW s, str' = Put(str, n, s), Within(s, mem'), Memory(mem'),
         \A m \in Alive \ {n} : Kept(str[m], mem, mem')
  PROVE  Gives(n, Bytes(s, mem'))
BY PutTurns, TurnsBounded

\* Capacities are numbers.
LEMMA CapacityIs == ASSUME NEW s, s.power \in Nat PROVE Capacity(s) \in Nat /\ Capacity(s) >= 1
BY PowersGrow DEF Capacity

\* What is written into a buffer that has room stands there, and nothing else changes.
LEMMA WritesWithin ==
  ASSUME NEW m, Memory(m), NEW s, s.at \notin Literals, NEW pos \in Nat, NEW v, Chars(v),
         s.off \in Nat, Room(s, m, pos + Len(v))
  PROVE  /\ Memory(Write(m, s, pos, v))
         /\ DOMAIN Write(m, s, pos, v) = DOMAIN m
         /\ \A x \in DOMAIN m \ {s.at} : Write(m, s, pos, v)[x] = m[x]
         /\ Len(Write(m, s, pos, v)[s.at]) = Len(m[s.at])
         /\ \A i \in 1 .. Len(m[s.at]) :
               Write(m, s, pos, v)[s.at][i] =
                  IF i - s.off - pos \in 1 .. Len(v) THEN v[i - s.off - pos] ELSE m[s.at][i]
<1> DEFINE old == m[s.at]
<1>0. Chars(old) /\ DOMAIN old = 1 .. Len(old) /\ Len(old) \in Nat /\ s.at \in DOMAIN m
      /\ Len(v) \in Nat /\ DOMAIN v = 1 .. Len(v) /\ s.off + (pos + Len(v)) <= Len(old)
  BY DEF Memory, Room, Chars
<1>1. CASE v = << >>
  <2>1. Len(v) = 0
    BY <1>1, NoChars
  <2>2. \A i \in 1 .. Len(old) : i - s.off - pos \notin 1 .. Len(v)
    BY <2>1
  <2> QED
    BY <1>1, <2>2 DEF Write
<1>2. CASE v # << >>
  <2> DEFINE new == [i \in DOMAIN old |-> IF i - s.off - pos \in DOMAIN v THEN v[i - s.off - pos] ELSE old[i]]
  <2>1. ~(s.off + pos + Len(v) > Len(old))
    <3> HIDE DEF old
    <3> QED
      BY <1>0
  <2>2. Write(m, s, pos, v) = [m EXCEPT ![s.at] = new]
    BY <1>2, <2>1 DEF Write
  <2>3. new = [i \in 1 .. Len(old) |-> new[i]]
    BY <1>0
  <2>4. \A i \in 1 .. Len(old) :
           new[i] = IF i - s.off - pos \in 1 .. Len(v) THEN v[i - s.off - pos] ELSE old[i]
    BY <1>0
  <2> HIDE DEF new
  <2>5. Chars(new) /\ Len(new) = Len(old)
    <3> HIDE DEF old
    <3> QED
      BY <1>0, <2>3, CharsOf
  <2>6. DOMAIN Write(m, s, pos, v) = DOMAIN m /\ Write(m, s, pos, v)[s.at] = new
        /\ \A x \in DOMAIN m \ {s.at} : Write(m, s, pos, v)[x] = m[x]
    BY <1>0, <2>2
  <2> QED
    BY <2>4, <2>5, <2>6 DEF Memory
<1> QED
  BY <1>1, <1>2

\* A new block does not change the others.
LEMMA PutMemory ==
  ASSUME GStringAssumption, NEW m, Memory(m), NEW b \in Blocks, NEW v, Chars(v)
  PROVE  Memory(Put(m, b, v)) /\ b \in DOMAIN Put(m, b, v) /\ Put(m, b, v)[b] = v
<1>1. b \notin Literals /\ b \notin Stacks
  BY DEF GStringAssumption
<1> QED
  BY <1>1 DEF Memory, Put

\* A block that is added leaves the others where they are.
LEMMA PutKeeps ==
  ASSUME NEW t, NEW m, NEW m2, Kept(t, m, m2), NEW b, b \notin DOMAIN m2, NEW v
  PROVE  Kept(t, m, Put(m2, b, v))
BY DEF Kept, Put

\* Who is alone in a buffer may free it.
LEMMA FreedKeeps ==
  ASSUME IInv, BInv, GStringAssumption, NEW n \in Alive, Undisturbed(n),
         NEW s, s.free = str[n].free, s.at = str[n].at
  PROVE  Memory(Freed(s)) /\ \A m \in Alive \ {n} : Kept(str[m], mem, Freed(s))
<1>1. CASE NeedsFreeing(s)
  <2>1. \A m \in Alive \ {n} : str[m].at # s.at
    BY <1>1 DEF Undisturbed, Shared, NeedsFreeing
  <2>2. \A x \in DOMAIN mem \ {s.at} : x \in DOMAIN Freed(s) /\ Freed(s)[x] = mem[x]
    BY <1>1 DEF Freed, Drop
  <2>3. DOMAIN Freed(s) = DOMAIN mem \ {s.at}
    BY <1>1 DEF Freed, Drop
  <2>4. s.at \notin Literals /\ s.at \notin Stacks
    BY <1>1 DEF IInv, OneOwner, NeedsFreeing, Heap, GStringAssumption
  <2> QED
    BY <2>1, <2>2, <2>3, <2>4 DEF BInv, Memory, Kept, Within
<1>2. CASE ~NeedsFreeing(s)
  <2>1. Freed(s) = mem
    BY <1>2 DEF Freed
  <2> QED
    BY <2>1 DEF BInv, Kept, Within
<1> QED
  BY <1>1, <1>2
-----------------------------------------------------------------------------
(* Room is made.                                                             *)

\* The capacity that reserve comes to is enough, and no smaller than before.
LEMMA PowerForIs ==
  ASSUME NEW power \in Nat, NEW to \in Nat
  PROVE  /\ PowerFor(power, to) \in Nat
         /\ PowerFor(power, to) >= power
         /\ 2 ^ PowerFor(power, to) >= to
         /\ IF 2 ^ power >= to THEN PowerFor(power, to) = power
            ELSE PowerFor(power, to) > power /\ 2 ^ (PowerFor(power, to) - 1) < to
<1>0. \A p \in Nat : 2 ^ p \in Nat /\ p < 2 ^ p
  BY PowersGrow
<1>1. CASE 2 ^ power >= to
  BY <1>0, <1>1 DEF PowerFor
<1>2. CASE ~(2 ^ power >= to)
  <2> DEFINE T == {p \in Nat : p >= power + 1 /\ 2 ^ p >= to}
  <2>1. 2 ^ power < to /\ to >= 1
    BY <1>0, <1>2
  <2>2. power + to \in Nat /\ power + to < 2 ^ (power + to)
    <3>1. power + to \in Nat
      OBVIOUS
    <3> QED
      BY <3>1, <1>0
  <2>3. power + to \in T
    <3>1. 2 ^ (power + to) \in Nat
      BY <2>2, <1>0
    <3>2. 2 ^ (power + to) >= to
      BY <3>1, <2>2
    <3> QED
      BY <2>1, <2>2, <3>2
  <2>4. PICK x \in T : \A y \in T : x <= y
    <3>1. T \subseteq Nat /\ T # {}
      BY <2>3
    <3> HIDE DEF T
    <3> QED
      BY <3>1, LeastOfNat
  <2>5. x \in power + 1 .. power + to /\ 2 ^ x >= to
    BY <2>2, <2>3, <2>4
  <2>6. 2 ^ (x - 1) < to
    <3>1. CASE x = power + 1
      <4>1. x - 1 = power
        BY <3>1
      <4> QED
        BY <4>1, <2>1
    <3>2. CASE x # power + 1
      <4>1. x - 1 \in Nat /\ x - 1 >= power + 1 /\ x - 1 \notin T
        BY <3>2, <2>4, <2>5
      <4>2. ~(2 ^ (x - 1) >= to) /\ 2 ^ (x - 1) \in Nat
        BY <4>1, <1>0
      <4> QED
        BY <4>2
    <3> QED
      BY <3>1, <3>2
  <2> HIDE DEF T
  <2> DEFINE q == CHOOSE p \in power + 1 .. power + to : 2 ^ p >= to /\ 2 ^ (p - 1) < to
  <2>7. q \in power + 1 .. power + to /\ 2 ^ q >= to /\ 2 ^ (q - 1) < to
    BY <2>5, <2>6
  <2>8. PowerFor(power, to) = q
    BY <1>2 DEF PowerFor
  <2> HIDE DEF q
  <2>9. q \in Nat /\ q > power
    BY <2>7
  <2> QED
    BY <1>2, <2>7, <2>8, <2>9
<1> QED
  BY <1>1, <1>2

\* A capacity is reserved as it is.
LEMMA PowerForPower ==
  ASSUME NEW power \in Nat, NEW p \in Nat, NEW max \in Nat, power <= max, p <= max
  PROVE  PowerFor(power, 2 ^ p) <= max
<1> DEFINE to == 2 ^ p
           q == PowerFor(power, to)
<1>1. to \in Nat /\ 2 ^ power \in Nat
  BY PowersGrow
<1>2. q \in Nat /\ IF 2 ^ power >= to THEN q = power ELSE q > power /\ 2 ^ (q - 1) < to
  <2> HIDE DEF to
  <2> QED
    BY <1>1, PowerForIs
<1>3. CASE 2 ^ power >= to
  BY <1>2, <1>3
<1>4. CASE ~(2 ^ power >= to)
  <2> HIDE DEF q
  <2>1. q - 1 \in Nat /\ 2 ^ (q - 1) < 2 ^ p
    BY <1>2, <1>4
  <2>2. 2 ^ (q - 1) \in Nat
    BY <2>1, PowersGrow
  <2>3. ~(p <= q - 1)
    BY <1>1, <2>1, <2>2, PowersAreOrdered
  <2>4. q <= p
    BY <1>2, <2>1, <2>3
  <2> QED
    BY <1>2, <2>4 DEF q
<1> QED
  BY <1>3, <1>4

\* The buffer of a string that has a capacity is its own.
LEMMA AloneInBuffer ==
  ASSUME IInv, BInv, NEW n \in Alive, Undisturbed(n), str[n].power > 0 \/ NeedsFreeing(str[n])
  PROVE  str[n].at # Null /\ \A m \in Alive \ {n} : str[m].at # str[n].at
<1>1. str[n].at # Null
  BY DEF BInv, Within, NeedsFreeing
<1> QED
  BY <1>1 DEF Undisturbed, Shared

\* What reserve has made.
Made(n, s, to, r) ==
    /\ Within(r.s, r.mem) /\ Memory(r.mem) /\ Room(r.s, r.mem, to)
    /\ r.s.len = s.len /\ r.s.at \notin Literals
    /\ Bytes(r.s, r.mem) = Bytes(s, mem)
    /\ \A m \in Alive \ {n} : Kept(str[m], mem, r.mem) /\ str[m].at # r.s.at
    /\ s.power > 0 /\ to <= Capacity(s) => r.s = s /\ r.mem = mem

\* There is room, everybody is in bounds, and the characters are where they were.
LEMMA ReservedRoom ==
  ASSUME IInv, BInv, GStringAssumption, NEW n \in Alive, Undisturbed(n),
         NEW s, Shape(s), s.free = str[n].free, s.at = str[n].at, s.off = str[n].off,
         s.power = str[n].power, Within(s, mem),
         NEW to \in Nat, s.len <= to, PowerFor(s.power, to) <= LengthBits,
         NEW r \in Reserved(s, to)
  PROVE  Made(n, s, to, r)
<1> DEFINE p == PowerFor(s.power, to)
           kept == IF s.at = Null THEN << >> ELSE IF s.free THEN mem[s.at] ELSE Bytes(s, mem)
           moved == [i \in 1 .. 2 ^ p |-> IF i <= Len(kept) THEN kept[i] ELSE Junk]
<1>0. p \in Nat /\ 2 ^ p >= to /\ s.power \in Nat /\ (2 ^ s.power >= to => p = s.power)
  BY PowerForIs DEF Within
<1>1. CASE p = s.power /\ p > 0
  <2>1. r.s = s /\ r.mem = mem
    <3>1. Reserved(s, to) = {[s |-> s, mem |-> mem]}
      BY <1>1 DEF Reserved
    <3> QED
      BY <3>1
  <2>2. s.at # Null /\ s.at \in DOMAIN mem /\ s.off + 2 ^ p <= Len(mem[s.at]) /\ s.at \notin Literals
    BY <1>1 DEF Within, Capacity
  <2>3. 2 ^ p \in Nat /\ s.off \in Nat /\ Len(mem[s.at]) \in Nat
    BY <1>0, <2>2, PowersGrow DEF Within, BInv, Memory, Chars
  <2>4. \A m \in Alive \ {n} : Kept(str[m], mem, mem) /\ str[m].at # s.at
    BY <1>1, AloneInBuffer DEF BInv, Within, Kept
  <2> HIDE DEF p
  <2>5. s.off + to <= Len(mem[s.at])
    BY <1>0, <2>2, <2>3
  <2> QED
    BY <2>1, <2>2, <2>4, <2>5 DEF Made, Room, BInv
<1>2. CASE ~(p = s.power /\ p > 0)
  <2>1. PICK b \in Free(Freed(s)) :
           r = [s |-> [s EXCEPT !.power = p, !.free = TRUE, !.at = b, !.off = 0],
                mem |-> Put(Freed(s), b, moved)]
    BY <1>2 DEF Reserved
  <2>2. b # Null /\ b \notin DOMAIN Freed(s) /\ b \in Blocks /\ b \notin Literals
    BY DEF Free, GStringAssumption
  <2>3. Chars(moved) /\ Len(moved) = 2 ^ p /\ 2 ^ p \in Nat
        /\ \A i \in 1 .. 2 ^ p : moved[i] = IF i <= Len(kept) THEN kept[i] ELSE Junk
    <3>1. 2 ^ p \in Nat
      BY <1>0, PowersGrow
    <3>2. moved = [i \in 1 .. 2 ^ p |-> moved[i]]
      OBVIOUS
    <3>3. \A i \in 1 .. 2 ^ p : moved[i] = IF i <= Len(kept) THEN kept[i] ELSE Junk
      <4> HIDE DEF kept, p
      <4> QED
        OBVIOUS
    <3> HIDE DEF moved
    <3> QED
      BY <3>1, <3>2, <3>3, CharsOf
  <2> HIDE DEF moved
  <2>4. r.mem = Put(Freed(s), b, moved)
        /\ r.s = [s EXCEPT !.power = p, !.free = TRUE, !.at = b, !.off = 0]
    BY <2>1
  <2>5. Memory(r.mem) /\ b \in DOMAIN r.mem /\ r.mem[b] = moved
    BY <2>2, <2>3, <2>4, FreedKeeps, PutMemory
  <2>6. \A m \in Alive \ {n} : Kept(str[m], mem, r.mem) /\ str[m].at # b
    <3> SUFFICES ASSUME NEW m \in Alive \ {n} PROVE Kept(str[m], mem, r.mem) /\ str[m].at # b
      OBVIOUS
    <3>1. Kept(str[m], mem, Freed(s))
      BY FreedKeeps
    <3>2. Kept(str[m], mem, r.mem)
      BY <2>2, <2>4, <3>1, PutKeeps
    <3> QED
      BY <2>2, <3>1, <3>2 DEF Kept
  <2>7. r.s.at = b /\ r.s.off = 0 /\ r.s.power = p /\ r.s.len = s.len
    <3> HIDE DEF p
    <3> QED
      BY <2>4 DEF Shape
  <2>8. s.len \in Nat
    BY DEF Within
  <2>9. r.s.off + r.s.len <= Len(r.mem[r.s.at]) /\ r.s.off + to <= Len(r.mem[r.s.at])
        /\ r.s.off + 2 ^ p <= Len(r.mem[r.s.at]) /\ s.len <= 2 ^ p
    <3> DEFINE c == 2 ^ p
    <3>1. Len(r.mem[r.s.at]) = c
      BY <2>3, <2>5, <2>7
    <3>2. c \in Nat /\ c >= to /\ s.len \in Nat
      BY <1>0, <2>3, <2>8
    <3> HIDE DEF c
    <3>3. r.s.off + r.s.len <= c /\ r.s.off + to <= c /\ r.s.off + c <= c /\ s.len <= c
      BY <2>7, <3>2
    <3> QED
      BY <3>1, <3>3 DEF c
  <2>10. Within(r.s, r.mem)
    <3> HIDE DEF p
    <3> QED
      BY <1>0, <2>2, <2>5, <2>7, <2>8, <2>9 DEF Within, Capacity, p
  <2>11. ASSUME NEW i \in 1 .. s.len PROVE moved[i] = Bytes(s, mem)[i]
    <3>1. s.at # Null /\ s.at \in DOMAIN mem /\ s.off + s.len <= Len(mem[s.at]) /\ Len(mem[s.at]) \in Nat
      BY <2>8 DEF Within, BInv, Memory, Chars
    <3>2. Bytes(s, mem)[i] = mem[s.at][s.off + i] /\ Len(Bytes(s, mem)) = s.len
      BY BytesAre DEF BInv
    <3>3. i <= Len(kept) /\ kept[i] = Bytes(s, mem)[i]
      <4>1. CASE s.free
        <5>1. s.off = 0
          BY <3>1, <4>1 DEF IInv, OneOwner, NeedsFreeing
        <5>2. kept = mem[s.at]
          BY <3>1, <4>1
        <5> HIDE DEF kept
        <5> QED
          BY <2>8, <3>1, <3>2, <5>1, <5>2
      <4>2. CASE ~s.free
        <5>1. kept = Bytes(s, mem)
          BY <3>1, <4>2
        <5> HIDE DEF kept
        <5> QED
          BY <2>8, <3>2, <5>1
      <4> QED
        BY <4>1, <4>2
    <3>4. i \in 1 .. 2 ^ p
      <4> DEFINE c == 2 ^ p
      <4>1. c \in Nat /\ s.len <= c
        BY <2>3, <2>9
      <4> HIDE DEF c
      <4>2. i \in 1 .. c
        BY <2>8, <4>1
      <4> QED
        BY <4>2 DEF c
    <3> HIDE DEF kept, p
    <3> QED
      BY <2>3, <3>3, <3>4
  <2>12. Bytes(r.s, r.mem) = Bytes(s, mem)
    <3> DEFINE v == Bytes(r.s, r.mem)
               w == Bytes(s, mem)
    <3>1. Chars(v) /\ Len(v) = s.len /\ Chars(w) /\ Len(w) = s.len
      BY <2>5, <2>7, <2>10, BytesAre DEF BInv
    <3>2. ASSUME NEW i \in 1 .. s.len PROVE v[i] = w[i]
      <4>1. v[i] = r.mem[r.s.at][r.s.off + i]
        BY <2>5, <2>7, <2>10, BytesAre
      <4>2. r.s.off + i = i
        BY <2>7, <2>8
      <4> QED
        BY <2>5, <2>7, <2>11, <4>1, <4>2
    <3> HIDE DEF v, w
    <3>3. v = w
      BY <3>1, <3>2, EqualChars
    <3> QED
      BY <3>3 DEF v, w
  <2>13. ~(s.power > 0 /\ to <= Capacity(s))
    <3>1. 2 ^ s.power \in Nat
      BY <1>0, PowersGrow
    <3> QED
      BY <1>0, <1>2, <3>1 DEF Capacity
  <2> QED
    BY <2>2, <2>5, <2>6, <2>7, <2>9, <2>10, <2>12, <2>13 DEF Made, Room
<1> QED
  BY <1>1, <1>2

\* What does not throw, and what is not thrown at.
LEMMA DoesNotThrow ==
  ASSUME GStringAssumption, NEW s, NEW m, Within(s, m), NEW to \in Nat, ~Throws(s, to)
  PROVE  PowerFor(s.power, to) <= LengthBits
<1>1. 2 ^ s.power \in Nat /\ s.power \in Nat
  BY PowersGrow DEF Within
<1>2. PowerFor(s.power, to) \in Nat /\ (2 ^ s.power >= to => PowerFor(s.power, to) = s.power)
  BY <1>1, PowerForIs
<1>3. CASE 2 ^ s.power < to
  BY <1>3, <1>2 DEF Throws, GStringAssumption
<1>4. CASE 2 ^ s.power >= to
  BY <1>4, <1>2 DEF Within
<1> QED
  BY <1>1, <1>3, <1>4

LEMMA LessRoom ==
  ASSUME NEW s, s.off \in Nat, NEW m, Memory(m), NEW to \in Nat, Room(s, m, to),
         NEW from \in Nat, from <= to
  PROVE  Room(s, m, from)
<1>1. Len(m[s.at]) \in Nat /\ s.off + to <= Len(m[s.at]) /\ s.at # Null /\ s.at \in DOMAIN m
  BY DEF Room, Memory, Chars
<1>2. s.off + from <= Len(m[s.at])
  BY <1>1
<1> QED
  BY <1>1, <1>2 DEF Room

\* The string n has a buffer in m for itself, with so much room.
Alone(n, s, m, to) ==
    /\ Memory(m) /\ Within(s, m) /\ s.at \notin Literals /\ Room(s, m, to)
    /\ \A k \in Alive \ {n} : Kept(str[k], mem, m) /\ str[k].at # s.at

\* s with another length.
Resized(s, t, len) == t.len = len /\ t.at = s.at /\ t.off = s.off /\ t.power = s.power

\* The characters w are those of v where they were written, and those of old.
Overwrites(old, pos, v, w) ==
    /\ Chars(old) /\ Chars(v) /\ Chars(w)
    /\ \A i \in 1 .. Len(w) :
          IF i - pos \in 1 .. Len(v) THEN w[i] = v[i - pos] ELSE i <= Len(old) /\ w[i] = old[i]

\* A string that writes v into its buffer has the characters w then.
LEMMA WritesBounded ==
  ASSUME BInv, NEW n, NEW m, NEW s, NEW to \in Nat, Alone(n, s, m, to),
         NEW pos \in Nat, NEW v, pos + Len(v) <= to, NEW w, Len(w) <= to,
         Overwrites(Bytes(s, m), pos, v, w), NEW t, Resized(s, t, Len(w)),
         Turns(n, t), mem' = Write(m, s, pos, v)
  PROVE  Gives(n, w)
<1>0. /\ Memory(m) /\ Within(s, m) /\ s.at \notin Literals /\ Room(s, m, to)
      /\ \A k \in Alive \ {n} : Kept(str[k], mem, m) /\ str[k].at # s.at
      /\ Chars(v) /\ Chars(w) /\ Len(Bytes(s, m)) = s.len
      /\ t.len = Len(w) /\ t.at = s.at /\ t.off = s.off /\ t.power = s.power
      /\ t.len \in Nat /\ t.len <= to
      /\ \A i \in 1 .. t.len :
            IF i - pos \in 1 .. Len(v) THEN w[i] = v[i - pos]
            ELSE i <= s.len /\ w[i] = Bytes(s, m)[i]
  <2>1. Memory(m) /\ Within(s, m) /\ s.at \notin Literals /\ Room(s, m, to)
        /\ \A k \in Alive \ {n} : Kept(str[k], mem, m) /\ str[k].at # s.at
    BY DEF Alone
  <2>2. Len(Bytes(s, m)) = s.len
    BY <2>1, BytesAre
  <2>3. t.len = Len(w) /\ t.at = s.at /\ t.off = s.off /\ t.power = s.power
    BY DEF Resized
  <2>4. Chars(v) /\ Chars(w) /\ t.len \in Nat
    BY <2>3 DEF Overwrites, Chars
  <2> QED
    BY <2>1, <2>2, <2>3, <2>4 DEF Overwrites
<1>1. s.off \in Nat /\ Len(v) \in Nat /\ s.len \in Nat /\ s.at # Null /\ s.at \in DOMAIN m
      /\ Len(m[s.at]) \in Nat /\ s.off + to <= Len(m[s.at])
  BY <1>0 DEF Within, Chars, Room, Memory
<1>2. Room(s, m, pos + Len(v)) /\ Room(s, m, t.len)
  <2>1. pos + Len(v) \in Nat
    BY <1>1
  <2> QED
    BY <1>0, <1>1, <2>1, LessRoom
<1>3. /\ Memory(mem') /\ DOMAIN mem' = DOMAIN m
      /\ \A x \in DOMAIN m \ {s.at} : mem'[x] = m[x]
      /\ Len(mem'[s.at]) = Len(m[s.at])
      /\ \A i \in 1 .. Len(m[s.at]) :
            mem'[s.at][i] = IF i - s.off - pos \in 1 .. Len(v) THEN v[i - s.off - pos] ELSE m[s.at][i]
  <2>1. Memory(m) /\ s.at \notin Literals /\ Chars(v) /\ s.off \in Nat /\ Room(s, m, pos + Len(v))
    BY <1>0, <1>1, <1>2
  <2> QED
    BY <2>1, WritesWithin
<1>4. \A k \in Alive \ {n} : Kept(str[k], mem, mem')
  BY <1>0, <1>3 DEF Kept
<1>5. Capacity(t) = Capacity(s)
  BY <1>0 DEF Capacity
<1>6. Within(t, mem')
  BY <1>0, <1>1, <1>2, <1>3, <1>5 DEF Within, Room
<1>7. Bytes(t, mem') = w
  <2> DEFINE u == Bytes(t, mem')
  <2>1. Chars(u) /\ Len(u) = t.len /\ \A i \in 1 .. t.len : u[i] = mem'[s.at][s.off + i]
    BY <1>0, <1>3, <1>6, BytesAre
  <2>2. ASSUME NEW i \in 1 .. t.len PROVE u[i] = w[i]
    <3>1. s.off + i \in 1 .. Len(m[s.at]) /\ (s.off + i) - s.off - pos = i - pos
      <4> DEFINE off == s.off
                 size == Len(m[s.at])
      <4>1. off \in Nat /\ size \in Nat /\ off + to <= size /\ i \in Nat /\ 1 <= i /\ i <= to
        BY <1>0, <1>1
      <4> HIDE DEF off, size
      <4>2. off + i \in 1 .. size /\ (off + i) - off - pos = i - pos
        BY <4>1
      <4> QED
        BY <4>2 DEF off, size
    <3>2. u[i] = IF i - pos \in 1 .. Len(v) THEN v[i - pos] ELSE m[s.at][s.off + i]
      BY <1>0, <1>3, <2>1, <3>1
    <3>3. CASE i - pos \in 1 .. Len(v)
      BY <1>0, <3>2, <3>3
    <3>4. CASE ~(i - pos \in 1 .. Len(v))
      <4>1. i <= s.len /\ w[i] = Bytes(s, m)[i]
        BY <1>0, <3>4
      <4>2. i \in 1 .. s.len
        BY <1>1, <4>1
      <4>3. Bytes(s, m)[i] = m[s.at][s.off + i]
        BY <1>0, <4>2, BytesAre
      <4> QED
        BY <3>2, <3>4, <4>1, <4>3
    <3> QED
      BY <3>3, <3>4
  <2> HIDE DEF u
  <2>3. u = w
    BY <1>0, <2>1, <2>2, EqualChars
  <2> QED
    BY <2>3 DEF u
<1> QED
  BY <1>3, <1>4, <1>6, <1>7, TurnsBounded

\* What is written over the whole is all there is.
LEMMA OverwritesAll ==
  ASSUME NEW old, Chars(old), NEW v, Chars(v) PROVE Overwrites(old, 0, v, v)
<1>1. Len(v) \in Nat
  BY DEF Chars
<1>2. ASSUME NEW i \in 1 .. Len(v) PROVE i - 0 \in 1 .. Len(v) /\ v[i] = v[i - 0]
  <2>1. i - 0 = i
    BY <1>1
  <2> QED
    BY <2>1
<1> QED
  BY <1>2 DEF Overwrites

LEMMA Lengthened ==
  ASSUME NEW s, Shape(s), NEW len
  PROVE  Resized(s, [s EXCEPT !.len = len], len) /\ [s EXCEPT !.len = len].free = s.free
BY DEF Shape, Resized

LEMMA MadeIsAlone ==
  ASSUME NEW n, NEW s, NEW to, NEW r, Made(n, s, to, r) PROVE Alone(n, r.s, r.mem, to)
BY DEF Made, Alone

\* The characters that a string is extended by follow its own.
LEMMA ExtendBounded ==
  ASSUME IInv, BInv, GStringAssumption, NEW n \in Alive, Undisturbed(n),
         NEW s, Shape(s), s.free = str[n].free, s.at = str[n].at, s.off = str[n].off,
         s.power = str[n].power, Within(s, mem),
         NEW to \in Nat, PowerFor(s.power, to) <= LengthBits, NEW r \in Reserved(s, to),
         NEW v, Chars(v), NEW terminated \in BOOLEAN, s.len + Len(v) <= to,
         terminated => s.len + Len(v) < to, s.len + Len(v) < 2 ^ LengthBits,
         Extend(n, s, r, v, terminated)
  PROVE  Gives(n, Bytes(s, mem) \o v)
<1> DEFINE z == IF terminated THEN Append(v, "nul") ELSE v
           len == (s.len + Len(v)) % 2 ^ LengthBits
           t == [r.s EXCEPT !.len = len]
           old == Bytes(s, mem)
           w == old \o v
<1>1. s.len \in Nat /\ Len(v) \in Nat /\ s.len <= to
  <2>1. s.len \in Nat /\ Len(v) \in Nat
    BY DEF Within, Chars
  <2> QED
    BY <2>1
<1>2. Made(n, s, to, r) /\ Shape(r.s)
  BY <1>1, ReservedRoom, ReservedIs
<1>3. Chars(z) /\ Len(z) \in Nat /\ s.len + Len(z) <= to /\ Len(v) <= Len(z)
      /\ \A i \in 1 .. Len(v) : z[i] = v[i]
  <2>1. CASE terminated
    <3>1. Chars(z) /\ Len(z) = Len(v) + 1 /\ \A i \in 1 .. Len(v) : z[i] = v[i]
      BY <2>1, CharsAndZero
    <3> HIDE DEF z
    <3> QED
      BY <3>1, <2>1, <1>1
  <2>2. CASE ~terminated
    BY <2>2, <1>1
  <2> QED
    BY <2>1, <2>2
<1>4. str' = Put(str, n, t) /\ mem' = Write(r.mem, r.s, s.len, z)
  BY DEF Extend
<1> HIDE DEF z
<1>5. len = s.len + Len(v) /\ len \in Nat /\ len <= to
  <2>1. LengthBits \in Nat
    BY DEF GStringAssumption
  <2>2. 2 ^ LengthBits \in Nat
    BY <2>1, PowersGrow
  <2>3. s.len + Len(v) \in Nat
    BY <1>1
  <2>4. len = s.len + Len(v)
    BY <2>2, <2>3, Modulo
  <2> QED
    BY <2>3, <2>4
<1> HIDE DEF len
<1>6. Resized(r.s, t, len)
  BY <1>2, Lengthened
<1> HIDE DEF t
<1>7. Chars(old) /\ Len(old) = s.len /\ Bytes(r.s, r.mem) = old
  BY <1>2, BytesAre DEF BInv, Made
<1> HIDE DEF old
<1>8. Chars(w) /\ Len(w) = len
      /\ \A i \in 1 .. len : w[i] = IF i <= s.len THEN old[i] ELSE v[i - s.len]
  <2>1. Chars(old) /\ Chars(v)
    BY <1>7
  <2>2. Chars(w) /\ Len(w) = Len(old) + Len(v)
        /\ \A i \in 1 .. Len(old) + Len(v) : w[i] = IF i <= Len(old) THEN old[i] ELSE v[i - Len(old)]
    BY <2>1, Concat
  <2>3. len = Len(old) + Len(v) /\ Len(old) = s.len
    BY <1>5, <1>7
  <2> HIDE DEF w
  <2> QED
    BY <2>2, <2>3
<1> HIDE DEF w
<1>9. ASSUME NEW i \in 1 .. len
      PROVE  IF i - s.len \in 1 .. Len(z) THEN w[i] = z[i - s.len]
             ELSE i <= Len(old) /\ w[i] = old[i]
  <2>1. i \in Nat /\ i <= s.len + Len(v) /\ i >= 1
    BY <1>5
  <2>2. CASE i <= s.len
    <3>1. i - s.len \notin 1 .. Len(z)
      BY <1>1, <2>1, <2>2
    <3> QED
      BY <1>7, <1>8, <2>2, <3>1
  <2>3. CASE ~(i <= s.len)
    <3>1. i - s.len \in 1 .. Len(v) /\ i - s.len \in 1 .. Len(z)
      BY <1>1, <1>3, <2>1, <2>3
    <3> QED
      BY <1>3, <1>8, <2>3, <3>1
  <2> QED
    BY <2>2, <2>3
<1>10. Overwrites(Bytes(r.s, r.mem), s.len, z, w)
  BY <1>3, <1>7, <1>8, <1>9 DEF Overwrites
<1>11. Resized(r.s, t, Len(w)) /\ Len(w) <= to
  BY <1>5, <1>6, <1>8
<1>12. Gives(n, w)
  BY <1>1, <1>2, <1>3, <1>4, <1>10, <1>11, MadeIsAlone, PutTurns, WritesBounded
<1> QED
  BY <1>12 DEF w, old
-----------------------------------------------------------------------------
(* The times.                                                                *)

\* The capacity that appendTime tries after p, and what it does with p.
TimeNext(p, pos) ==
    LET left == 2 ^ p - pos
    IN  PowerFor(p, IF left < TimeMin THEN pos + TimeMin ELSE pos + left * 2)
TimeStep(e, p, pos, v) ==
    LET left == 2 ^ p - pos
    IN  IF left >= TimeMin /\ v # << >> /\ Len(v) < left THEN <<p, TRUE>>
        ELSE IF (left >= TimeMin /\ left > TimeMax) \/ TimeNext(p, pos) > LengthBits THEN <<p, FALSE>>
        ELSE e[TimeNext(p, pos)]

\* appendTime is never tried twice with one capacity, and has room after one
\* it has reserved.
LEMMA TimeGrows ==
  ASSUME GStringAssumption, NEW p \in Nat, NEW pos \in Nat
  PROVE  TimeNext(p, pos) \in Nat /\ TimeNext(p, pos) > p /\ 2 ^ TimeNext(p, pos) > pos
<1> DEFINE c == 2 ^ p
           left == c - pos
           to == IF left < TimeMin THEN pos + TimeMin ELSE pos + left * 2
<1>1. c \in Nat /\ TimeMin \in Nat /\ TimeMin >= 2
  BY PowersGrow DEF GStringAssumption
<1>2. to \in Nat /\ to > pos /\ c < to
  <2> HIDE DEF c
  <2> QED
    BY <1>1
<1>3. TimeNext(p, pos) = PowerFor(p, to)
  BY DEF TimeNext
<1> HIDE DEF to
<1> DEFINE q == PowerFor(p, to)
<1>4. q \in Nat /\ q > p /\ 2 ^ q >= to
  BY <1>2, PowerForIs
<1>5. 2 ^ q \in Nat
  BY <1>4, PowersGrow
<1> HIDE DEF q
<1>6. 2 ^ q > pos
  BY <1>2, <1>4, <1>5
<1> QED
  BY <1>3, <1>4, <1>6 DEF q

\* TimeEnd's recursion is a definition: it ends at LengthBits.
LEMMA TimesEnd ==
  ASSUME GStringAssumption, NEW pos \in Nat, NEW v
  PROVE  \E e : e = [p \in Nat |-> TimeStep(e, p, pos, v)]
<1> DEFINE Step(e, p) == TimeStep(e, p, pos, v)
           next(p) == TimeNext(p, pos)
           From(e, k) == /\ e = [p \in Nat |-> e[p]]
                         /\ \A p \in Nat : p + k > LengthBits => e[p] = Step(e, p)
           T == {k \in Nat : \E e : From(e, k)}
<1>0. LengthBits \in Nat
  BY DEF GStringAssumption
<1>1. \A p \in Nat : next(p) \in Nat /\ next(p) > p
  BY TimeGrows
<1>2. ASSUME NEW p \in Nat, NEW e, NEW f, next(p) <= LengthBits => e[next(p)] = f[next(p)]
      PROVE  Step(e, p) = Step(f, p)
  <2>1. next(p) > LengthBits \/ next(p) <= LengthBits
    BY <1>0, <1>1
  <2> QED
    BY <1>2, <2>1 DEF TimeStep
<1> HIDE DEF Step, next
<1>3. 0 \in T
  <2> DEFINE e == [p \in Nat |-> Step(<< >>, p)]
  <2>1. ASSUME NEW p \in Nat, p + 0 > LengthBits PROVE e[p] = Step(e, p)
    <3>1. ~(next(p) <= LengthBits)
      BY <1>0, <1>1, <2>1
    <3>2. Step(<< >>, p) = Step(e, p)
      <4> HIDE DEF e
      <4> QED
        BY <3>1, <1>2
    <3> QED
      BY <3>2
  <2>2. e = [p \in Nat |-> e[p]]
    OBVIOUS
  <2> HIDE DEF e
  <2>3. From(e, 0)
    BY <2>1, <2>2
  <2> QED
    BY <2>3
<1>4. ASSUME NEW k \in Nat, k \in T PROVE k + 1 \in T
  <2>1. PICK e : From(e, k)
    BY <1>4
  <2>2. CASE k > LengthBits
    <3>1. From(e, k + 1)
      BY <1>0, <2>1, <2>2
    <3> QED
      BY <3>1
  <2>3. CASE ~(k > LengthBits)
    <3> DEFINE q == LengthBits - k
               f == [p \in Nat |-> IF p = q THEN Step(e, q) ELSE e[p]]
    <3>1. q \in Nat
      BY <1>0, <2>3
    <3>2. ASSUME NEW p \in Nat, p + (k + 1) > LengthBits PROVE f[p] = Step(f, p)
      <4>1. p = q \/ p + k > LengthBits
        BY <3>2, <1>0
      <4>2. f[p] = Step(e, p)
        BY <4>1, <2>1
      <4>3. next(p) \in Nat /\ next(p) # q
        BY <3>2, <1>0, <1>1
      <4>4. e[next(p)] = f[next(p)]
        BY <4>3
      <4> HIDE DEF f
      <4>5. Step(e, p) = Step(f, p)
        BY <4>4, <1>2
      <4> QED
        BY <4>2, <4>5
    <3>3. f = [p \in Nat |-> f[p]]
      OBVIOUS
    <3> HIDE DEF f
    <3>4. From(f, k + 1)
      BY <3>2, <3>3
    <3> QED
      BY <3>4
  <2> QED
    BY <2>2, <2>3
<1>5. Nat \subseteq T
  <2> HIDE DEF T
  <2> QED
    BY <1>3, <1>4, InductionInSet
<1>6. LengthBits + 1 \in T
  BY <1>0, <1>5
<1>7. PICK e : From(e, LengthBits + 1)
  BY <1>6
<1>8. \A p \in Nat : e[p] = Step(e, p)
  BY <1>0, <1>7
<1>9. e = [p \in Nat |-> Step(e, p)]
  <2>1. e = [p \in Nat |-> e[p]]
    BY <1>7
  <2> HIDE DEF From
  <2> QED
    BY <1>8, <2>1
<1> QED
  BY <1>9 DEF Step

\* Where appendTime stops there is room for the characters and the zero, if it
\* has written them, and for those that were there, if it has reserved; it does
\* not reserve more than there can be.
TimeFits(q, p, pos, v) ==
    /\ q[1] \in Nat
    /\ q[2] => pos + Len(v) < 2 ^ q[1]
    /\ q = <<p, FALSE>> \/ pos <= 2 ^ q[1]
    /\ p <= LengthBits => q[1] <= LengthBits

LEMMA TimeEndFits ==
  ASSUME GStringAssumption, NEW power \in Nat, NEW pos \in Nat, NEW v, Chars(v)
  PROVE  TimeFits(TimeEnd(power, pos, v), power, pos, v)
<1> DEFINE e == CHOOSE f : f = [p \in Nat |-> TimeStep(f, p, pos, v)]
<1>1. e = [p \in Nat |-> TimeStep(e, p, pos, v)]
  BY TimesEnd
<1>2. TimeEnd(power, pos, v) = e[power]
  BY DEF TimeEnd, TimeStep, TimeNext
<1> HIDE DEF e
<1> DEFINE Good(p) == TimeFits(e[p], p, pos, v)
           T == {k \in Nat : \A p \in Nat : p + k > LengthBits => Good(p)}
<1>3. LengthBits \in Nat /\ TimeMin \in Nat
  BY DEF GStringAssumption
<1>4. ASSUME NEW p \in Nat, TimeNext(p, pos) <= LengthBits => Good(TimeNext(p, pos))
      PROVE  Good(p)
  <2> DEFINE c == 2 ^ p
  <2>1. c \in Nat /\ Len(v) \in Nat
    BY PowersGrow DEF Chars
  <2>2. e[p] = TimeStep(e, p, pos, v)
    BY <1>1
  <2>3. CASE c - pos >= TimeMin /\ v # << >> /\ Len(v) < c - pos
    <3>1. e[p] = <<p, TRUE>>
      BY <2>2, <2>3 DEF TimeStep
    <3>2. pos + Len(v) < c /\ pos <= c
      <4> HIDE DEF c
      <4> QED
        BY <2>1, <2>3
    <3> QED
      BY <3>1, <3>2 DEF TimeFits
  <2>4. CASE e[p] = <<p, FALSE>>
    BY <2>4 DEF TimeFits
  <2>5. CASE TimeNext(p, pos) <= LengthBits /\ e[p] = e[TimeNext(p, pos)]
    <3> DEFINE q == TimeNext(p, pos)
    <3>1. q \in Nat /\ 2 ^ q > pos /\ Good(q)
      BY <1>4, <2>5, TimeGrows
    <3>2. 2 ^ q \in Nat
      BY <3>1, PowersGrow
    <3>3. pos <= 2 ^ q
      BY <3>1, <3>2
    <3> HIDE DEF q
    <3>4. pos <= 2 ^ e[q][1]
      <4>1. e[q] = <<q, FALSE>> \/ pos <= 2 ^ e[q][1]
        BY <3>1 DEF TimeFits
      <4>2. CASE e[q] = <<q, FALSE>>
        <5>1. e[q][1] = q
          BY <4>2
        <5> QED
          BY <3>3, <5>1
      <4> QED
        BY <4>1, <4>2
    <3> QED
      BY <3>1, <3>4, <2>5 DEF TimeFits, q
  <2> QED
    <3>1. TimeNext(p, pos) \in Nat
      BY TimeGrows
    <3>2. TimeNext(p, pos) > LengthBits \/ TimeNext(p, pos) <= LengthBits
      BY <1>3, <3>1
    <3> QED
      BY <2>2, <2>3, <2>4, <2>5, <3>2 DEF TimeStep
<1> HIDE DEF Good
<1>5. 0 \in T
  <2> SUFFICES ASSUME NEW p \in Nat, p + 0 > LengthBits PROVE Good(p)
    OBVIOUS
  <2>1. ~(TimeNext(p, pos) <= LengthBits)
    BY <1>3, TimeGrows
  <2> QED
    BY <2>1, <1>4
<1>6. ASSUME NEW k \in Nat, k \in T PROVE k + 1 \in T
  <2> SUFFICES ASSUME NEW p \in Nat, p + (k + 1) > LengthBits PROVE Good(p)
    OBVIOUS
  <2>1. TimeNext(p, pos) \in Nat /\ TimeNext(p, pos) + k > LengthBits
    BY <1>3, TimeGrows
  <2> QED
    BY <2>1, <1>4, <1>6
<1>7. Nat \subseteq T
  <2> HIDE DEF T
  <2> QED
    BY <1>5, <1>6, InductionInSet
<1>8. LengthBits + 1 \in T
  BY <1>3, <1>7
<1>9. Good(power)
  BY <1>3, <1>8
<1> QED
  BY <1>2, <1>9 DEF Good
-----------------------------------------------------------------------------
(* The digits.                                                               *)

\* What itoa writes for v, from the lowest digit on, and what a numeral is.
LowStep(e, v, base) == <<Digit[(v % base) + 1]>> \o (IF v < base THEN << >> ELSE e[v \div base])
TopStep(e, v, base) == (IF v < base THEN << >> ELSE e[v \div base]) \o <<Digit[(v % base) + 1]>>

LEMMA FewerDigits ==
  ASSUME NEW base \in Nat, base >= 2, NEW v \in Nat, v >= base
  PROVE  v \div base \in Nat /\ v \div base < v
<1> DEFINE q == v \div base
<1>1. q \in Nat
  OBVIOUS
<1>2. base * q <= v
  OBVIOUS
<1>3. q * 2 <= base * q
  <2> HIDE DEF q
  <2> QED
    BY <1>1
<1>4. q < v
  <2> HIDE DEF q
  <2> QED
    BY <1>1, <1>2, <1>3
<1> QED
  BY <1>1, <1>4

\* Two sequences of digits that are right up to a number are the same.
BothRight(base, k, e, f) ==
    \/ \A v \in Nat : v < k => e[v] = LowStep(e, v, base) /\ f[v] = LowStep(f, v, base)
    \/ \A v \in Nat : v < k => e[v] = TopStep(e, v, base) /\ f[v] = TopStep(f, v, base)

LEMMA SameDigits ==
  ASSUME NEW base \in Nat, base >= 2, NEW k \in Nat, NEW e, NEW f, BothRight(base, k, e, f)
  PROVE  \A v \in Nat : v < k => e[v] = f[v]
<1> DEFINE T == {v \in Nat : v < k /\ e[v] # f[v]}
<1> SUFFICES ASSUME T # {} PROVE FALSE
  OBVIOUS
<1>1. PICK v \in T : \A u \in T : v <= u
  <2>1. T \subseteq Nat
    OBVIOUS
  <2> HIDE DEF T
  <2> QED
    BY <2>1, LeastOfNat
<1>2. ~(v < base) => e[v \div base] = f[v \div base]
  <2> SUFFICES ASSUME ~(v < base) PROVE e[v \div base] = f[v \div base]
    OBVIOUS
  <2>1. v \div base \in Nat /\ v \div base < v
    BY FewerDigits
  <2> DEFINE q == v \div base
  <2>2. q \in Nat /\ q < v /\ v < k /\ v \in Nat
    BY <2>1
  <2> HIDE DEF q
  <2>3. q \notin T /\ q < k
    BY <1>1, <2>2
  <2> QED
    BY <2>2, <2>3 DEF q
<1>3. LowStep(e, v, base) = LowStep(f, v, base) /\ TopStep(e, v, base) = TopStep(f, v, base)
  BY <1>2 DEF LowStep, TopStep
<1> QED
  BY <1>1, <1>3 DEF BothRight

\* itoa's digits exist: they are those of its steps, as far as they go.
LEMMA DigitsEnd ==
  ASSUME NEW base \in Nat, base >= 2
  PROVE  \E e : e = [v \in Nat |-> LowStep(e, v, base)]
<1> DEFINE Step(e, v) == LowStep(e, v, base)
           Upto(e, k) == \A v \in Nat : v < k => e[v] = Step(e, v)
           T == {k \in Nat : \E e : Upto(e, k)}
<1>1. ASSUME NEW v \in Nat, NEW e, NEW f, ~(v < base) => e[v \div base] = f[v \div base]
      PROVE  Step(e, v) = Step(f, v)
  BY <1>1 DEF LowStep
<1>2. ASSUME NEW k \in Nat, NEW e, NEW f, Upto(e, k), Upto(f, k)
      PROVE  \A v \in Nat : v < k => e[v] = f[v]
  BY <1>2, SameDigits DEF BothRight
<1> HIDE DEF Step
<1>3. 0 \in T
  <2>1. Upto(<< >>, 0)
    OBVIOUS
  <2> QED
    BY <2>1
<1>4. ASSUME NEW k \in Nat, k \in T PROVE k + 1 \in T
  <2>1. PICK e : Upto(e, k)
    BY <1>4
  <2> DEFINE f == [v \in Nat |-> IF v = k THEN Step(e, k) ELSE e[v]]
  <2>2. ASSUME NEW v \in Nat, v < k + 1 PROVE f[v] = Step(f, v)
    <3>1. f[v] = Step(e, v)
      BY <2>1, <2>2
    <3>2. ~(v < base) => e[v \div base] = f[v \div base]
      <4> SUFFICES ASSUME ~(v < base) PROVE e[v \div base] = f[v \div base]
        OBVIOUS
      <4> DEFINE q == v \div base
      <4>1. q \in Nat /\ q < v
        BY FewerDigits
      <4> HIDE DEF q
      <4>2. q # k
        BY <2>2, <4>1
      <4> QED
        BY <4>1, <4>2 DEF q
    <3> HIDE DEF f
    <3>3. Step(e, v) = Step(f, v)
      BY <3>2, <1>1
    <3> QED
      BY <3>1, <3>3
  <2> HIDE DEF f
  <2>3. Upto(f, k + 1)
    BY <2>2
  <2> QED
    BY <2>3
<1>5. Nat \subseteq T
  <2> HIDE DEF T
  <2> QED
    BY <1>3, <1>4, InductionInSet
<1> DEFINE part(k) == CHOOSE e : Upto(e, k)
<1>6. ASSUME NEW k \in Nat PROVE Upto(part(k), k)
  <2>1. \E e : Upto(e, k)
    BY <1>5
  <2> HIDE DEF Upto
  <2> QED
    BY <2>1
<1> HIDE DEF part, T
<1> DEFINE e == [v \in Nat |-> part(v + 1)[v]]
<1>7. ASSUME NEW v \in Nat PROVE e[v] = Step(e, v)
  <2>1. e[v] = part(v + 1)[v]
    OBVIOUS
  <2>2. part(v + 1)[v] = Step(part(v + 1), v)
    <3>1. v + 1 \in Nat /\ v < v + 1
      OBVIOUS
    <3> QED
      BY <3>1, <1>6
  <2>3. ~(v < base) => part(v + 1)[v \div base] = e[v \div base]
    <3> SUFFICES ASSUME ~(v < base) PROVE part(v + 1)[v \div base] = e[v \div base]
      OBVIOUS
    <3> DEFINE q == v \div base
    <3>1. q \in Nat /\ q < v
      BY FewerDigits
    <3> HIDE DEF q
    <3>2. q + 1 \in Nat /\ v + 1 \in Nat /\ q < q + 1
      BY <3>1
    <3>3. Upto(part(q + 1), q + 1) /\ Upto(part(v + 1), v + 1)
      BY <1>6, <3>2
    <3>4. Upto(part(v + 1), q + 1)
      BY <3>1, <3>3
    <3>5. part(v + 1)[q] = part(q + 1)[q]
      <4> HIDE DEF Upto
      <4> QED
        BY <1>2, <3>1, <3>2, <3>3, <3>4
    <3>6. e[q] = part(q + 1)[q]
      BY <3>1
    <3> QED
      BY <3>5, <3>6 DEF q
  <2> HIDE DEF e
  <2>4. Step(part(v + 1), v) = Step(e, v)
    BY <1>1, <2>3
  <2> QED
    BY <2>1, <2>2, <2>4
<1>8. e = [v \in Nat |-> Step(e, v)]
  <2>1. e = [v \in Nat |-> e[v]]
    OBVIOUS
  <2> HIDE DEF e
  <2> QED
    BY <1>7, <2>1
<1> QED
  BY <1>8 DEF Step

\* Reversing a sequence that a character is put before or behind.
LEMMA BackwardsOfMore ==
  ASSUME NEW v, Chars(v), NEW c
  PROVE  Reverse(<<c>> \o v) = Reverse(v) \o <<c>> /\ Reverse(v \o <<c>>) = <<c>> \o Reverse(v)
<1> DEFINE o == <<c>>
           n == Len(v)
           r == Reverse(v)
<1>1. Chars(o) /\ Len(o) = 1 /\ o[1] = c /\ n \in Nat
  BY OneChar DEF Chars
<1>2. Chars(r) /\ Len(r) = n /\ \A k \in 1 .. n : r[k] = v[n - k + 1]
  BY Backwards
<1> HIDE DEF o, r
<1>3. Reverse(o \o v) = r \o o
  <2> DEFINE a == o \o v
             b == Reverse(a)
             w == r \o o
  <2>1. Chars(a) /\ Len(a) = n + 1 /\ \A i \in 1 .. n + 1 : a[i] = IF i <= 1 THEN o[i] ELSE v[i - 1]
    <3>1. Chars(a) /\ Len(a) = Len(o) + Len(v)
          /\ \A i \in 1 .. Len(o) + Len(v) : a[i] = IF i <= Len(o) THEN o[i] ELSE v[i - Len(o)]
      BY <1>1, Concat
    <3>2. Len(o) + Len(v) = n + 1 /\ Len(o) = 1
      BY <1>1
    <3> HIDE DEF a
    <3> QED
      BY <3>1, <3>2
  <2> HIDE DEF a
  <2>2. Chars(b) /\ Len(b) = n + 1 /\ \A k \in 1 .. n + 1 : b[k] = a[n + 1 - k + 1]
    BY <2>1, Backwards
  <2>3. Chars(w) /\ Len(w) = n + 1 /\ \A i \in 1 .. n + 1 : w[i] = IF i <= n THEN r[i] ELSE o[i - n]
    <3>1. Chars(w) /\ Len(w) = Len(r) + Len(o)
          /\ \A i \in 1 .. Len(r) + Len(o) : w[i] = IF i <= Len(r) THEN r[i] ELSE o[i - Len(r)]
      BY <1>1, <1>2, Concat
    <3>2. Len(r) + Len(o) = n + 1 /\ Len(r) = n
      BY <1>1, <1>2
    <3> HIDE DEF w
    <3> QED
      BY <3>1, <3>2
  <2> HIDE DEF b, w, n
  <2>4. ASSUME NEW k \in 1 .. n + 1 PROVE b[k] = w[k]
    <3>1. CASE k <= n
      <4> DEFINE j == n + 1 - k + 1
      <4>1. k \in 1 .. n /\ j \in 1 .. n + 1 /\ ~(j <= 1) /\ j - 1 = n - k + 1
        BY <1>1, <3>1
      <4>2. b[k] = a[j]
        BY <2>2
      <4> HIDE DEF j
      <4>3. a[j] = v[j - 1]
        BY <2>1, <4>1
      <4>4. b[k] = v[n - k + 1]
        BY <4>1, <4>2, <4>3
      <4> QED
        BY <1>2, <2>3, <3>1, <4>1, <4>4
    <3>2. CASE k = n + 1
      <4>1. n + 1 - k + 1 = 1 /\ k - n = 1 /\ ~(k <= n) /\ 1 \in 1 .. n + 1
        BY <1>1, <3>2
      <4> QED
        BY <2>1, <2>2, <2>3, <4>1
    <3> QED
      BY <1>1, <3>1, <3>2
  <2>5. b = w
    BY <2>2, <2>3, <2>4, EqualChars
  <2> QED
    BY <2>5 DEF a, b, w
<1>4. Reverse(v \o o) = o \o r
  <2> DEFINE a == v \o o
             b == Reverse(a)
             w == o \o r
  <2>1. Chars(a) /\ Len(a) = n + 1 /\ \A i \in 1 .. n + 1 : a[i] = IF i <= n THEN v[i] ELSE o[i - n]
    <3>1. Chars(a) /\ Len(a) = Len(v) + Len(o)
          /\ \A i \in 1 .. Len(v) + Len(o) : a[i] = IF i <= Len(v) THEN v[i] ELSE o[i - Len(v)]
      BY <1>1, Concat
    <3>2. Len(v) + Len(o) = n + 1 /\ Len(v) = n
      BY <1>1
    <3> HIDE DEF a
    <3> QED
      BY <3>1, <3>2
  <2> HIDE DEF a
  <2>2. Chars(b) /\ Len(b) = n + 1 /\ \A k \in 1 .. n + 1 : b[k] = a[n + 1 - k + 1]
    BY <2>1, Backwards
  <2>3. Chars(w) /\ Len(w) = n + 1 /\ \A i \in 1 .. n + 1 : w[i] = IF i <= 1 THEN o[i] ELSE r[i - 1]
    <3>1. Chars(w) /\ Len(w) = Len(o) + Len(r)
          /\ \A i \in 1 .. Len(o) + Len(r) : w[i] = IF i <= Len(o) THEN o[i] ELSE r[i - Len(o)]
      BY <1>1, <1>2, Concat
    <3>2. Len(o) + Len(r) = n + 1 /\ Len(o) = 1
      BY <1>1, <1>2
    <3> HIDE DEF w
    <3> QED
      BY <3>1, <3>2
  <2> HIDE DEF b, w, n
  <2>4. ASSUME NEW k \in 1 .. n + 1 PROVE b[k] = w[k]
    <3>1. CASE k = 1
      <4> DEFINE j == n + 1 - k + 1
      <4>1. j - n = 1 /\ ~(j <= n) /\ j \in 1 .. n + 1 /\ k <= 1
        BY <1>1, <3>1
      <4>2. b[k] = a[j]
        BY <2>2
      <4> HIDE DEF j
      <4>3. a[j] = o[1]
        BY <2>1, <4>1
      <4>4. w[k] = o[1]
        BY <2>3, <3>1, <4>1
      <4> QED
        BY <4>2, <4>3, <4>4
    <3>2. CASE k # 1
      <4>1. k - 1 \in 1 .. n /\ n + 1 - k + 1 \in 1 .. n + 1 /\ n + 1 - k + 1 <= n
            /\ n - (k - 1) + 1 = n + 1 - k + 1 /\ ~(k <= 1)
        BY <1>1, <3>2
      <4>2. b[k] = v[n + 1 - k + 1]
        BY <2>1, <2>2, <4>1
      <4> QED
        BY <1>2, <2>3, <3>2, <4>1, <4>2
    <3> QED
      BY <3>1, <3>2
  <2>5. b = w
    BY <2>2, <2>3, <2>4, EqualChars
  <2> QED
    BY <2>5 DEF a, b, w
<1> QED
  BY <1>3, <1>4 DEF o, r

\* itoa writes the numeral.
LEMMA ItoaIsNumeral ==
  ASSUME NEW iv \in Int, NEW base \in Nat, base >= 2
  PROVE  Itoa(iv, base) = ValueStrings!Numeral(iv, base) /\ Chars(Itoa(iv, base))
<1> DEFINE low == CHOOSE e : e = [v \in Nat |-> LowStep(e, v, base)]
           digits == CHOOSE e : e = [v \in Nat |-> TopStep(e, v, base)]
           back == [v \in Nat |-> Reverse(low[v])]
<1>1. Itoa(iv, base) = IF iv < 0 THEN Reverse(low[-iv] \o <<"-">>) ELSE Reverse(low[iv])
  BY DEF Itoa, LowStep
<1>2. ValueStrings!Numeral(iv, base) = IF iv < 0 THEN <<"-">> \o digits[-iv] ELSE digits[iv]
  BY DEF ValueStrings!Numeral, TopStep
<1>3. low = [v \in Nat |-> LowStep(low, v, base)]
  BY DigitsEnd
<1> HIDE DEF low
<1>4. \A v \in Nat : low[v] = LowStep(low, v, base)
  BY <1>3
<1>5. \A v \in Nat : Chars(low[v])
  <2> DEFINE T == {v \in Nat : ~Chars(low[v])}
  <2> SUFFICES ASSUME T # {} PROVE FALSE
    OBVIOUS
  <2>1. PICK v \in T : \A u \in T : v <= u
    <3>1. T \subseteq Nat
      OBVIOUS
    <3> HIDE DEF T
    <3> QED
      BY <3>1, LeastOfNat
  <2> DEFINE c == <<Digit[(v % base) + 1]>>
             rest == IF v < base THEN << >> ELSE low[v \div base]
  <2>2. low[v] = c \o rest
    BY <1>4, <2>1 DEF LowStep
  <2>3. Chars(c)
    BY OneChar
  <2>4. Chars(rest)
    <3>1. CASE v < base
      BY <3>1, NoChars
    <3>2. CASE ~(v < base)
      <4> DEFINE q == v \div base
      <4>1. q \in Nat /\ q < v
        BY <3>2, <2>1, FewerDigits
      <4> HIDE DEF q
      <4>2. q \notin T
        BY <2>1, <4>1
      <4> QED
        BY <3>2, <4>1, <4>2 DEF q
    <3> QED
      BY <3>1, <3>2
  <2> HIDE DEF c, rest
  <2>5. Chars(low[v])
    BY <2>2, <2>3, <2>4, Concat
  <2> QED
    BY <2>1, <2>5
<1>6. \A v \in Nat : back[v] = TopStep(back, v, base)
  <2> SUFFICES ASSUME NEW v \in Nat PROVE back[v] = TopStep(back, v, base)
    OBVIOUS
  <2> DEFINE d == Digit[(v % base) + 1]
             rest == IF v < base THEN << >> ELSE low[v \div base]
  <2>1. back[v] = Reverse(low[v]) /\ low[v] = <<d>> \o rest
    BY <1>4 DEF LowStep
  <2>2. CASE v < base
    <3>1. Chars(rest) /\ Reverse(rest) = << >>
      <4>1. Chars(rest) /\ Len(rest) = 0
        BY <2>2, NoChars
      <4> HIDE DEF rest
      <4>2. Chars(Reverse(rest)) /\ Len(Reverse(rest)) = 0
        BY <4>1, Backwards
      <4> QED
        BY <4>1, <4>2, NoChars, EqualChars
    <3> HIDE DEF rest, back, d
    <3>2. Reverse(<<d>> \o rest) = Reverse(rest) \o <<d>>
      BY <3>1, BackwardsOfMore
    <3>3. back[v] = << >> \o <<d>>
      BY <2>1, <3>1, <3>2
    <3> QED
      BY <2>2, <3>3 DEF TopStep, d
  <2>3. CASE ~(v < base)
    <3>1. v \div base \in Nat
      BY <2>3, FewerDigits
    <3>2. Chars(rest) /\ Reverse(rest) = back[v \div base]
      BY <1>5, <2>3, <3>1
    <3> HIDE DEF rest, back, d
    <3>3. back[v] = back[v \div base] \o <<d>>
      BY <2>1, <3>2, BackwardsOfMore
    <3> QED
      BY <2>3, <3>3 DEF TopStep, d
  <2> QED
    BY <2>2, <2>3
<1>7. digits = [v \in Nat |-> TopStep(digits, v, base)]
  <2>1. back = [v \in Nat |-> back[v]]
    OBVIOUS
  <2> HIDE DEF back
  <2>2. back = [v \in Nat |-> TopStep(back, v, base)]
    BY <1>6, <2>1
  <2> QED
    BY <2>2
<1> HIDE DEF digits
<1>8. \A v \in Nat : digits[v] = TopStep(digits, v, base)
  BY <1>7
<1>9. \A v \in Nat : digits[v] = back[v]
  <2> SUFFICES ASSUME NEW v \in Nat PROVE digits[v] = back[v]
    OBVIOUS
  <2> HIDE DEF back
  <2>1. v + 1 \in Nat /\ v < v + 1
    OBVIOUS
  <2>2. \A u \in Nat : u < v + 1 => digits[u] = TopStep(digits, u, base) /\ back[u] = TopStep(back, u, base)
    BY <1>6, <1>8
  <2>3. BothRight(base, v + 1, digits, back)
    BY <2>2 DEF BothRight
  <2> QED
    BY <2>1, <2>3, SameDigits
<1>10. \A v \in Nat : digits[v] = Reverse(low[v])
  BY <1>9
<1>11. CASE iv < 0
  <2>1. -iv \in Nat
    BY <1>11
  <2>2. Reverse(low[-iv] \o <<"-">>) = <<"-">> \o Reverse(low[-iv]) /\ Chars(low[-iv])
    BY <1>5, <2>1, BackwardsOfMore
  <2>3. Chars(Reverse(low[-iv] \o <<"-">>))
    BY <2>2, OneChar, Concat, Backwards
  <2> QED
    BY <1>1, <1>2, <1>10, <1>11, <2>1, <2>2, <2>3
<1>12. CASE ~(iv < 0)
  <2>1. iv \in Nat
    BY <1>12
  <2>2. Chars(Reverse(low[iv]))
    BY <1>5, <2>1, Backwards
  <2> QED
    BY <1>1, <1>2, <1>10, <1>12, <2>1, <2>2
<1> QED
  BY <1>11, <1>12
-----------------------------------------------------------------------------
(* The calls, again: what they give a string, within bounds.                 *)

LEMMA TextsAreChars ==
  ASSUME TextsAssumption
  PROVE  /\ \A v \in Texts \cup Times : Chars(v)
         /\ \A b \in Stacks \cup Literals : Chars(Static[b])
         /\ \A b \in Stacks : Len(Static[b]) <= 2 ^ LengthBits
BY DEF TextsAssumption, Chars

LEMMA SameKept == ASSUME BInv PROVE Memory(mem) /\ \A k \in Alive : Kept(str[k], mem, mem)
BY DEF BInv, Within, Kept

\* A string in memory that stays as it is.
LEMMA SameMemory ==
  ASSUME BInv, NEW n, NEW s, str' = Put(str, n, s), mem' = mem, Within(s, mem)
  PROVE  Gives(n, Bytes(s, mem))
BY SameKept, BecomesBounded

LEMMA EmptyWithin ==
  ASSUME GStringAssumption, NEW m, Memory(m), NEW s, s \in {Empty, [Empty EXCEPT !.free = TRUE]}
  PROVE  Within(s, m) /\ Bytes(s, m) = << >>
<1>1. Within(s, m) /\ s.at = Null
  BY DEF Within, Empty, GStringAssumption
<1> QED
  BY <1>1, BytesAre

LEMMA EmptyBounded ==
  ASSUME BInv, GStringAssumption, NEW n, NEW s, s \in {Empty, [Empty EXCEPT !.free = TRUE]},
         str' = Put(str, n, s), mem' = mem
  PROVE  Gives(n, << >>)
<1>1. Memory(mem)
  BY DEF BInv
<1>2. Within(s, mem) /\ Bytes(s, mem) = << >>
  BY <1>1, EmptyWithin
<1>3. Gives(n, Bytes(s, mem))
  BY <1>2, SameMemory
<1> QED
  BY <1>2, <1>3

\* A malloced copy, in memory that has kept the others.
LEMMA MallocsBounded ==
  ASSUME BInv, GStringAssumption, NEW n, NEW m, Memory(m),
         \A k \in Alive \ {n} : Kept(str[k], mem, m),
         NEW b \in Free(m), NEW v, Chars(v),
         str' = Put(str, n, Malloced(v, b)), mem' = Put(m, b, v)
  PROVE  Gives(n, v)
<1> DEFINE len == Len(v)
           s == Malloced(v, b)
           w == Bytes(s, mem')
<1>1. b # Null /\ b \in Blocks /\ b \notin DOMAIN m
  BY DEF Free, GStringAssumption
<1>2. len \in Nat
  BY DEF Chars
<1>3. s.len = len /\ s.power = 0 /\ s.off = 0 /\ s.at = b
  <2> HIDE DEF len
  <2>1. s = [Empty EXCEPT !.free = TRUE, !.len = len, !.at = b]
    BY DEF Malloced, len
  <2> HIDE DEF s
  <2> QED
    BY <2>1 DEF Empty
<1>4. Memory(mem') /\ b \in DOMAIN mem' /\ mem'[b] = v
  BY <1>1, PutMemory
<1> HIDE DEF s
<1>5. Within(s, mem')
  BY <1>1, <1>2, <1>3, <1>4 DEF Within, GStringAssumption
<1>6. \A k \in Alive \ {n} : Kept(str[k], mem, mem')
  BY <1>1, PutKeeps
<1>7. w = v
  <2>1. Chars(w) /\ Len(w) = s.len /\ \A i \in 1 .. s.len : w[i] = mem'[s.at][s.off + i]
    BY <1>4, <1>5, BytesAre
  <2> HIDE DEF w
  <2>2. ASSUME NEW i \in 1 .. Len(v) PROVE w[i] = v[i]
    <3>1. s.off + i = i /\ i \in 1 .. s.len
      BY <1>2, <1>3
    <3> QED
      BY <1>3, <1>4, <2>1, <3>1
  <2> QED
    BY <1>3, <2>1, <2>2, EqualChars
<1>8. Gives(n, w)
  BY <1>4, <1>5, <1>6, BecomesBounded DEF s
<1> QED
  BY <1>7, <1>8

LEMMA InitBInv == ASSUME Init, GStringAssumption, TextsAssumption PROVE BInv
<1>1. Alive = {} /\ mem = Static
  BY DEF Init, Alive
<1>2. Memory(mem)
  BY <1>1, TextsAreChars DEF Memory, GStringAssumption
<1> QED
  BY <1>1, <1>2 DEF BInv

LEMMA FromCharsBounded ==
  ASSUME BInv, GStringAssumption, NEW n, NEW v, Chars(v), FromChars(n, v)
  PROVE  Gives(n, v)
<1>1. CASE v = << >>
  <2>1. str' = Put(str, n, [Empty EXCEPT !.free = TRUE]) /\ mem' = mem
    BY <1>1 DEF FromChars
  <2> QED
    BY <1>1, <2>1, EmptyBounded
<1>2. CASE v # << >>
  <2>1. PICK b \in Free(mem) : str' = Put(str, n, Malloced(v, b)) /\ mem' = Put(mem, b, v)
    BY <1>2 DEF FromChars
  <2> QED
    BY <2>1, SameKept, MallocsBounded
<1> QED
  BY <1>1, <1>2

\* What is moved is as it was; what was in its place may be gone.
LEMMA MovesBounded ==
  ASSUME BInv, GStringAssumption, NEW n, NEW m \in Alive, n # m,
         str' = Put(Put(str, m, Empty), n, str[m]),
         Memory(mem'), \A k \in Alive \ {n} : Kept(str[k], mem, mem'),
         call' = <<"move", n, m>>
  PROVE  BInv' /\ ValueStrings!Move(n, m)
<1>1. \A k \in Alive \ {n} : Within(str[k], mem') /\ Bytes(str[k], mem') = Bytes(str[k], mem)
  BY KeptWithin, KeptBytes DEF BInv
<1>2. /\ Alive' = Alive \cup {n}
      /\ str'[n] = str[m] /\ str'[m] = Empty
      /\ \A k \in Alive \ {n, m} : str'[k] = str[k]
  BY DEF Put, Alive
<1>3. Within(Empty, mem') /\ Bytes(Empty, mem') = << >>
  BY EmptyWithin
<1>4. BInv'
  BY <1>1, <1>2, <1>3 DEF BInv
<1>5. \A k \in Alive \cup {n} :
         Content(k)' = CASE k = n -> Content(m) [] k = m -> << >> [] OTHER -> Content(k)
  BY <1>1, <1>2, <1>3 DEF Content
<1>6. ValueStrings!Move(n, m)
  BY <1>2, <1>5 DEF ValueStrings!Move
<1> QED
  BY <1>4, <1>6

LEMMA LengthsAreNat == ASSUME GStringAssumption PROVE Lengths \subseteq Nat
<1>1. LengthBits \in Nat
  BY DEF GStringAssumption
<1>2. 2 ^ LengthBits \in Nat
  BY <1>1, PowersGrow
<1> QED
  BY <1>2 DEF Lengths, LengthMask

\* What is between the beginning and the end of a string is in bounds, and is
\* what stands there.
LEMMA ViewIs ==
  ASSUME BInv, NEW m \in Alive, NEW pos \in Nat, NEW count \in Nat,
         pos + count <= str[m].len, str[m].at # Null,
         NEW s, s.len = count, s.power = 0, s.off = str[m].off + pos, s.at = str[m].at,
         LengthBits \in Nat
  PROVE  Within(s, mem) /\ Bytes(s, mem) = SubSeq(Content(m), pos + 1, pos + count)
<1> DEFINE v == Content(m)
           w == Bytes(s, mem)
           u == SubSeq(v, pos + 1, pos + count)
<1>1. /\ str[m].len \in Nat /\ str[m].off \in Nat /\ str[m].at \in DOMAIN mem
      /\ str[m].off + str[m].len <= Len(mem[str[m].at]) /\ Len(mem[str[m].at]) \in Nat
      /\ Memory(mem) /\ Within(str[m], mem)
  BY DEF BInv, Within, Memory, Chars
<1>2. s.off \in Nat /\ s.off + s.len <= Len(mem[s.at])
  <2> DEFINE off == str[m].off
             len == str[m].len
             size == Len(mem[str[m].at])
  <2>1. off \in Nat /\ len \in Nat /\ size \in Nat /\ off + len <= size /\ pos + count <= len
    BY <1>1
  <2> HIDE DEF off, len, size
  <2>2. off + pos \in Nat /\ (off + pos) + count <= size
    BY <2>1
  <2> QED
    BY <2>2 DEF off, len, size
<1>3. Within(s, mem)
  BY <1>1, <1>2 DEF Within
<1>4. Chars(v) /\ Len(v) = str[m].len /\ \A i \in 1 .. str[m].len : v[i] = mem[s.at][str[m].off + i]
  BY <1>1, BytesAre DEF Content
<1>5. Chars(w) /\ Len(w) = count /\ \A i \in 1 .. count : w[i] = mem[s.at][s.off + i]
  BY <1>1, <1>3, BytesAre
<1> HIDE DEF v, w
<1>6. Chars(u) /\ Len(u) = count /\ \A i \in 1 .. count : u[i] = v[pos + i]
  <2> DEFINE from == pos + 1
             end == pos + count
  <2>1. from \in Nat /\ end \in Nat /\ 1 <= from /\ from <= end + 1 /\ end <= Len(v)
        /\ end - from + 1 = count /\ \A i \in 1 .. count : from + i - 1 = pos + i
    BY <1>1, <1>4
  <2> HIDE DEF from, end
  <2>2. /\ Chars(SubSeq(v, from, end)) /\ Len(SubSeq(v, from, end)) = end - from + 1
        /\ \A k \in 1 .. end - from + 1 : SubSeq(v, from, end)[k] = v[from + k - 1]
    BY <1>4, <2>1, SomeChars
  <2>3. Chars(SubSeq(v, from, end)) /\ Len(SubSeq(v, from, end)) = count
        /\ \A k \in 1 .. count : SubSeq(v, from, end)[k] = v[pos + k]
    BY <2>1, <2>2
  <2>4. u = SubSeq(v, from, end)
    BY DEF from, end
  <2> HIDE DEF u
  <2> QED
    BY <2>3, <2>4
<1> HIDE DEF u
<1>7. ASSUME NEW i \in 1 .. count PROVE w[i] = u[i]
  <2>1. pos + i \in 1 .. str[m].len /\ str[m].off + (pos + i) = s.off + i
    BY <1>1
  <2> QED
    BY <1>4, <1>5, <1>6, <2>1
<1>8. w = u
  BY <1>5, <1>6, <1>7, EqualChars
<1> QED
  BY <1>3, <1>8 DEF u, v, w

AllTexts == Texts \cup Times \cup {Static[l] : l \in Literals}

\* What a string is given by a call is what GStringSpec says.
LEMMA MakesAre ==
  ASSUME NEW n \in Names, n \notin Alive, NEW v \in AllTexts \cup {<< >>},
         call' = <<"make", n, v>>, Gives(n, v)
  PROVE  ValueStrings!Next
<1>1. ValueStrings!Make(n, v)
  BY DEF ValueStrings!Make, Gives
<1> QED
  BY <1>1 DEF ValueStrings!Next, AllTexts

LEMMA CopiesAre ==
  ASSUME NEW n \in Names, NEW m \in Alive, call' = <<"copy", n, m>>, Gives(n, Content(m))
  PROVE  ValueStrings!Next
<1>1. ValueStrings!Copy(n, m)
  BY DEF ValueStrings!Copy, Gives
<1> QED
  BY <1>1 DEF ValueStrings!Next

LEMMA ViewsAre ==
  ASSUME NEW n \in Names, n \notin Alive, NEW m \in Alive, NEW pos \in Lengths, NEW count \in Lengths,
         call' = <<"view", n, m, pos, count>>, Gives(n, SubSeq(Content(m), pos + 1, pos + count))
  PROVE  ValueStrings!Next
<1>1. ValueStrings!View(n, m, pos, count)
  BY DEF ValueStrings!View, Gives
<1> QED
  BY <1>1 DEF ValueStrings!Next

LEMMA MovesAre ==
  ASSUME NEW n \in Names, NEW m \in Alive, ValueStrings!Move(n, m)
  PROVE  ValueStrings!Next
BY DEF ValueStrings!Next

LEMMA ConstructBounded ==
  ASSUME IInv, BInv, GStringAssumption, TextsAssumption, Habits = {},
         NEW n \in Names, Construct(n)
  PROVE  BInv' /\ ValueStrings!Next
<1>0. Memory(mem) /\ LengthBits \in Nat
  BY DEF BInv, GStringAssumption
<1>1. ASSUME Default(n), call' = <<"make", n, << >> >> PROVE BInv' /\ ValueStrings!Next
  <2>1. n \notin Alive /\ str' = Put(str, n, Empty) /\ mem' = mem
    BY <1>1 DEF Default
  <2>2. Gives(n, << >>)
    BY <2>1, EmptyBounded
  <2> QED
    BY <1>1, <2>1, <2>2, MakesAre DEF Gives
<1>2. ASSUME NEW v, Chars(v), v \in AllTexts \cup {<< >>}, FromChars(n, v), call' = <<"make", n, v>>
      PROVE  BInv' /\ ValueStrings!Next
  <2>1. Gives(n, v) /\ n \notin Alive
    BY <1>2, FromCharsBounded DEF FromChars
  <2> QED
    BY <1>2, <2>1, MakesAre DEF Gives
<1>3. ASSUME NEW b \in Stacks, OnStack(n, b), call' = <<"make", n, << >> >>
      PROVE  BInv' /\ ValueStrings!Next
  <2> DEFINE size == Len(mem[b])
  <2>1. b \in DOMAIN mem /\ b # Null /\ b \notin Literals
    BY DEF IInv, Fixed, GStringAssumption
  <2>2. size \in Nat /\ size <= 2 ^ LengthBits
    BY <1>0, <2>1, TextsAreChars DEF Memory, Chars
  <2> HIDE DEF size
  <2>3. PICK p \in 0 .. size : /\ 2 ^ p <= size \/ p = 0
                               /\ str' = Put(str, n, [Empty EXCEPT !.power = p, !.at = b])
    BY <1>3 DEF OnStack, size
  <2> DEFINE s == [Empty EXCEPT !.power = p, !.at = b]
  <2>4. s.len = 0 /\ s.power = p /\ s.off = 0 /\ s.at = b
    BY DEF Empty
  <2> HIDE DEF s
  <2>5. p \in Nat /\ 2 ^ p \in Nat /\ 2 ^ LengthBits \in Nat
    BY <1>0, <2>2, <2>3, PowersGrow
  <2>6. s.power > 0 => s.off + Capacity(s) <= size
    BY <2>3, <2>4, <2>5 DEF Capacity
  <2>7. p <= LengthBits
    <3>1. LengthBits < p => 2 ^ LengthBits < 2 ^ p
      BY <1>0, <2>5, PowersAreOrdered
    <3>2. 2 ^ p <= 2 ^ LengthBits \/ p = 0
      BY <2>2, <2>3, <2>5
    <3> QED
      BY <1>0, <2>5, <3>1, <3>2
  <2>8. Within(s, mem)
    BY <2>1, <2>2, <2>4, <2>5, <2>6, <2>7 DEF Within, size
  <2>9. mem' = mem /\ str' = Put(str, n, s) /\ n \notin Alive
    BY <1>3, <2>3 DEF OnStack, s
  <2>10. Bytes(s, mem) = << >>
    <3>1. Chars(Bytes(s, mem)) /\ Len(Bytes(s, mem)) = 0
      BY <1>0, <2>4, <2>8, BytesAre
    <3> QED
      BY <3>1, NoChars, EqualChars
  <2>11. Gives(n, << >>)
    BY <2>8, <2>9, <2>10, SameMemory
  <2> QED
    BY <1>3, <2>9, <2>11, MakesAre DEF Gives
<1>4. ASSUME NEW l \in Literals, Literal(n, l), call' = <<"make", n, Static[l]>>
      PROVE  BInv' /\ ValueStrings!Next
  <2> DEFINE len == Len(mem[l])
             s == [Empty EXCEPT !.ref = TRUE, !.len = len, !.at = l]
             w == Bytes(s, mem)
  <2>1. l \in DOMAIN mem /\ l # Null /\ mem[l] = Static[l]
    BY <1>0 DEF Memory, GStringAssumption
  <2>2. len \in Nat /\ Chars(mem[l])
    BY <1>0, <2>1 DEF Memory, Chars
  <2> HIDE DEF len
  <2>3. s.len = len /\ s.power = 0 /\ s.off = 0 /\ s.at = l
    BY DEF Empty
  <2>4. str' = Put(str, n, s) /\ mem' = mem /\ n \notin Alive
    BY <1>4 DEF Literal, len
  <2> HIDE DEF s
  <2>5. s.off + s.len <= Len(mem[l])
    BY <2>2, <2>3 DEF len
  <2>6. Within(s, mem)
    BY <1>0, <2>1, <2>2, <2>3, <2>5 DEF Within
  <2>7. Chars(w) /\ Len(w) = len /\ \A i \in 1 .. len : w[i] = mem[l][s.off + i]
    BY <1>0, <2>3, <2>6, BytesAre
  <2> HIDE DEF w
  <2>8. \A i \in 1 .. len : w[i] = mem[l][i]
    BY <2>2, <2>3, <2>7
  <2>9. w = mem[l]
    BY <2>2, <2>7, <2>8, EqualChars DEF len
  <2>10. Gives(n, w)
    BY <2>4, <2>6, SameMemory DEF w
  <2>11. Static[l] \in AllTexts
    BY DEF AllTexts
  <2> QED
    BY <1>4, <2>1, <2>4, <2>9, <2>10, <2>11, MakesAre DEF Gives
<1>5. ASSUME NEW m \in Alive, Clone(n, m), call' = <<"copy", n, m>> PROVE BInv' /\ ValueStrings!Next
  <2>1. Gives(n, Content(m))
    BY <1>5, ContentIs, FromCharsBounded DEF Clone
  <2> QED
    BY <1>5, <2>1, CopiesAre DEF Gives
<1>6. ASSUME NEW m \in Alive, Copy(n, m), call' = <<"copy", n, m>> PROVE BInv' /\ ValueStrings!Next
  <2>1. CASE str[m].len = 0 /\ str' = Put(str, n, Empty) /\ mem' = mem
    <3>1. Content(m) = << >>
      <4>1. Chars(Content(m)) /\ Len(Content(m)) = 0
        BY <2>1, ContentIs
      <4> QED
        BY <4>1, NoChars, EqualChars
    <3>2. Gives(n, Content(m))
      BY <2>1, <3>1, EmptyBounded
    <3> QED
      BY <1>6, <3>2, CopiesAre DEF Gives
  <2>2. CASE str' = Put(str, n, str[m]) /\ mem' = mem
    <3>1. Gives(n, Content(m))
      BY <2>2, SameMemory DEF BInv, Content
    <3> QED
      BY <1>6, <3>1, CopiesAre DEF Gives
  <2>3. ASSUME NEW b \in Free(mem), str' = Put(str, n, Malloced(Content(m), b)),
               mem' = Put(mem, b, Content(m))
        PROVE  BInv' /\ ValueStrings!Next
    <3>1. Gives(n, Content(m))
      BY <2>3, ContentIs, SameKept, MallocsBounded
    <3> QED
      BY <1>6, <3>1, CopiesAre DEF Gives
  <2> QED
    BY <1>6, <2>1, <2>2, <2>3 DEF Copy
<1>7. ASSUME NEW m \in Alive, MoveCtor(n, m), call' = <<"move", n, m>> PROVE BInv' /\ ValueStrings!Next
  <2>1. n # m /\ mem' = mem /\ str' = Put(Put(str, m, Empty), n, str[m])
    BY <1>7 DEF MoveCtor
  <2> QED
    BY <1>7, <2>1, SameKept, MovesBounded, MovesAre
<1>8. ASSUME NEW m \in Alive, RefOf(n, m), call' = <<"copy", n, m>> PROVE BInv' /\ ValueStrings!Next
  <2> DEFINE s == [Empty EXCEPT !.ref = TRUE, !.len = str[m].len, !.at = str[m].at, !.off = str[m].off]
  <2>1. s.len = str[m].len /\ s.power = 0 /\ s.off = str[m].off /\ s.at = str[m].at
    BY DEF Empty
  <2>2. str' = Put(str, n, s) /\ mem' = mem
    BY <1>8 DEF RefOf
  <2> HIDE DEF s
  <2>3. Within(s, mem)
    BY <1>0, <2>1 DEF BInv, Within
  <2>4. Bytes(s, mem) = Content(m)
    BY <2>1 DEF Bytes, Content
  <2>5. Gives(n, Content(m))
    BY <2>2, <2>3, <2>4, SameMemory
  <2> QED
    BY <1>8, <2>5, CopiesAre DEF Gives
<1>9. ASSUME NEW m \in Alive, NEW pos \in Lengths, NEW count \in Lengths, View(n, m, pos, count),
             call' = <<"view", n, m, pos, count>>
      PROVE  BInv' /\ ValueStrings!Next
  <2> DEFINE off == str[m].off + pos
             s == [Empty EXCEPT !.ref = str[m].ref, !.len = count, !.at = str[m].at, !.off = off]
  <2> HIDE DEF off
  <2>1. s.len = count /\ s.power = 0 /\ s.off = off /\ s.at = str[m].at
    BY DEF Empty
  <2>2. str' = Put(str, n, s) /\ mem' = mem /\ n \notin Alive /\ str[m].at # Null /\ pos + count <= str[m].len
    BY <1>9 DEF View, off
  <2> HIDE DEF s
  <2>3. Within(s, mem) /\ Bytes(s, mem) = SubSeq(Content(m), pos + 1, pos + count)
    BY <1>0, <2>1, <2>2, LengthsAreNat, ViewIs DEF off
  <2>4. Gives(n, Bytes(s, mem))
    BY <2>2, <2>3, SameMemory
  <2>5. Gives(n, SubSeq(Content(m), pos + 1, pos + count))
    BY <2>3, <2>4
  <2> QED
    BY <1>9, <2>2, <2>5, ViewsAre DEF Gives
<1>10. Chars(<< >>) /\ \A v \in Texts : Chars(v) /\ v \in AllTexts
  BY NoChars, TextsAreChars DEF AllTexts
<1>11. CASE (Default(n) \/ FromChars(n, << >>) \/ \E b \in Stacks : OnStack(n, b))
            /\ call' = <<"make", n, << >> >>
  BY <1>1, <1>2, <1>3, <1>10, <1>11
<1> QED
  BY <1>2, <1>4, <1>5, <1>6, <1>7, <1>8, <1>9, <1>10, <1>11 DEF Construct

\* The buffer of a string that has a capacity.
LEMMA OwnBuffer ==
  ASSUME IInv, BInv, NEW n \in Alive, Undisturbed(n), str[n].power > 0
  PROVE  Alone(n, str[n], mem, Capacity(str[n])) /\ Capacity(str[n]) \in Nat
<1>1. /\ \A k \in Alive \ {n} : Kept(str[k], mem, mem) /\ str[k].at # str[n].at
      /\ Memory(mem) /\ Within(str[n], mem)
  BY SameKept, AloneInBuffer DEF BInv
<1>2. Capacity(str[n]) \in Nat
  BY <1>1, CapacityIs DEF Within
<1>3. str[n].at # Null /\ str[n].at \notin Literals /\ Room(str[n], mem, Capacity(str[n]))
  BY <1>1 DEF Within, Room
<1> QED
  BY <1>1, <1>2, <1>3 DEF Alone

LEMMA AssignBounded ==
  ASSUME IInv, BInv, GStringAssumption, NEW n \in Alive, Shape(str[n]), NEW m \in Alive, Assign(n, m)
  PROVE  Gives(n, Content(m))
<1> DEFINE s == str[n]
           g == str[m]
           v == Content(m)
<1>1. Undisturbed(n) /\ Within(s, mem) /\ Within(g, mem) /\ n # m
  BY DEF Assign, BInv
<1>2. Chars(v) /\ Len(v) = g.len /\ Len(v) \in Nat
  BY ContentIs DEF Chars
<1>3. CASE Reuses(s, g.len)
  <2> DEFINE t == [s EXCEPT !.free = TRUE, !.ref = FALSE, !.len = g.len]
             to == Capacity(s)
  <2>1. str' = Put(str, n, t) /\ mem' = Write(mem, s, 0, v)
    BY <1>3 DEF Assign
  <2>2. t.len = g.len /\ t.power = s.power /\ t.off = s.off /\ t.at = s.at
    <3> DEFINE len == g.len
    <3> HIDE DEF len
    <3>1. LET u == [s EXCEPT !.free = TRUE, !.ref = FALSE, !.len = len]
          IN  u.len = len /\ u.power = s.power /\ u.off = s.off /\ u.at = s.at
      BY DEF Shape
    <3> QED
      BY <3>1 DEF len
  <2>3. s.power > 0
    <3>1. s.power = 0 => to = 1
      BY PowerOfZero DEF Capacity
    <3>2. to > 1
      BY <1>3 DEF Reuses
    <3>3. s.power # 0
      BY <3>1, <3>2
    <3> QED
      BY <1>1, <3>3 DEF Within
  <2>4. Alone(n, s, mem, to) /\ to \in Nat
    BY <1>1, <2>3, OwnBuffer
  <2>5. Len(v) <= to
    BY <1>2, <1>3 DEF Reuses
  <2> HIDE DEF t, to
  <2>6. Resized(s, t, Len(v))
    BY <1>2, <2>2 DEF Resized
  <2>7. Chars(Bytes(s, mem))
    BY <1>1, BytesAre DEF BInv
  <2> HIDE DEF v
  <2>9. Overwrites(Bytes(s, mem), 0, v, v)
    BY <1>2, <2>7, OverwritesAll
  <2>10. 0 + Len(v) <= to
    BY <1>2, <2>5
  <2> QED
    BY <2>1, <2>4, <2>5, <2>6, <2>9, <2>10, PutTurns, WritesBounded DEF v
<1>4. CASE ~Reuses(s, g.len) /\ g.ref
  <2>1. n # m /\ str' = Put(str, n, g) /\ mem' = Freed(s)
    BY <1>4 DEF Assign
  <2>2. Memory(mem') /\ \A k \in Alive \ {n} : Kept(str[k], mem, mem')
    BY <1>1, <2>1, FreedKeeps
  <2>3. Within(g, mem') /\ Bytes(g, mem') = v
    BY <1>1, <2>1, <2>2, KeptWithin, KeptBytes DEF BInv, Content
  <2>4. Gives(n, Bytes(g, mem'))
    BY <2>1, <2>2, <2>3, BecomesBounded
  <2> QED
    BY <2>3, <2>4
<1>5. CASE ~Reuses(s, g.len) /\ ~g.ref
  <2>1. PICK b \in Free(Freed(s)) : str' = Put(str, n, Malloced(v, b)) /\ mem' = Put(Freed(s), b, v)
    BY <1>5 DEF Assign
  <2>2. Memory(Freed(s)) /\ \A k \in Alive \ {n} : Kept(str[k], mem, Freed(s))
    BY <1>1, FreedKeeps
  <2> HIDE DEF v
  <2> QED
    BY <1>2, <2>1, <2>2, MallocsBounded DEF v
<1> QED
  BY <1>3, <1>4, <1>5

LEMMA MoveAssignBounded ==
  ASSUME IInv, BInv, GStringAssumption, NEW n \in Alive, NEW m \in Alive, MoveAssign(n, m),
         call' = <<"move", n, m>>
  PROVE  BInv' /\ ValueStrings!Move(n, m)
<1>1. /\ n # m /\ Undisturbed(n) /\ mem' = Freed(str[n])
      /\ str' = Put(Put(str, m, Empty), n, str[m])
  BY DEF MoveAssign
<1>2. Memory(mem') /\ \A k \in Alive \ {n} : Kept(str[k], mem, mem')
  BY <1>1, FreedKeeps
<1> QED
  BY <1>1, <1>2, MovesBounded

LEMMA DestroyBounded ==
  ASSUME IInv, BInv, GStringAssumption, NEW n \in Alive, Destroy(n), call' = <<"end", n>>
  PROVE  BInv' /\ ValueStrings!End(n)
<1>1. Undisturbed(n) /\ str' = Drop(str, n) /\ mem' = Freed(str[n])
  BY DEF Destroy
<1>2. Memory(mem') /\ \A k \in Alive \ {n} : Kept(str[k], mem, mem')
  BY <1>1, FreedKeeps
<1>3. \A k \in Alive \ {n} : Within(str[k], mem') /\ Bytes(str[k], mem') = Bytes(str[k], mem)
  BY <1>2, KeptWithin, KeptBytes DEF BInv
<1>4. Alive' = Alive \ {n} /\ \A k \in Alive' : str'[k] = str[k]
  BY <1>1 DEF Drop, Alive
<1>5. BInv'
  BY <1>2, <1>3, <1>4 DEF BInv
<1>6. \A k \in Alive \ {n} : Content(k)' = Content(k)
  BY <1>3, <1>4 DEF Content
<1>7. ValueStrings!End(n)
  BY <1>4, <1>6 DEF ValueStrings!End
<1> QED
  BY <1>5, <1>7

LEMMA OwnedBounded ==
  ASSUME BInv, GStringAssumption, NEW n \in Alive, Owned(n)
  PROVE  Gives(n, Content(n))
<1>0. Chars(Content(n)) /\ Len(Content(n)) = str[n].len
  BY ContentIs
<1>1. CASE str[n].len = 0
  <2>1. Content(n) = << >>
    BY <1>0, <1>1, NoChars, EqualChars
  <2>2. str' = Put(str, n, [Empty EXCEPT !.free = TRUE]) /\ mem' = mem
    BY <1>1 DEF Owned
  <2> QED
    BY <2>1, <2>2, EmptyBounded
<1>2. CASE str[n].len # 0
  <2>1. PICK b \in Free(mem) : str' = Put(str, n, Malloced(Content(n), b)) /\ mem' = Put(mem, b, Content(n))
    BY <1>2 DEF Owned
  <2> QED
    BY <1>0, <2>1, SameKept, MallocsBounded
<1> QED
  BY <1>1, <1>2

\* reserve alone.
LEMMA GrowBounded ==
  ASSUME IInv, BInv, GStringAssumption, NEW n \in Alive, Undisturbed(n), Shape(str[n]),
         NEW to \in Nat, str[n].len <= to, PowerFor(str[n].power, to) <= LengthBits,
         NEW r \in Reserved(str[n], to), str' = Put(str, n, r.s), mem' = r.mem
  PROVE  Gives(n, Content(n))
<1>1. Within(str[n], mem)
  BY DEF BInv
<1>2. Made(n, str[n], to, r)
  BY <1>1, ReservedRoom
<1>3. /\ Within(r.s, r.mem) /\ Memory(r.mem) /\ Bytes(r.s, r.mem) = Content(n)
      /\ \A m \in Alive \ {n} : Kept(str[m], mem, r.mem)
  BY <1>2 DEF Made, Content
<1>4. Gives(n, Bytes(r.s, mem'))
  BY <1>3, BecomesBounded
<1> QED
  BY <1>3, <1>4

LEMMA ReserveBounded ==
  ASSUME IInv, BInv, GStringAssumption, Habits = {}, NEW n \in Alive, Shape(str[n]),
         NEW to \in Lengths, Reserve(n, to)
  PROVE  Gives(n, Content(n))
<1>1. PICK r \in Reserved(str[n], to) : str' = Put(str, n, r.s) /\ mem' = r.mem
  BY DEF Reserve
<1>2. Undisturbed(n) /\ to \in Nat /\ str[n].len <= to /\ ~Throws(str[n], to) /\ Within(str[n], mem)
  BY LengthsAreNat DEF Reserve, BInv, Within
<1>3. PowerFor(str[n].power, to) <= LengthBits
  BY <1>2, DoesNotThrow
<1> QED
  BY <1>1, <1>2, <1>3, GrowBounded

\* The zero is behind the characters.
LEMMA CStrBounded ==
  ASSUME IInv, BInv, GStringAssumption, NEW n \in Alive, Shape(str[n]), CStr(n)
  PROVE  Gives(n, Content(n))
<1> DEFINE s == str[n]
           len == str[n].len
           to == len + 1
           z == <<"nul">>
           v == Content(n)
<1>1. Undisturbed(n) /\ ~Throws(s, to)
      /\ \E r \in Reserved(s, to) : str' = Put(str, n, r.s) /\ mem' = Write(r.mem, r.s, len, z)
  BY DEF CStr
<1>2. PICK r \in Reserved(s, to) : str' = Put(str, n, r.s) /\ mem' = Write(r.mem, r.s, len, z)
  BY <1>1
<1>3. Within(s, mem) /\ len \in Nat
  BY DEF BInv, Within
<1>4. to \in Nat /\ len <= to
  BY <1>3
<1>5. PowerFor(s.power, to) <= LengthBits
  BY <1>1, <1>3, <1>4, DoesNotThrow
<1>6. Made(n, s, to, r)
  BY <1>1, <1>3, <1>4, <1>5, ReservedRoom
<1>7. Chars(z) /\ Len(z) = 1
  BY OneChar
<1>8. Chars(v) /\ Len(v) = len
  BY ContentIs
<1>9. Bytes(r.s, r.mem) = v /\ r.s.len = len
  BY <1>6 DEF Made, Content
<1> HIDE DEF z, v
<1>10. ASSUME NEW i \in 1 .. Len(v)
       PROVE  i - len \notin 1 .. Len(z) /\ i <= Len(v)
  <2>1. i \in Nat /\ i <= len
    BY <1>3, <1>8
  <2> HIDE DEF len
  <2> QED
    BY <1>3, <1>8, <2>1
<1>11. Overwrites(Bytes(r.s, r.mem), len, z, v)
  BY <1>7, <1>8, <1>9, <1>10 DEF Overwrites
<1>12. Resized(r.s, r.s, Len(v))
  BY <1>8, <1>9 DEF Resized
<1>13. len + Len(z) <= to /\ Len(v) <= to
  BY <1>4, <1>7, <1>8
<1>14. Alone(n, r.s, r.mem, to)
  BY <1>6, MadeIsAlone
<1>15. Gives(n, v)
  BY <1>2, <1>3, <1>4, <1>11, <1>12, <1>13, <1>14, PutTurns, WritesBounded
<1> QED
  BY <1>15 DEF v

\* What fits has no power that is too large, and is short enough for a length.
LEMMA FitsIs ==
  ASSUME GStringAssumption, Habits = {}, NEW s, Within(s, mem), NEW to \in Nat, Fits(s, to)
  PROVE  PowerFor(s.power, to) <= LengthBits /\ to < 2 ^ LengthBits
<1>1. LengthBits \in Nat
  BY DEF GStringAssumption
<1>2. 2 ^ LengthBits \in Nat
  BY <1>1, PowersGrow
<1>3. ~Throws(s, to) /\ to <= 2 ^ LengthBits - 1
  BY DEF Fits, LengthMask
<1>4. PowerFor(s.power, to) <= LengthBits
  BY <1>3, DoesNotThrow
<1> QED
  BY <1>2, <1>3, <1>4

LEMMA AppendCharsBounded ==
  ASSUME IInv, BInv, GStringAssumption, Habits = {}, NEW n \in Alive, Shape(str[n]),
         NEW v, Chars(v), AppendChars(n, v)
  PROVE  Gives(n, Content(n) \o v)
<1> DEFINE s == str[n]
           to == s.len + Len(v)
<1>1. Undisturbed(n) /\ Fits(s, to) /\ \E r \in Reserved(s, to) : Extend(n, s, r, v, FALSE)
  BY DEF AppendChars
<1>2. Within(s, mem) /\ to \in Nat /\ to <= to
  BY DEF BInv, Within, Chars
<1>3. PowerFor(s.power, to) <= LengthBits /\ to < 2 ^ LengthBits
  BY <1>1, <1>2, FitsIs
<1> QED
  BY <1>1, <1>2, <1>3, ExtendBounded DEF Content

\* The characters of another string are where they were when there is room for
\* them; those of this one are when its buffer did not move.
LEMMA AppendStringBounded ==
  ASSUME IInv, BInv, GStringAssumption, Habits = {}, NEW n \in Alive, Shape(str[n]),
         NEW m \in Alive, AppendString(n, m)
  PROVE  Gives(n, Content(n) \o Content(m))
<1> DEFINE s == str[n]
           g == str[m]
           v == Content(m)
           to == s.len + g.len
<1>1. /\ Undisturbed(n) /\ Fits(s, to)
      /\ n = m => s.power > 0 /\ to <= Capacity(s)
      /\ \E r \in Reserved(s, to) : Extend(n, s, r, Bytes(g, r.mem), FALSE)
  BY DEF AppendString
<1>2. PICK r \in Reserved(s, to) : Extend(n, s, r, Bytes(g, r.mem), FALSE)
  BY <1>1
<1>3. Within(s, mem) /\ Within(g, mem) /\ s.len \in Nat /\ g.len \in Nat /\ to \in Nat /\ to <= to /\ s.len <= to
  BY DEF BInv, Within
<1>4. Chars(v) /\ Len(v) = g.len
  BY ContentIs
<1>5. PowerFor(s.power, to) <= LengthBits /\ to < 2 ^ LengthBits
  BY <1>1, <1>3, FitsIs
<1>6. Made(n, s, to, r)
  BY <1>1, <1>3, <1>5, ReservedRoom
<1>7. Bytes(g, r.mem) = v
  <2>1. CASE n = m
    <3>1. r.mem = mem
      BY <1>1, <1>6, <2>1 DEF Made
    <3> QED
      BY <3>1 DEF Content
  <2>2. CASE n # m
    <3>1. Kept(g, mem, r.mem) /\ Memory(r.mem)
      BY <1>6, <2>2 DEF Made
    <3> QED
      BY <1>3, <3>1, KeptBytes DEF BInv, Content
  <2> QED
    BY <2>1, <2>2
<1>8. Extend(n, s, r, v, FALSE)
  BY <1>2, <1>7
<1>9. s.len + Len(v) <= to /\ s.len + Len(v) < 2 ^ LengthBits
  BY <1>3, <1>4, <1>5
<1> HIDE DEF v
<1>10. Gives(n, Bytes(s, mem) \o v)
  BY <1>1, <1>3, <1>4, <1>5, <1>8, <1>9, ExtendBounded
<1> QED
  BY <1>10 DEF v, Content

LEMMA Append64Bounded ==
  ASSUME IInv, BInv, GStringAssumption, NumbersAssumption, Habits = {}, NEW n \in Alive, Shape(str[n]),
         NEW q \in Numbers, Append64(n, q[1], q[2])
  PROVE  Gives(n, Content(n) \o ValueStrings!Numeral(q[1], q[2]))
<1> DEFINE s == str[n]
           v == Itoa(q[1], q[2])
           to == s.len + NumberRoom
<1>1. q[1] \in Int /\ q[2] \in Nat /\ q[2] >= 2 /\ Len(v) < NumberRoom /\ NumberRoom \in Nat
  BY DEF NumbersAssumption, GStringAssumption
<1>2. Chars(v) /\ v = ValueStrings!Numeral(q[1], q[2])
  BY <1>1, ItoaIsNumeral
<1>3. Undisturbed(n) /\ Fits(s, to) /\ \E r \in Reserved(s, to) : Extend(n, s, r, v, TRUE)
  BY DEF Append64
<1> HIDE DEF v
<1>4. Within(s, mem) /\ s.len \in Nat /\ Len(v) \in Nat
  BY <1>2 DEF BInv, Within, Chars
<1>5. to \in Nat /\ s.len + Len(v) < to /\ s.len + Len(v) <= to
  BY <1>1, <1>4
<1>6. PowerFor(s.power, to) <= LengthBits /\ to < 2 ^ LengthBits
  BY <1>3, <1>4, <1>5, FitsIs
<1>7. s.len + Len(v) < 2 ^ LengthBits
  <2> DEFINE max == 2 ^ LengthBits
  <2>1. max \in Nat
    BY PowersGrow DEF GStringAssumption
  <2> HIDE DEF max
  <2>2. to < max
    BY <1>6 DEF max
  <2>3. s.len + Len(v) < max
    BY <1>4, <1>5, <2>1, <2>2
  <2> QED
    BY <2>3 DEF max
<1>8. Gives(n, Bytes(s, mem) \o v)
  BY <1>2, <1>3, <1>4, <1>5, <1>6, <1>7, ExtendBounded
<1> QED
  BY <1>2, <1>8 DEF Content

LEMMA ParseFromBounded ==
  ASSUME IInv, BInv, GStringAssumption, NEW n \in Alive, Shape(str[n]), NEW v, Chars(v), ParseFrom(n, v)
  PROVE  Gives(n, v)
<1> DEFINE s == [str[n] EXCEPT !.len = 0]
           to == Len(v)
           old == Bytes(s, mem)
<1>1. Undisturbed(n) /\ Len(v) <= LengthMask /\ ~Throws(s, to)
      /\ \E r \in Reserved(s, to) : Extend(n, s, r, v, FALSE)
  BY DEF ParseFrom
<1>2. /\ Shape(s) /\ s.free = str[n].free /\ s.at = str[n].at /\ s.off = str[n].off
      /\ s.len = 0 /\ s.power = str[n].power
  BY DEF Shape
<1> HIDE DEF s
<1>3. Within(str[n], mem)
  BY DEF BInv
<1>4. Capacity(s) = Capacity(str[n])
  BY <1>2 DEF Capacity
<1>5. str[n].at # Null => s.off + 0 <= Len(mem[s.at])
  <2> SUFFICES ASSUME str[n].at # Null PROVE s.off + 0 <= Len(mem[s.at])
    OBVIOUS
  <2>1. str[n].at \in DOMAIN mem
    BY <1>3 DEF Within
  <2>2. Len(mem[str[n].at]) \in Nat
    BY <2>1 DEF BInv, Memory, Chars
  <2> QED
    BY <1>2, <1>3, <2>2 DEF Within
<1>6. Within(s, mem)
  BY <1>2, <1>3, <1>4, <1>5 DEF Within
<1>7. to \in Nat /\ s.len + Len(v) <= to /\ s.len + Len(v) < 2 ^ LengthBits
  <2> DEFINE max == 2 ^ LengthBits
  <2>1. max \in Nat
    BY PowersGrow DEF GStringAssumption
  <2>2. to <= max - 1
    BY <1>1 DEF LengthMask
  <2> HIDE DEF max
  <2>3. to \in Nat /\ s.len + Len(v) <= to /\ s.len + Len(v) < max
    BY <1>2, <2>1, <2>2 DEF Chars
  <2> QED
    BY <2>3 DEF max
<1>8. PowerFor(s.power, to) <= LengthBits
  BY <1>1, <1>6, <1>7, DoesNotThrow
<1>9. Gives(n, old \o v)
  BY <1>1, <1>2, <1>6, <1>7, <1>8, ExtendBounded
<1>10. old \o v = v
  <2>1. Chars(old) /\ Len(old) = 0
    BY <1>2, <1>6, BytesAre DEF BInv
  <2>2. old = << >>
    BY <2>1, NoChars, EqualChars
  <2> QED
    BY <2>2, NoneBefore
<1> QED
  BY <1>9, <1>10

LEMMA AppendTimeBounded ==
  ASSUME IInv, BInv, GStringAssumption, NEW n \in Alive, Shape(str[n]), NEW v, Chars(v), AppendTime(n, v)
  PROVE  \/ call' = <<"add", n, v>> /\ Gives(n, Content(n) \o v)
         \/ call' = <<"same", n>> /\ Gives(n, Content(n))
<1> DEFINE s == str[n]
           end == TimeEnd(s.power, s.len, v)
           to == 2 ^ end[1]
<1>1. /\ Undisturbed(n) /\ end # <<s.power, FALSE>>
      /\ \E r \in Reserved(s, to) :
            IF end[2] THEN Extend(n, s, r, v, TRUE) /\ call' = <<"add", n, v>>
            ELSE str' = Put(str, n, r.s) /\ mem' = r.mem /\ call' = <<"same", n>>
  BY DEF AppendTime
<1>2. Within(s, mem) /\ s.power \in Nat /\ s.power <= LengthBits /\ s.len \in Nat /\ Len(v) \in Nat
  BY DEF BInv, Within, Chars
<1>3. TimeFits(end, s.power, s.len, v)
  BY <1>2, TimeEndFits
<1> HIDE DEF end
<1>4. end[1] \in Nat /\ end[1] <= LengthBits /\ LengthBits \in Nat
  BY <1>2, <1>3 DEF TimeFits, GStringAssumption
<1>5. PowerFor(s.power, to) <= LengthBits
  BY <1>2, <1>4, PowerForPower
<1>6. to \in Nat /\ s.len <= to /\ to <= 2 ^ LengthBits /\ 2 ^ LengthBits \in Nat
  <2>1. to \in Nat /\ 2 ^ LengthBits \in Nat
    BY <1>4, PowersGrow
  <2>2. to <= 2 ^ LengthBits
    BY <1>4, PowersAreOrdered
  <2> QED
    BY <1>1, <1>3, <2>1, <2>2 DEF TimeFits
<1>7. end[2] => s.len + Len(v) < to
  BY <1>3 DEF TimeFits
<1> HIDE DEF to
<1>8. PICK r \in Reserved(s, to) :
         IF end[2] THEN Extend(n, s, r, v, TRUE) /\ call' = <<"add", n, v>>
         ELSE str' = Put(str, n, r.s) /\ mem' = r.mem /\ call' = <<"same", n>>
  BY <1>1
<1>9. CASE end[2]
  <2>1. s.len + Len(v) < to /\ Extend(n, s, r, v, TRUE) /\ call' = <<"add", n, v>>
    BY <1>7, <1>8, <1>9
  <2>2. s.len + Len(v) <= to /\ s.len + Len(v) < 2 ^ LengthBits
    <3> DEFINE max == 2 ^ LengthBits
    <3>1. max \in Nat /\ to <= max
      BY <1>6
    <3> HIDE DEF max
    <3>2. s.len + Len(v) <= to /\ s.len + Len(v) < max
      BY <1>2, <1>6, <2>1, <3>1
    <3> QED
      BY <3>2 DEF max
  <2>3. Gives(n, Bytes(s, mem) \o v)
    BY <1>1, <1>2, <1>5, <1>6, <2>1, <2>2, ExtendBounded
  <2> QED
    BY <2>1, <2>3 DEF Content
<1>10. CASE ~end[2]
  <2>1. str' = Put(str, n, r.s) /\ mem' = r.mem /\ call' = <<"same", n>>
    BY <1>8, <1>10
  <2>2. Gives(n, Content(n))
    BY <1>1, <1>5, <1>6, <2>1, GrowBounded
  <2> QED
    BY <2>1, <2>2
<1> QED
  BY <1>9, <1>10
-----------------------------------------------------------------------------
(* Changes in place.                                                         *)

\* A string of which the length is set.
LEMMA RelengthTurns ==
  ASSUME NEW n \in Alive, Shape(str[n]), NEW len, str' = [str EXCEPT ![n].len = len],
         NEW t, t = [str[n] EXCEPT !.len = len]
  PROVE  Turns(n, t) /\ Resized(str[n], t, len)
<1>1. Turns(n, t)
  BY DEF Turns, Alive
<1> QED
  BY <1>1, Lengthened

LEMMA FillBounded ==
  ASSUME IInv, BInv, GStringAssumption, NEW n \in Alive, Shape(str[n]), NEW v, Chars(v), Fill(n, v)
  PROVE  Gives(n, v)
<1> DEFINE s == str[n]
           t == [s EXCEPT !.len = Len(v)]
           to == Capacity(s)
<1>1. /\ Undisturbed(n) /\ s.power > 0 /\ Len(v) <= to
      /\ str' = [str EXCEPT ![n].len = Len(v)] /\ mem' = Write(mem, s, 0, v)
  BY DEF Fill
<1>2. Alone(n, s, mem, to) /\ to \in Nat
  BY <1>1, OwnBuffer
<1>3. Turns(n, t) /\ Resized(s, t, Len(v))
  BY <1>1, RelengthTurns
<1> HIDE DEF t, to
<1>4. 0 + Len(v) <= to
  BY <1>1 DEF Chars
<1>5. Overwrites(Bytes(s, mem), 0, v, v)
  BY BytesAre, OverwritesAll DEF BInv
<1> QED
  BY <1>1, <1>2, <1>3, <1>4, <1>5, WritesBounded

LEMMA LengthBounded ==
  ASSUME BInv, GStringAssumption, NEW n \in Alive, Shape(str[n]), NEW len \in Lengths, Length(n, len)
  PROVE  Gives(n, SubSeq(Content(n), 1, len))
<1> DEFINE s == str[n]
           t == [s EXCEPT !.len = len]
           v == Content(n)
           w == Bytes(t, mem)
           u == SubSeq(v, 1, len)
<1>1. /\ len \in Nat /\ len <= s.len /\ s.len \in Nat /\ Within(s, mem) /\ Memory(mem)
      /\ str' = [str EXCEPT ![n].len = len] /\ mem' = mem
  BY LengthsAreNat DEF Length, BInv, Within
<1>2. Turns(n, t) /\ t.len = len /\ t.at = s.at /\ t.off = s.off /\ t.power = s.power
  <2>1. Turns(n, t) /\ Resized(s, t, len)
    BY <1>1, RelengthTurns
  <2> HIDE DEF t
  <2> QED
    BY <2>1 DEF Resized
<1> HIDE DEF t
<1>3. Within(t, mem)
  <2>1. CASE s.at = Null
    BY <1>1, <1>2, <2>1 DEF Within
  <2>2. CASE s.at # Null
    <3>1. s.off \in Nat /\ s.off + s.len <= Len(mem[s.at]) /\ Len(mem[s.at]) \in Nat /\ s.at \in DOMAIN mem
      BY <1>1, <2>2 DEF Within, Memory, Chars
    <3>2. s.off + len <= Len(mem[s.at])
      BY <1>1, <3>1
    <3>3. Capacity(t) = Capacity(s)
      BY <1>2 DEF Capacity
    <3> QED
      BY <1>1, <1>2, <3>1, <3>2, <3>3 DEF Within
  <2> QED
    BY <2>1, <2>2
<1>4. Chars(v) /\ Len(v) = s.len /\ \A i \in 1 .. s.len : v[i] = mem[s.at][s.off + i]
  BY <1>1, BytesAre DEF Content
<1>5. Chars(w) /\ Len(w) = len /\ \A i \in 1 .. len : w[i] = mem[s.at][s.off + i]
  BY <1>1, <1>2, <1>3, BytesAre
<1> HIDE DEF v, w
<1>6. Chars(u) /\ Len(u) = len /\ \A i \in 1 .. len : u[i] = v[i]
  BY <1>1, <1>4, FirstChars
<1> HIDE DEF u
<1>7. ASSUME NEW i \in 1 .. len PROVE w[i] = u[i]
  <2>1. i \in 1 .. s.len
    BY <1>1
  <2> QED
    BY <1>4, <1>5, <1>6, <2>1
<1>8. w = u
  BY <1>5, <1>6, <1>7, EqualChars
<1>9. Gives(n, w)
  BY <1>1, <1>2, <1>3, SameKept, TurnsBounded DEF w
<1> QED
  BY <1>8, <1>9 DEF u, v

\* Who may write into its characters has room for as many.
LEMMA OwnRoom ==
  ASSUME BInv, NEW n \in Alive, Writable(n), str[n].at # Null
  PROVE  Alone(n, str[n], mem, str[n].len)
<1>1. Within(str[n], mem) /\ Room(str[n], mem, str[n].len)
  BY DEF BInv, Within, Room
<1>2. \A k \in Alive \ {n} : str[k].at # str[n].at /\ str[n].at \notin Literals
  BY DEF Writable, Shared
<1> QED
  BY <1>1, <1>2, SameKept DEF Alone, Writable

LEMMA SetAtBounded ==
  ASSUME BInv, GStringAssumption, NEW n \in Alive, NEW i \in Lengths, NEW c, SetAt(n, i, c)
  PROVE  Gives(n, [Content(n) EXCEPT ![i + 1] = c])
<1> DEFINE s == str[n]
           v == <<c>>
           old == Content(n)
           w == [old EXCEPT ![i + 1] = c]
<1>1. i \in Nat /\ i < s.len /\ Writable(n) /\ str' = str /\ mem' = Write(mem, s, i, v)
  BY LengthsAreNat DEF SetAt
<1>2. Chars(v) /\ Len(v) = 1 /\ v[1] = c
  BY OneChar
<1>3. Within(s, mem) /\ s.len \in Nat
  BY DEF BInv, Within
<1>4. s.at # Null
  BY <1>1, <1>3 DEF Within
<1>5. Alone(n, s, mem, s.len)
  BY <1>1, <1>4, OwnRoom
<1>6. Chars(old) /\ Len(old) = s.len /\ old = Bytes(s, mem)
  BY ContentIs DEF Content
<1> HIDE DEF v, old
<1>7. old = [k \in 1 .. s.len |-> old[k]]
  BY <1>6 DEF Chars
<1>8. w = [k \in 1 .. s.len |-> w[k]] /\ \A k \in 1 .. s.len : w[k] = IF k = i + 1 THEN c ELSE old[k]
  BY <1>7
<1> HIDE DEF w
<1>9. Chars(w) /\ Len(w) = s.len
  BY <1>3, <1>8, CharsOf
<1>10. ASSUME NEW k \in 1 .. s.len
       PROVE  IF k - i \in 1 .. 1 THEN w[k] = v[k - i] ELSE k <= s.len /\ w[k] = old[k]
  <2>1. CASE k = i + 1
    <3>1. k - i = 1
      BY <1>1, <2>1
    <3>2. k - i \in 1 .. 1
      BY <3>1
    <3>3. w[k] = c
      BY <1>8, <2>1
    <3>4. v[k - i] = c
      BY <1>2, <3>1
    <3> QED
      BY <3>2, <3>3, <3>4
  <2>2. CASE k # i + 1
    <3>1. k - i \notin 1 .. 1 /\ k <= s.len
      BY <1>1, <1>3, <2>2
    <3>2. w[k] = old[k]
      BY <1>8, <2>2
    <3> QED
      BY <3>1, <3>2
  <2> QED
    BY <2>1, <2>2
<1>11. Overwrites(Bytes(s, mem), i, v, w)
  BY <1>2, <1>6, <1>9, <1>10 DEF Overwrites
<1>12. Turns(n, s) /\ Resized(s, s, Len(w))
  BY <1>1, <1>9 DEF Turns, Alive, Resized
<1>13. i + Len(v) <= s.len /\ Len(w) <= s.len
  BY <1>1, <1>2, <1>3, <1>9
<1>14. Gives(n, w)
  BY <1>1, <1>3, <1>5, <1>11, <1>12, <1>13, WritesBounded
<1> QED
  BY <1>14 DEF w, old

LEMMA EraseBounded ==
  ASSUME BInv, GStringAssumption, NEW n \in Alive, Shape(str[n]),
         NEW pos \in Lengths, NEW count \in Lengths, Erase(n, pos, count)
  PROVE  Gives(n, SubSeq(Content(n), 1, pos) \o SubSeq(Content(n), pos + count + 1, Len(Content(n))))
<1> DEFINE s == str[n]
           size == s.len
           old == Content(n)
           from == pos + count + 1
           u == SubSeq(old, 1, pos)
           v == SubSeq(old, from, size)
           w == u \o v
           len == size - count
           t == [s EXCEPT !.len = len]
<1>1. /\ pos \in Nat /\ count \in Nat /\ pos + count <= size /\ s.at # Null /\ Writable(n)
      /\ str' = [str EXCEPT ![n].len = len] /\ mem' = Write(mem, s, pos, v)
  BY LengthsAreNat DEF Erase
<1>2. size \in Nat /\ Chars(old) /\ Len(old) = size /\ old = Bytes(s, mem)
  BY ContentIs DEF BInv, Within, Content
<1>3. Alone(n, s, mem, size)
  BY <1>1, OwnRoom
<1>4. Turns(n, t) /\ Resized(s, t, len)
  BY <1>1, RelengthTurns
<1> HIDE DEF t, old, size
<1>5. /\ from \in Nat /\ 1 <= from /\ from <= size + 1 /\ len \in Nat /\ len <= size
      /\ size - from + 1 = len - pos /\ pos <= len /\ len - pos \in Nat /\ pos <= size
      /\ pos + (len - pos) = len
  <2>1. pos \in Nat /\ count \in Nat /\ size \in Nat /\ pos + count <= size
    BY <1>1, <1>2
  <2> QED
    BY <2>1
<1> HIDE DEF from, len
<1>6. Chars(u) /\ Len(u) = pos /\ \A k \in 1 .. pos : u[k] = old[k]
  BY <1>1, <1>2, <1>5, FirstChars
<1>7. Chars(v) /\ Len(v) = len - pos
  <2>1. Chars(v) /\ Len(v) = size - from + 1
    BY <1>1, <1>2, <1>5, SomeChars
  <2> QED
    BY <1>5, <2>1
<1> HIDE DEF u, v
<1>8. Chars(w) /\ Len(w) = len
      /\ \A i \in 1 .. len : w[i] = IF i <= pos THEN u[i] ELSE v[i - pos]
  <2>1. Chars(w) /\ Len(w) = Len(u) + Len(v)
        /\ \A i \in 1 .. Len(u) + Len(v) : w[i] = IF i <= Len(u) THEN u[i] ELSE v[i - Len(u)]
    BY <1>6, <1>7, Concat
  <2>2. Len(u) = pos /\ Len(u) + Len(v) = len
    BY <1>5, <1>6, <1>7
  <2> HIDE DEF w
  <2> QED
    BY <2>1, <2>2
<1> HIDE DEF w
<1>9. ASSUME NEW i \in 1 .. len
      PROVE  IF i - pos \in 1 .. len - pos THEN w[i] = v[i - pos] ELSE i <= size /\ w[i] = old[i]
  <2>1. CASE i <= pos
    <3>1. i - pos \notin 1 .. len - pos /\ i \in 1 .. pos /\ i <= size
      BY <1>1, <1>2, <1>5, <2>1
    <3> QED
      BY <1>6, <1>8, <2>1, <3>1
  <2>2. CASE ~(i <= pos)
    <3>0. pos \in Nat /\ len \in Nat /\ i \in 1 .. len
      BY <1>1, <1>5
    <3>1. i - pos \in 1 .. len - pos
      BY <2>2, <3>0
    <3> QED
      BY <1>8, <2>2, <3>1
  <2> QED
    BY <2>1, <2>2
<1>10. Overwrites(Bytes(s, mem), pos, v, w)
  BY <1>2, <1>7, <1>8, <1>9 DEF Overwrites
<1>11. pos + Len(v) <= size /\ Len(w) <= size /\ Resized(s, t, Len(w))
  BY <1>4, <1>5, <1>7, <1>8
<1>12. Gives(n, w)
  BY <1>1, <1>2, <1>3, <1>4, <1>10, <1>11, WritesBounded
<1> QED
  BY <1>2, <1>12 DEF w, u, v, from, old, size
-----------------------------------------------------------------------------
(* A call is one of GStringSpec.                                             *)

LEMMA SamesAre ==
  ASSUME NEW n \in Alive, call' = <<"same", n>>, Gives(n, Content(n))
  PROVE  ValueStrings!Next
<1> DEFINE values == [x \in Alive |-> Content(x)]
<1>1. ValueStrings!Give(n, Content(n))
  BY DEF Gives
<1>2. values' = values
  BY <1>1 DEF ValueStrings!Give
<1>3. ValueStrings!Same(n)
  BY <1>2 DEF ValueStrings!Same
<1> QED
  BY <1>3 DEF ValueStrings!Next

LEMMA AddsAre ==
  ASSUME NEW n \in Alive, NEW v \in AllTexts, call' = <<"add", n, v>>, Gives(n, Content(n) \o v)
  PROVE  ValueStrings!Next
<1>1. ValueStrings!Add(n, v)
  BY DEF ValueStrings!Add, Gives
<1> QED
  BY <1>1 DEF ValueStrings!Next, AllTexts

LEMMA StringsAreAdded ==
  ASSUME NEW n \in Alive, NEW m \in Alive, call' = <<"addString", n, m>>,
         Gives(n, Content(n) \o Content(m))
  PROVE  ValueStrings!Next
<1>1. ValueStrings!AddString(n, m)
  BY DEF ValueStrings!AddString, Gives
<1> QED
  BY <1>1 DEF ValueStrings!Next

LEMMA NumbersAreAdded ==
  ASSUME NEW n \in Alive, NEW q \in Numbers, call' = <<"addNumber", n, q[1], q[2]>>,
         Gives(n, Content(n) \o ValueStrings!Numeral(q[1], q[2]))
  PROVE  ValueStrings!Next
<1>1. ValueStrings!AddNumber(n, q[1], q[2])
  BY DEF ValueStrings!AddNumber, Gives
<1> QED
  BY <1>1 DEF ValueStrings!Next

LEMMA FillsAre ==
  ASSUME NEW n \in Alive, NEW v \in AllTexts, call' = <<"fill", n, v>>, Gives(n, v)
  PROVE  ValueStrings!Next
<1>1. ValueStrings!Fill(n, v)
  BY DEF ValueStrings!Fill, Gives
<1> QED
  BY <1>1 DEF ValueStrings!Next, AllTexts

LEMMA CutsAre ==
  ASSUME NEW n \in Alive, NEW i \in Lengths, call' = <<"cut", n, i>>, Gives(n, SubSeq(Content(n), 1, i))
  PROVE  ValueStrings!Next
<1>1. ValueStrings!Cut(n, i)
  BY DEF ValueStrings!Cut, Gives
<1> QED
  BY <1>1 DEF ValueStrings!Next

LEMMA SetsAre ==
  ASSUME NEW n \in Alive, NEW i \in Lengths, NEW v \in AllTexts, Len(v) = 1,
         call' = <<"set", n, i, v[1]>>, Gives(n, [Content(n) EXCEPT ![i + 1] = v[1]])
  PROVE  ValueStrings!Next
<1>1. ValueStrings!Set(n, i, v[1])
  BY DEF ValueStrings!Set, Gives
<1> QED
  BY <1>1 DEF ValueStrings!Next, AllTexts

LEMMA ErasesAre ==
  ASSUME NEW n \in Alive, NEW i \in Lengths, NEW count \in Lengths,
         call' = <<"erase", n, i, count>>,
         Gives(n, SubSeq(Content(n), 1, i) \o SubSeq(Content(n), i + count + 1, Len(Content(n))))
  PROVE  ValueStrings!Next
<1>1. ValueStrings!Erase(n, i, count)
  BY DEF ValueStrings!Erase, Gives
<1> QED
  BY <1>1 DEF ValueStrings!Next

LEMMA ChangeBounded ==
  ASSUME IInv, BInv, GStringAssumption, TextsAssumption, NumbersAssumption, Habits = {},
         NEW n \in Alive, Change(n)
  PROVE  BInv' /\ ValueStrings!Next
<1>0. n \in Names /\ Shape(str[n]) /\ \A v \in Texts \cup Times : Chars(v) /\ v \in AllTexts
  BY TextsAreChars DEF IInv, Shapes, AllTexts
<1> DEFINE Good == BInv' /\ ValueStrings!Next
<1>1. CASE Destroy(n) /\ call' = <<"end", n>>
  <2>1. BInv' /\ ValueStrings!End(n)
    BY <1>1, DestroyBounded
  <2> QED
    BY <2>1 DEF ValueStrings!Next
<1>2. CASE (Owned(n) \/ CStr(n) \/ \E to \in Lengths : Reserve(n, to)) /\ call' = <<"same", n>>
  <2>1. Gives(n, Content(n))
    BY <1>0, <1>2, OwnedBounded, CStrBounded, ReserveBounded
  <2> QED
    BY <1>2, <2>1, SamesAre DEF Gives
<1>3. ASSUME NEW m \in Alive, Assign(n, m), call' = <<"copy", n, m>> PROVE Good
  <2>1. Gives(n, Content(m))
    BY <1>0, <1>3, AssignBounded
  <2> QED
    BY <1>0, <1>3, <2>1, CopiesAre DEF Gives
<1>4. ASSUME NEW m \in Alive, MoveAssign(n, m), call' = <<"move", n, m>> PROVE Good
  BY <1>0, <1>4, MoveAssignBounded, MovesAre
<1>5. ASSUME NEW m \in Alive, AppendString(n, m), call' = <<"addString", n, m>> PROVE Good
  <2>1. Gives(n, Content(n) \o Content(m))
    BY <1>0, <1>5, AppendStringBounded
  <2> QED
    BY <1>5, <2>1, StringsAreAdded DEF Gives
<1>6. ASSUME NEW v \in Texts, AppendChars(n, v), call' = <<"add", n, v>> PROVE Good
  <2>1. Gives(n, Content(n) \o v)
    BY <1>0, <1>6, AppendCharsBounded
  <2> QED
    BY <1>0, <1>6, <2>1, AddsAre DEF Gives
<1>7. ASSUME NEW v \in Texts, ParseFrom(n, v) \/ Fill(n, v), call' = <<"fill", n, v>> PROVE Good
  <2>1. Gives(n, v)
    BY <1>0, <1>7, ParseFromBounded, FillBounded
  <2> QED
    BY <1>0, <1>7, <2>1, FillsAre DEF Gives
<1>8. ASSUME NEW q \in Numbers, Append64(n, q[1], q[2]), call' = <<"addNumber", n, q[1], q[2]>> PROVE Good
  <2>1. Gives(n, Content(n) \o ValueStrings!Numeral(q[1], q[2]))
    BY <1>0, <1>8, Append64Bounded
  <2> QED
    BY <1>8, <2>1, NumbersAreAdded DEF Gives
<1>9. ASSUME NEW v \in Times, AppendTime(n, v) PROVE Good
  <2>1. \/ call' = <<"add", n, v>> /\ Gives(n, Content(n) \o v)
        \/ call' = <<"same", n>> /\ Gives(n, Content(n))
    BY <1>0, <1>9, AppendTimeBounded
  <2> QED
    BY <1>0, <2>1, AddsAre, SamesAre DEF Gives
<1>10. ASSUME NEW i \in Lengths, Length(n, i), call' = <<"cut", n, i>> PROVE Good
  <2>1. Gives(n, SubSeq(Content(n), 1, i))
    BY <1>0, <1>10, LengthBounded
  <2> QED
    BY <1>10, <2>1, CutsAre DEF Gives
<1>11. ASSUME NEW i \in Lengths, NEW v \in Texts, Len(v) = 1, SetAt(n, i, v[1]), call' = <<"set", n, i, v[1]>>
       PROVE  Good
  <2>1. Gives(n, [Content(n) EXCEPT ![i + 1] = v[1]])
    BY <1>11, SetAtBounded
  <2> QED
    BY <1>0, <1>11, <2>1, SetsAre DEF Gives
<1>12. ASSUME NEW i \in Lengths, NEW count \in Lengths, Erase(n, i, count), call' = <<"erase", n, i, count>>
       PROVE  Good
  <2>1. Gives(n, SubSeq(Content(n), 1, i) \o SubSeq(Content(n), i + count + 1, Len(Content(n))))
    BY <1>0, <1>12, EraseBounded
  <2> QED
    BY <1>12, <2>1, ErasesAre DEF Gives
<1> HIDE DEF Good
<1>13. Good
  BY <1>1, <1>2, <1>3, <1>4, <1>5, <1>6, <1>7, <1>8, <1>9, <1>10, <1>11, <1>12 DEF Change, Good
<1> QED
  BY <1>13 DEF Good

LEMMA NextBounded ==
  ASSUME IInv, BInv, GStringAssumption, TextsAssumption, NumbersAssumption, Habits = {}, [Next]_vars
  PROVE  BInv' /\ [ValueStrings!Next]_<<[n \in Alive |-> Content(n)], call>>
<1>1. CASE UNCHANGED vars
  <2>1. str' = str /\ mem' = mem /\ call' = call
    BY <1>1 DEF vars
  <2>2. [n \in Alive |-> Content(n)]' = [n \in Alive |-> Content(n)] /\ BInv'
    BY <2>1 DEF Alive, Content, BInv
  <2> QED
    BY <2>1, <2>2
<1>2. ASSUME NEW n \in Names, Construct(n) PROVE BInv' /\ ValueStrings!Next
  BY <1>2, ConstructBounded
<1>3. ASSUME NEW n \in Alive, Change(n) PROVE BInv' /\ ValueStrings!Next
  BY <1>3, ChangeBounded
<1> QED
  BY <1>1, <1>2, <1>3 DEF Next

\* Every string is in bounds, whatever is called.
LEMMA BInvHolds ==
  ASSUME GStringAssumption, TextsAssumption, NumbersAssumption, Habits = {}
  PROVE  Spec => []BInv
<1>1. Init => BInv
  BY InitBInv
<1>2. IInv /\ BInv /\ [Next]_vars => BInv'
  BY NextBounded
<1> QED
  BY <1>1, <1>2, TypeIInv, PTL DEF Spec

\* No string says that it is longer, or has more room, than the memory it is in
\* (gstring.hpp:84-86), whatever is called and whatever it is called with.
THEOREM NothingIsOutside == Spec /\ Habits = {} => []InBounds
<1> USE GStringAssumption, TextsAssumption, NumbersAssumption
<1>1. SUFFICES ASSUME Habits = {} PROVE Spec => []InBounds
  OBVIOUS
<1>2. BInv => InBounds
  BY DEF BInv, Within, InBounds
<1> QED
  BY <1>1, <1>2, BInvHolds, PTL

\* A string is a value (gstring.hpp:80-86): a call gives one string the characters it should, and no
\* other string notices, whoever shares, reuses, moves or frees the buffers.
THEOREM StringsAreValues == Spec /\ Habits = {} => IsValue
<1> USE GStringAssumption, TextsAssumption, NumbersAssumption
<1>1. SUFFICES ASSUME Habits = {} PROVE Spec => IsValue
  OBVIOUS
<1>2. Init => ValueStrings!Init
  BY DEF Init, ValueStrings!Init, Alive
<1>3. IInv /\ BInv /\ [Next]_vars => [ValueStrings!Next]_<<[n \in Alive |-> Content(n)], call>>
  BY <1>1, NextBounded
<1> QED
  BY <1>1, <1>2, <1>3, TypeIInv, BInvHolds, PTL DEF Spec, IsValue, ValueStrings!Spec
=============================================================================
