------------------------------ MODULE GString ------------------------------
(* gstring (gstring.hpp): strings whose buffers are owned, reused from the   *)
(* stack, or views of what somebody else owns.  An action is a call of one   *)
(* member function.  malloc and realloc do not fail.  A buffer of the stack  *)
(* and a literal outlive every string.                                       *)
(* The contract with the callers, where the code has one (l. 211-212), is    *)
(* Undisturbed: a string is not changed in its own buffer, nor destroyed     *)
(* with it, while views of the buffer exist.                                 *)
EXTENDS Integers, SequencesExt

CONSTANTS
    Names,      \* the variables that hold gstrings
    Blocks,     \* what malloc can return
    Stacks, Literals, Static,   \* stack buffers, C literals, and the bytes in them
    Texts, Numbers, Digit,      \* as in GStringSpec
    NumberRoom, \* the `bytes` of append64
    Times,      \* what strftime prints
    TimeMin, TimeMax,   \* 8 and 1024 in the code
    LengthBits, \* the width of the length in _meta, 24 in the code
    Habits,     \* what callers do although the code does not survive it, see below
    Null, Junk  \* no buffer; a byte that nobody wrote

ASSUME GStringAssumption ==
    /\ Null \notin Blocks \cup Stacks \cup Literals
    /\ Blocks \cap (Stacks \cup Literals) = {} /\ Stacks \cap Literals = {}
    /\ DOMAIN Static = Stacks \cup Literals
    /\ LengthBits \in Nat /\ NumberRoom \in Nat /\ TimeMin \in Nat \ {0, 1} /\ TimeMax \in Nat
    /\ Habits \subseteq {"copyGrownRef", "assignToStack", "reserveLess", "selfAppend", "full"}

\* Characters, written anywhere or there already, are sequences; a length says
\* how many a stack buffer holds.
ASSUME TextsAssumption ==
    /\ \A v \in Texts \cup Times \cup {Static[b] : b \in Stacks \cup Literals} :
          Len(v) \in Nat /\ v = [i \in 1 .. Len(v) |-> v[i]]
    /\ \A b \in Stacks : Len(Static[b]) <= 2 ^ LengthBits

VARIABLES
    str,    \* the strings that exist: _meta as free, ref, power and len, _buf as at and off
    mem,    \* the bytes of the memory that is allocated
    call    \* ghost: the call that was made last

vars == <<str, mem, call>>

Alive == DOMAIN str
Heap == DOMAIN mem \cap Blocks

Empty == [free |-> FALSE, ref |-> FALSE, power |-> 0, len |-> 0, at |-> Null, off |-> 0]

Init == str = << >> /\ mem = Static /\ call = <<"none">>
-----------------------------------------------------------------------------
(* The memory.                                                               *)

Put(f, x, v) == [y \in DOMAIN f \cup {x} |-> IF y = x THEN v ELSE f[y]]
Drop(f, x) == [y \in DOMAIN f \ {x} |-> f[y]]

\* The bytes of a string.
Bytes(s, m) ==
    [i \in 1 .. s.len |->
        IF s.at \in DOMAIN m /\ s.off + i <= Len(m[s.at]) THEN m[s.at][s.off + i] ELSE Junk]
Content(n) == Bytes(str[n], mem)

\* The memory after v is written to a buffer, so many characters after its
\* beginning; beyond the end of the memory it leaves nothing of it.
Write(m, s, pos, v) ==
    IF v = << >> THEN m
    ELSE [m EXCEPT ![s.at] =
             IF s.off + pos + Len(v) > Len(@) THEN << >>
             ELSE [i \in DOMAIN @ |-> IF i - s.off - pos \in DOMAIN v THEN v[i - s.off - pos] ELSE @[i]]]

\* The _buf of a string is freed where the code does: if it needs to be.
NeedsFreeing(s) == s.free /\ s.at # Null
Freed(s) == IF NeedsFreeing(s) THEN Drop(mem, s.at) ELSE mem

\* A malloced copy of some bytes, of which the capacity is not noted.
Malloced(v, b) == [Empty EXCEPT !.free = TRUE, !.len = Len(v), !.at = b]
Free(m) == Blocks \ DOMAIN m

Capacity(s) == 2 ^ s.power
LengthMask == 2 ^ LengthBits - 1
-----------------------------------------------------------------------------
(* The contract.                                                             *)

Shared(n) == str[n].at # Null /\ \E m \in Alive \ {n} : str[m].at = str[n].at
Undisturbed(n) == (NeedsFreeing(str[n]) \/ str[n].power > 0) => ~Shared(n)
Writable(n) == ~Shared(n) /\ str[n].at \notin Literals
-----------------------------------------------------------------------------
(* Constructors.                                                             *)

Default(n) ==
    /\ n \notin Alive
    /\ str' = Put(str, n, Empty) /\ UNCHANGED mem

\* GSTRING_ON_STACK: the power of two that fits into the buffer.
OnStack(n, b) ==
    /\ n \notin Alive /\ \A m \in Alive : str[m].at # b
    /\ \E p \in 0 .. Len(mem[b]) :
          /\ 2 ^ p <= Len(mem[b]) \/ p = 0
          /\ 2 ^ (p + 1) > Len(mem[b])
          /\ str' = Put(str, n, [Empty EXCEPT !.power = p, !.at = b])
    /\ UNCHANGED mem

\* C2GSTRING.
Literal(n, l) ==
    /\ n \notin Alive
    /\ str' = Put(str, n, [Empty EXCEPT !.ref = TRUE, !.len = Len(mem[l]), !.at = l])
    /\ UNCHANGED mem

\* From chars and their length.  Without characters nothing is malloced, but
\* the string says that it needs to be freed; from a C string or a std::string
\* it would be as by Default.
FromChars(n, v) ==
    /\ n \notin Alive
    /\ IF v = << >>
       THEN str' = Put(str, n, [Empty EXCEPT !.free = TRUE]) /\ UNCHANGED mem
       ELSE \E b \in Free(mem) : str' = Put(str, n, Malloced(v, b)) /\ mem' = Put(mem, b, v)

\* gstring (data(), length()), as in clone().
Clone(n, m) == FromChars(n, Content(m))

\* A string that is copied by reference shares its buffer, and the flags.
\* Mutation: so does any other.
Copy_Shallow(n, m) ==
    /\ n \notin Alive
    /\ str' = Put(str, n, str[m]) /\ UNCHANGED mem
Copy(n, m) ==
    /\ n \notin Alive
    /\ str[m].ref /\ str[m].free => "copyGrownRef" \in Habits
    /\ IF str[m].len = 0 THEN str' = Put(str, n, Empty) /\ UNCHANGED mem
       ELSE IF str[m].ref THEN str' = Put(str, n, str[m]) /\ UNCHANGED mem
       ELSE \E b \in Free(mem) :
               str' = Put(str, n, Malloced(Content(m), b)) /\ mem' = Put(mem, b, Content(m))

MoveCtor(n, m) ==
    /\ n \notin Alive
    /\ str' = Put(Put(str, m, Empty), n, str[m])
    /\ UNCHANGED mem

Destroy(n) ==
    /\ Undisturbed(n)
    /\ str' = Drop(str, n) /\ mem' = Freed(str[n])
-----------------------------------------------------------------------------
(* Assignment.                                                               *)

\* A buffer whose capacity is known is reused; `capacity <= 1` means there is none.
Reuses(s, len) == len <= Capacity(s) /\ Capacity(s) > 1
Assign(n, m) ==
    /\ n # m /\ Undisturbed(n)
    /\ LET s == str[n]  g == str[m]  v == Content(m)
       IN  IF Reuses(s, g.len)
           THEN /\ s.free \/ "assignToStack" \in Habits
                /\ str' = Put(str, n, [s EXCEPT !.free = TRUE, !.ref = FALSE, !.len = g.len])
                /\ mem' = Write(mem, s, 0, v)
           ELSE IF g.ref
           THEN /\ g.free => "copyGrownRef" \in Habits
                /\ str' = Put(str, n, g) /\ mem' = Freed(s)
           ELSE \E b \in Free(Freed(s)) :
                   str' = Put(str, n, Malloced(v, b)) /\ mem' = Put(Freed(s), b, v)

MoveAssign(n, m) ==
    /\ n # m /\ Undisturbed(n)
    /\ str' = Put(Put(str, m, Empty), n, str[m])
    /\ mem' = Freed(str[n])

Owned(n) ==
    /\ ~str[n].free
    /\ IF str[n].len = 0 THEN str' = Put(str, n, [Empty EXCEPT !.free = TRUE]) /\ UNCHANGED mem
       ELSE \E b \in Free(mem) :
               str' = Put(str, n, Malloced(Content(n), b)) /\ mem' = Put(mem, b, Content(n))
-----------------------------------------------------------------------------
(* Views.                                                                    *)

RefOf(n, m) ==
    /\ n \notin Alive
    /\ str' = Put(str, n, [Empty EXCEPT !.ref = TRUE, !.len = str[m].len,
                                        !.at = str[m].at, !.off = str[m].off])
    /\ UNCHANGED mem

View(n, m, pos, count) ==
    /\ n \notin Alive /\ str[m].at # Null /\ pos + count <= str[m].len
    /\ str' = Put(str, n, [Empty EXCEPT !.ref = str[m].ref, !.len = count,
                                        !.at = str[m].at, !.off = str[m].off + pos])
    /\ UNCHANGED mem
-----------------------------------------------------------------------------
(* Growing.                                                                  *)

\* The capacity after reserve (to), which throws if it is too large.
PowerFor(power, to) ==
    IF 2 ^ power >= to THEN power
    ELSE CHOOSE p \in power + 1 .. power + to : 2 ^ p >= to /\ 2 ^ (p - 1) < to
Throws(s, to) == 2 ^ s.power < to /\ PowerFor(s.power, to) > LengthBits

\* What reserve (to) can make of a string and the memory: nothing if there is
\* room, or else a buffer that is moved or, unless realloc could extend it in
\* place, a malloced one.  Mutation: the old one is not freed.
Reserved_Leaks(s, to) ==
    LET p == PowerFor(s.power, to)
    IN  IF p = s.power /\ p > 0 THEN {[s |-> s, mem |-> mem]}
        ELSE {[s |-> [s EXCEPT !.power = p, !.free = TRUE, !.at = b, !.off = 0],
               mem |-> Put(mem, b, [i \in 1 .. 2 ^ p |->
                                       IF i <= s.len THEN Bytes(s, mem)[i] ELSE Junk])]
                : b \in Free(mem)}
Reserved(s, to) ==
    LET p == PowerFor(s.power, to)
        kept == IF s.at = Null THEN << >> ELSE IF s.free THEN mem[s.at] ELSE Bytes(s, mem)
        moved == [i \in 1 .. 2 ^ p |-> IF i <= Len(kept) THEN kept[i] ELSE Junk]
    IN  IF p = s.power /\ p > 0 THEN {[s |-> s, mem |-> mem]}
        ELSE {[s |-> [s EXCEPT !.power = p, !.free = TRUE, !.at = b, !.off = 0],
               mem |-> Put(Freed(s), b, moved)] : b \in Free(Freed(s))}

Reserve(n, to) ==
    /\ Undisturbed(n)
    /\ to >= str[n].len \/ "reserveLess" \in Habits
    /\ ~Throws(str[n], to)
    /\ \E r \in Reserved(str[n], to) : str' = Put(str, n, r.s) /\ mem' = r.mem

\* A zero is written after the characters.
CStr(n) ==
    /\ Undisturbed(n)
    /\ str[n].len > 0 /\ ~Throws(str[n], str[n].len + 1)
    /\ \E r \in Reserved(str[n], str[n].len + 1) :
          /\ str' = Put(str, n, r.s)
          /\ mem' = Write(r.mem, r.s, str[n].len, <<"nul">>)

\* After r made room in s, the characters v are written behind those of s.
Extend(n, s, r, v, terminated) ==
    /\ str' = Put(str, n, [r.s EXCEPT !.len = (s.len + Len(v)) % 2 ^ LengthBits])
    /\ mem' = Write(r.mem, r.s, s.len, IF terminated THEN Append(v, "nul") ELSE v)

\* A length of exactly 2^LengthBits does not throw, and is cut to 0.
Fits(s, to) == ~Throws(s, to) /\ (to <= LengthMask \/ "full" \in Habits)

\* Characters from elsewhere; from another string, or from this one, whose
\* buffer must not move then.
AppendChars(n, v) ==
    LET s == str[n]  need == s.len + Len(v)
    IN  /\ Undisturbed(n) /\ Fits(s, need)
        /\ \E r \in Reserved(s, need) : Extend(n, s, r, v, FALSE)
AppendString(n, m) ==
    LET s == str[n]  g == str[m]  need == s.len + g.len
    IN  /\ Undisturbed(n) /\ Fits(s, need)
        /\ n = m => (s.power > 0 /\ need <= Capacity(s)) \/ "selfAppend" \in Habits
        /\ \E r \in Reserved(s, need) : Extend(n, s, r, Bytes(g, r.mem), FALSE)

\* itoa: the digits from the lowest on, the sign, and all of it reversed.
\* Mutation: only the digits are.
Itoa_SignLast(iv, base) ==
    LET low[v \in Nat] == <<Digit[(v % base) + 1]>> \o (IF v < base THEN << >> ELSE low[v \div base])
    IN  IF iv < 0 THEN Reverse(low[-iv]) \o <<"-">> ELSE Reverse(low[iv])
Itoa(iv, base) ==
    LET low[v \in Nat] == <<Digit[(v % base) + 1]>> \o (IF v < base THEN << >> ELSE low[v \div base])
    IN  IF iv < 0 THEN Reverse(low[-iv] \o <<"-">>) ELSE Reverse(low[iv])

\* The callers' `bytes` are enough for the digits, the sign and a zero.
ASSUME NumbersAssumption ==
    \A q \in Numbers : q[1] \in Int /\ q[2] \in Nat \ {0, 1} /\ Len(Itoa(q[1], q[2])) < NumberRoom

\* Mutation: the zero that itoa adds has no room.
Append64_Tight(n, iv, base) ==
    LET s == str[n]  v == Itoa(iv, base)
    IN  /\ Undisturbed(n) /\ Fits(s, s.len + Len(v))
        /\ \E r \in Reserved(s, s.len + Len(v)) : Extend(n, s, r, v, TRUE)
Append64(n, iv, base) ==
    LET s == str[n]  v == Itoa(iv, base)
    IN  /\ Undisturbed(n) /\ Fits(s, s.len + NumberRoom)
        /\ \E r \in Reserved(s, s.len + NumberRoom) : Extend(n, s, r, v, TRUE)

\* clear, then append; false if the characters are too many.
ParseFrom(n, v) ==
    LET s == [str[n] EXCEPT !.len = 0]
    IN  /\ Undisturbed(n) /\ Len(v) <= LengthMask /\ ~Throws(s, Len(v))
        /\ \E r \in Reserved(s, Len(v)) : Extend(n, s, r, v, FALSE)

\* The capacities that appendTime goes through, where it stops and how:
\* strftime, which needs a place for the zero, returns 0 if there is too little.
TimeEnd(power, pos, v) ==
    LET end[p \in Nat] ==
          LET left == 2 ^ p - pos
              next == PowerFor(p, IF left < TimeMin THEN pos + TimeMin ELSE pos + left * 2)
          IN  IF left >= TimeMin /\ v # << >> /\ Len(v) < left THEN <<p, TRUE>>
              ELSE IF (left >= TimeMin /\ left > TimeMax) \/ next > LengthBits THEN <<p, FALSE>>
              ELSE end[next]
    IN  end[power]
AppendTime(n, v) ==
    LET s == str[n]
        end == TimeEnd(s.power, s.len, v)
    IN  /\ Undisturbed(n) /\ end # <<s.power, FALSE>>
        /\ \E r \in Reserved(s, 2 ^ end[1]) :
              IF end[2] THEN Extend(n, s, r, v, TRUE) /\ call' = <<"add", n, v>>
              ELSE str' = Put(str, n, r.s) /\ mem' = r.mem /\ call' = <<"same", n>>
-----------------------------------------------------------------------------
(* Changes in place.                                                         *)

\* The caller writes into the capacity and sets the length.
Fill(n, v) ==
    /\ Undisturbed(n) /\ str[n].power > 0 /\ str[n].at # Null /\ Len(v) <= Capacity(str[n])
    /\ str' = [str EXCEPT ![n].len = Len(v)]
    /\ mem' = Write(mem, str[n], 0, v)

\* length(len), and clear().
Length(n, len) ==
    /\ len <= str[n].len
    /\ str' = [str EXCEPT ![n].len = len] /\ UNCHANGED mem

SetAt(n, i, c) ==
    /\ i < str[n].len /\ Writable(n)
    /\ mem' = Write(mem, str[n], i, <<c>>) /\ UNCHANGED str

Erase(n, pos, count) ==
    /\ pos + count <= str[n].len /\ str[n].at # Null /\ Writable(n)
    /\ str' = [str EXCEPT ![n].len = @ - count]
    /\ mem' = Write(mem, str[n], pos, SubSeq(Content(n), pos + count + 1, str[n].len))
-----------------------------------------------------------------------------
Lengths == 0 .. LengthMask

Construct(n) ==
    \/ /\ Default(n) \/ FromChars(n, << >>) \/ \E b \in Stacks : OnStack(n, b)
       /\ call' = <<"make", n, << >>>>
    \/ \E l \in Literals : Literal(n, l) /\ call' = <<"make", n, Static[l]>>
    \/ \E v \in Texts : FromChars(n, v) /\ call' = <<"make", n, v>>
    \/ \E m \in Alive :
          \/ (Clone(n, m) \/ Copy(n, m) \/ RefOf(n, m)) /\ call' = <<"copy", n, m>>
          \/ MoveCtor(n, m) /\ call' = <<"move", n, m>>
          \/ \E pos, count \in Lengths :
                View(n, m, pos, count) /\ call' = <<"view", n, m, pos, count>>

Change(n) ==
    \/ Destroy(n) /\ call' = <<"end", n>>
    \/ (Owned(n) \/ CStr(n) \/ \E to \in Lengths : Reserve(n, to)) /\ call' = <<"same", n>>
    \/ \E m \in Alive :
          \/ Assign(n, m) /\ call' = <<"copy", n, m>>
          \/ MoveAssign(n, m) /\ call' = <<"move", n, m>>
          \/ AppendString(n, m) /\ call' = <<"addString", n, m>>
    \/ \E v \in Texts :
          \/ AppendChars(n, v) /\ call' = <<"add", n, v>>
          \/ (ParseFrom(n, v) \/ Fill(n, v)) /\ call' = <<"fill", n, v>>
    \/ \E q \in Numbers : Append64(n, q[1], q[2]) /\ call' = <<"addNumber", n, q[1], q[2]>>
    \/ \E v \in Times : AppendTime(n, v)
    \/ \E i \in Lengths :
          \/ Length(n, i) /\ call' = <<"cut", n, i>>
          \/ \E v \in Texts : Len(v) = 1 /\ SetAt(n, i, v[1]) /\ call' = <<"set", n, i, v[1]>>
          \/ \E count \in Lengths : Erase(n, i, count) /\ call' = <<"erase", n, i, count>>

Next == (\E n \in Names : Construct(n)) \/ (\E n \in Alive : Change(n))

Spec == Init /\ [][Next]_vars
-----------------------------------------------------------------------------
(* Properties.                                                               *)

\* What free, malloc and realloc ask of their caller, with FREE_FLAG as the
\* only record of it (l. 80): a buffer that will be freed is the beginning of
\* a block of the heap, and nobody else will free it.
OneOwner ==
    \A n \in Alive : NeedsFreeing(str[n]) =>
        /\ str[n].at \in Heap /\ str[n].off = 0
        /\ \A m \in Alive \ {n} : NeedsFreeing(str[m]) => str[m].at # str[n].at

\* No block is forgotten.
NoLeak == \A b \in Heap : \E n \in Alive : str[n].free /\ str[n].at = b

\* What a string says of its length and its capacity is there (l. 84-86),
\* in memory that is allocated.
InBounds ==
    \A n \in Alive :
        LET s == str[n]
        IN  IF s.at = Null THEN s.len = 0 /\ s.power = 0
            ELSE /\ s.at \in DOMAIN mem /\ s.off + s.len <= Len(mem[s.at])
                 /\ s.power > 0 => s.off + Capacity(s) <= Len(mem[s.at])

\* A string is a value.
ValueStrings == INSTANCE GStringSpec WITH
    val <- [n \in Alive |-> Content(n)],
    Texts <- Texts \cup Times \cup {Static[l] : l \in Literals}
IsValue == ValueStrings!Spec
=============================================================================
