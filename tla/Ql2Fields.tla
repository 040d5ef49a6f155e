----------------------------- MODULE Ql2Fields ------------------------------
(* What a message of RethinkDB's protocol keeps (ql2.pb.h), and what the     *)
(* methods that write, size and read it must agree about (ql2.pb.cc):        *)
(* ByteSize counts the bytes of each field, SerializeWithCachedSizes writes  *)
(* them behind the size that was counted, and the parser finds the case that *)
(* reads them by their tag or by what it expects after the field before.     *)
(*                                                                           *)
(* A message inside another is found from the outermost one by its position, *)
(* and the sizes are functions of the positions, each of them defined by     *)
(* what it makes of the positions one step further in.                       *)
EXTENDS Ql2Messages, SequencesExt

CONSTANT Names      \* the variables of the program that hold messages

VARIABLE objs       \* the message of each name, or NULL

Accessor(type, f) == Class[type].Accessors[f]
Kind(type, f) == Accessor(type, f).kind
FieldsOf(type) == DOMAIN Class[type].Accessors

Has(o, f) == Accessor(o.of, f).bit \in o.has

\* The constructor.
New(type) ==
    [of |-> type, has |-> {}, unknown |-> << >>,
     member |-> [f \in FieldsOf(type) |->
                   IF Kind(type, f) = "many"
                   THEN [size |-> 0, elements |-> << >>]
                   ELSE Class[type].SharedCtor[f]]]

Get(o, f) ==
    IF Kind(o.of, f) = "one" /\ o.member[f] = NULL
    THEN New(Accessor(o.of, f).of) ELSE o.member[f]

Live(list) == SubSeq(list.elements, 1, list.size)

\* The contents of a field that are written.
Contents(o, f) ==
    CASE Kind(o.of, f) = "many" -> Live(o.member[f])
      [] Kind(o.of, f) # "many" /\ Has(o, f) -> <<Get(o, f)>>
      [] Kind(o.of, f) # "many" /\ ~Has(o, f) -> << >>

IsMessage(type, f) == Kind(type, f) \in {"one", "many"}

Is(n) == objs[n] # NULL
-----------------------------------------------------------------------------
(* Sizes.                                                                    *)

Tag(number, type) == number * 8 + type

\* The size of an integer, seven bits to the byte; a negative one has all of
\* its 64 bits.
SizeOfVarint(x) ==
    CASE x < 0 -> 10
      [] x \in 0 .. 127 -> 1
      [] x > 127 -> CHOOSE n \in 2 .. 10 : x \in 128^(n - 1) .. 128^n - 1

SizeOfTag(number, type) == SizeOfVarint(Tag(number, type))

LengthDelimited(size) == SizeOfVarint(size) + size

SizeOfUnknown(o) ==
    SumFunction([i \in DOMAIN o.unknown |->
                   LET u == o.unknown[i]
                   IN  SizeOfTag(u[1], u[2]) + SizeOfVarint(u[3])])

\* Where a message is inside another one: the fields, and which of their
\* contents, that lead to it.
PartAt(o, position) ==
    FoldLeft(LAMBDA m, step : Contents(m, step[1])[step[2]], o, position)

IsStep(m, step) ==
    /\ step[1] \in FieldsOf(m.of) /\ IsMessage(m.of, step[1])
    /\ step[2] \in DOMAIN Contents(m, step[1])

Positions(o) ==
    {p \in Seq(STRING \X Nat) :
       /\ \A k \in DOMAIN p : IsStep(PartAt(o, SubSeq(p, 1, k - 1)), p[k])
       /\ PartAt(o, p).of \in DOMAIN Class}

\* ByteSize: what is counted for a content of a field, given the sizes further
\* in, and for a message.
CountedContent(m, position, f, by, i, size) ==
    LET x == Contents(m, f)[i]
    IN  CASE by = VarintSize -> SizeOfVarint(x)
          [] by = BoolSize -> 1
          [] by = DoubleSize -> 8
          [] by = StringSize -> LengthDelimited(Len(x))
          [] by = MessageSize ->
                LengthDelimited(size[Append(position, <<f, i>>)])

CountedFrom(m, position, size) ==
    LET table == Class[m.of].ByteSize
        Field(e) ==
            SumFunction([i \in DOMAIN Contents(m, e[1]) |->
                1 + CountedContent(m, position, e[1], e[2], i, size)])
    IN  SumFunction([k \in DOMAIN table |-> Field(table[k])]) + SizeOfUnknown(m)

ByteSize(o) ==
    LET size[p \in Positions(o)] == CountedFrom(PartAt(o, p), p, size)
    IN  size[<< >>]

\* SerializeWithCachedSizes: the bytes that it writes, likewise.
WrittenContent(m, position, f, wiretype, i, size) ==
    LET x == Contents(m, f)[i]
        accessor == Accessor(m.of, f)
    IN  CASE IsMessage(m.of, f) ->
                LengthDelimited(size[Append(position, <<f, i>>)])
          [] accessor.kind = "text" -> LengthDelimited(Len(x))
          [] accessor.kind = "value" /\ wiretype = Varint ->
                SizeOfVarint(IF accessor.of # "bool" THEN x
                             ELSE IF x = False THEN 0 ELSE 1)
          [] accessor.kind = "value" /\ wiretype = Fixed64 -> 8

WrittenFrom(m, position, size) ==
    LET table == Class[m.of].Serialize
        Field(e) ==
            SumFunction([i \in DOMAIN Contents(m, e[3]) |->
                SizeOfTag(e[1], e[2])
                  + WrittenContent(m, position, e[3], e[2], i, size)])
    IN  SumFunction([k \in DOMAIN table |-> Field(table[k])]) + SizeOfUnknown(m)

Written(o) ==
    LET size[p \in Positions(o)] == WrittenFrom(PartAt(o, p), p, size)
    IN  size[<< >>]
-----------------------------------------------------------------------------
(* Reading.                                                                  *)

NoJump == ""

\* The cases that a field <<number, wire type, ...>> is read by: those of its
\* tag, or, if the parser has jumped on an expected tag, the one it jumped to.
CasesOf(type, token, jump) ==
    {c \in Class[type].Parse :
       IF jump = NoJump THEN c.number = token[1] /\ c.type = token[2]
       ELSE c.field = jump}

\* What a case expects if it is followed by a field.
ExpectedBy(case, token) ==
    {e \in case.expected : e[1] = Tag(token[1], token[2])}
-----------------------------------------------------------------------------
\* The size that is announced before a message is what is written of it: the
\* reader would otherwise end in the middle of a field.  (Of a message without
\* extensions, see Ql2Messages.)
SizesAgree == \A n \in Names : Is(n) => ByteSize(objs[n]) = Written(objs[n])
=============================================================================
