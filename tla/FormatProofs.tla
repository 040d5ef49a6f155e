---------------------------- MODULE FormatProofs ---------------------------
(* Proofs about what is written as bytes. About SerializablePool for any     *)
(* handles, values and numbers of fields: what its bytes contain, that saves *)
(* do not undo each other, and that a read-only pool stays as it is. About   *)
(* the messages of ql2, whatever is in them: what is counted is written, and *)
(* what is written is read into the same field.                              *)
EXTENDS SerializablePool, Ql2Fields, WellFoundedInduction, TLAPS
-----------------------------------------------------------------------------
(* The tables of the messages of ql2.                                        *)

\* The types of messages that have fields.
LEMMA TypesAre ==
    DOMAIN Class = {"Query_AssocPair", "Query", "Frame", "Backtrace",
                    "Response", "Datum_AssocPair", "Datum",
                    "Term_AssocPair", "Term"}
BY DEF Class

\* A tag that is below 128 takes one byte.
LEMMA SmallTag ==
    ASSUME NEW number \in 0 .. 15, NEW type \in 0 .. 7
    PROVE  SizeOfTag(number, type) = 1
BY DEF SizeOfTag, SizeOfVarint, Tag

\* How ByteSize counts a field is how it is written.
CountedAs(by, type, f, wiretype) ==
    \/ Kind(type, f) \in {"one", "many"} /\ by = MessageSize
    \/ Kind(type, f) = "text" /\ by = StringSize
    \/ /\ Kind(type, f) = "value" /\ wiretype = Varint
       /\ \/ Accessor(type, f).of = "bool" /\ by = BoolSize
          \/ Accessor(type, f).of # "bool" /\ by = VarintSize
    \/ Kind(type, f) = "value" /\ wiretype = Fixed64 /\ by = DoubleSize

\* ByteSize counts the fields that are written, in the same order, each as it
\* is written and with one byte for its tag.
CountsWritten(type) ==
    LET counted == Class[type].ByteSize
        written == Class[type].Serialize
    IN  /\ DOMAIN counted = DOMAIN written
        /\ \A k \in DOMAIN written :
              /\ counted[k][1] = written[k][3]
              /\ SizeOfTag(written[k][1], written[k][2]) = 1
              /\ CountedAs(counted[k][2], type, written[k][3], written[k][2])

\* A field that is written has one case, by its tag and by its name, and
\* wherever its tag is expected the parser jumps to that case.
ReadsWritten(type) ==
    LET written == Class[type].Serialize
        cases == Class[type].Parse
    IN  \A k \in DOMAIN written :
           \E c \in cases :
              /\ c.number = written[k][1] /\ c.type = written[k][2]
              /\ c.field = written[k][3]
              /\ \A d \in cases :
                    \/ d = c
                    \/ /\ d.number # c.number \/ d.type # c.type
                       /\ d.field # c.field
              /\ \A d \in cases : \A e \in d.expected :
                    e[1] = Tag(c.number, c.type) => e[2] = c.field

\* No field is left out by a method, or written twice, and no two fields that
\* have a bit of _has_bits_ have the same.
HandlesAll(type) ==
    LET fields == FieldsOf(type)
        counted == Class[type].ByteSize
        written == Class[type].Serialize
        clear == Class[type].Clear
        single == {f \in fields : Kind(type, f) # "many"}
    IN  /\ fields = {counted[k][1] : k \in DOMAIN counted}
        /\ fields = {written[k][3] : k \in DOMAIN written}
        /\ \A j, k \in DOMAIN written : written[j][3] = written[k][3] => j = k
        /\ fields = {c.field : c \in Class[type].Parse}
        /\ fields = (DOMAIN clear.to) \cup clear.present \cup clear.lists
        /\ fields = Class[type].MergeFrom
        /\ fields = Class[type].Swap
        /\ \A f, g \in single :
              Accessor(type, f).bit = Accessor(type, g).bit => f = g

LEMMA QueryAssocPairTables ==
    /\ CountsWritten("Query_AssocPair")
    /\ ReadsWritten("Query_AssocPair")
    /\ HandlesAll("Query_AssocPair")
<1>1. /\ Class["Query_AssocPair"].ByteSize = Query_AssocPair_ByteSize
      /\ Class["Query_AssocPair"].Serialize = Query_AssocPair_Serialize
      /\ Class["Query_AssocPair"].Parse = Query_AssocPair_Parse
      /\ Class["Query_AssocPair"].Accessors = Query_AssocPair_Accessors
      /\ Class["Query_AssocPair"].MergeFrom = Query_AssocPair_MergeFrom
      /\ Class["Query_AssocPair"].Swap = Query_AssocPair_Swap
      /\ Class["Query_AssocPair"].Clear = Query_AssocPair_Clear
  BY DEF Class, Message
<1>2. CountsWritten("Query_AssocPair")
  BY <1>1, SmallTag
  DEF CountsWritten, CountedAs, Accessor, Kind, Query_AssocPair_ByteSize,
      Query_AssocPair_Serialize, Query_AssocPair_Accessors, Value, Flag, Text,
      One, Many, Varint, Fixed64, Bytes, VarintSize, BoolSize, DoubleSize,
      StringSize, MessageSize
<1>3. ReadsWritten("Query_AssocPair")
  BY <1>1 DEF ReadsWritten, Query_AssocPair_Serialize, Query_AssocPair_Parse,
              Case, Tag, Varint, Fixed64, Bytes
<1>4. HandlesAll("Query_AssocPair")
  BY <1>1 DEF HandlesAll, FieldsOf, Kind, Accessor, Query_AssocPair_ByteSize,
              Query_AssocPair_Clear, Query_AssocPair_Accessors,
              Query_AssocPair_Serialize, Query_AssocPair_Parse,
              Query_AssocPair_MergeFrom, Query_AssocPair_Swap, Case, Value,
              Flag, Text, One, Many
<1> QED
  BY <1>2, <1>3, <1>4

LEMMA QueryTables ==
    /\ CountsWritten("Query")
    /\ ReadsWritten("Query")
    /\ HandlesAll("Query")
<1>1. /\ Class["Query"].ByteSize = Query_ByteSize
      /\ Class["Query"].Serialize = Query_Serialize
      /\ Class["Query"].Parse = Query_Parse
      /\ Class["Query"].Accessors = Query_Accessors
      /\ Class["Query"].MergeFrom = Query_MergeFrom
      /\ Class["Query"].Swap = Query_Swap
      /\ Class["Query"].Clear = Query_Clear
  BY DEF Class, Message
<1>2. CountsWritten("Query")
  BY <1>1, SmallTag
  DEF CountsWritten, CountedAs, Accessor, Kind, Query_ByteSize,
      Query_Serialize, Query_Accessors, Value, Flag, Text, One, Many, Varint,
      Fixed64, Bytes, VarintSize, BoolSize, DoubleSize, StringSize, MessageSize
<1>3. ReadsWritten("Query")
  BY <1>1 DEF ReadsWritten, Query_Serialize, Query_Parse, Case, Tag, Varint,
              Fixed64, Bytes
<1>4. HandlesAll("Query")
  BY <1>1 DEF HandlesAll, FieldsOf, Kind, Accessor, Query_ByteSize,
              Query_Clear, Query_Accessors, Query_Serialize, Query_Parse,
              Query_MergeFrom, Query_Swap, Case, Value, Flag, Text, One, Many
<1> QED
  BY <1>2, <1>3, <1>4

LEMMA FrameTables ==
    /\ CountsWritten("Frame")
    /\ ReadsWritten("Frame")
    /\ HandlesAll("Frame")
<1>1. /\ Class["Frame"].ByteSize = Frame_ByteSize
      /\ Class["Frame"].Serialize = Frame_Serialize
      /\ Class["Frame"].Parse = Frame_Parse
      /\ Class["Frame"].Accessors = Frame_Accessors
      /\ Class["Frame"].MergeFrom = Frame_MergeFrom
      /\ Class["Frame"].Swap = Frame_Swap
      /\ Class["Frame"].Clear = Frame_Clear
  BY DEF Class, Message
<1>2. CountsWritten("Frame")
  BY <1>1, SmallTag
  DEF CountsWritten, CountedAs, Accessor, Kind, Frame_ByteSize,
      Frame_Serialize, Frame_Accessors, Value, Flag, Text, One, Many, Varint,
      Fixed64, Bytes, VarintSize, BoolSize, DoubleSize, StringSize, MessageSize
<1>3. ReadsWritten("Frame")
  BY <1>1 DEF ReadsWritten, Frame_Serialize, Frame_Parse, Case, Tag, Varint,
              Fixed64, Bytes
<1>4. HandlesAll("Frame")
  BY <1>1 DEF HandlesAll, FieldsOf, Kind, Accessor, Frame_ByteSize,
              Frame_Clear, Frame_Accessors, Frame_Serialize, Frame_Parse,
              Frame_MergeFrom, Frame_Swap, Case, Value, Flag, Text, One, Many
<1> QED
  BY <1>2, <1>3, <1>4

LEMMA BacktraceTables ==
    /\ CountsWritten("Backtrace")
    /\ ReadsWritten("Backtrace")
    /\ HandlesAll("Backtrace")
<1>1. /\ Class["Backtrace"].ByteSize = Backtrace_ByteSize
      /\ Class["Backtrace"].Serialize = Backtrace_Serialize
      /\ Class["Backtrace"].Parse = Backtrace_Parse
      /\ Class["Backtrace"].Accessors = Backtrace_Accessors
      /\ Class["Backtrace"].MergeFrom = Backtrace_MergeFrom
      /\ Class["Backtrace"].Swap = Backtrace_Swap
      /\ Class["Backtrace"].Clear = Backtrace_Clear
  BY DEF Class, Message
<1>2. CountsWritten("Backtrace")
  BY <1>1, SmallTag
  DEF CountsWritten, CountedAs, Accessor, Kind, Backtrace_ByteSize,
      Backtrace_Serialize, Backtrace_Accessors, Value, Flag, Text, One, Many,
      Varint, Fixed64, Bytes, VarintSize, BoolSize, DoubleSize, StringSize,
      MessageSize
<1>3. ReadsWritten("Backtrace")
  BY <1>1 DEF ReadsWritten, Backtrace_Serialize, Backtrace_Parse, Case, Tag,
              Varint, Fixed64, Bytes
<1>4. HandlesAll("Backtrace")
  BY <1>1 DEF HandlesAll, FieldsOf, Kind, Accessor, Backtrace_ByteSize,
              Backtrace_Clear, Backtrace_Accessors, Backtrace_Serialize,
              Backtrace_Parse, Backtrace_MergeFrom, Backtrace_Swap, Case,
              Value, Flag, Text, One, Many
<1> QED
  BY <1>2, <1>3, <1>4

LEMMA ResponseTables ==
    /\ CountsWritten("Response")
    /\ ReadsWritten("Response")
    /\ HandlesAll("Response")
<1>1. /\ Class["Response"].ByteSize = Response_ByteSize
      /\ Class["Response"].Serialize = Response_Serialize
      /\ Class["Response"].Parse = Response_Parse
      /\ Class["Response"].Accessors = Response_Accessors
      /\ Class["Response"].MergeFrom = Response_MergeFrom
      /\ Class["Response"].Swap = Response_Swap
      /\ Class["Response"].Clear = Response_Clear
  BY DEF Class, Message
<1>2. CountsWritten("Response")
  BY <1>1, SmallTag
  DEF CountsWritten, CountedAs, Accessor, Kind, Response_ByteSize,
      Response_Serialize, Response_Accessors, Value, Flag, Text, One, Many,
      Varint, Fixed64, Bytes, VarintSize, BoolSize, DoubleSize, StringSize,
      MessageSize
<1>3. ReadsWritten("Response")
  BY <1>1 DEF ReadsWritten, Response_Serialize, Response_Parse, Case, Tag,
              Varint, Fixed64, Bytes
<1>4. HandlesAll("Response")
  BY <1>1 DEF HandlesAll, FieldsOf, Kind, Accessor, Response_ByteSize,
              Response_Clear, Response_Accessors, Response_Serialize,
              Response_Parse, Response_MergeFrom, Response_Swap, Case, Value,
              Flag, Text, One, Many
<1> QED
  BY <1>2, <1>3, <1>4

LEMMA DatumAssocPairTables ==
    /\ CountsWritten("Datum_AssocPair")
    /\ ReadsWritten("Datum_AssocPair")
    /\ HandlesAll("Datum_AssocPair")
<1>1. /\ Class["Datum_AssocPair"].ByteSize = Datum_AssocPair_ByteSize
      /\ Class["Datum_AssocPair"].Serialize = Datum_AssocPair_Serialize
      /\ Class["Datum_AssocPair"].Parse = Datum_AssocPair_Parse
      /\ Class["Datum_AssocPair"].Accessors = Datum_AssocPair_Accessors
      /\ Class["Datum_AssocPair"].MergeFrom = Datum_AssocPair_MergeFrom
      /\ Class["Datum_AssocPair"].Swap = Datum_AssocPair_Swap
      /\ Class["Datum_AssocPair"].Clear = Datum_AssocPair_Clear
  BY DEF Class, Message
<1>2. CountsWritten("Datum_AssocPair")
  BY <1>1, SmallTag
  DEF CountsWritten, CountedAs, Accessor, Kind, Datum_AssocPair_ByteSize,
      Datum_AssocPair_Serialize, Datum_AssocPair_Accessors, Value, Flag, Text,
      One, Many, Varint, Fixed64, Bytes, VarintSize, BoolSize, DoubleSize,
      StringSize, MessageSize
<1>3. ReadsWritten("Datum_AssocPair")
  BY <1>1 DEF ReadsWritten, Datum_AssocPair_Serialize, Datum_AssocPair_Parse,
              Case, Tag, Varint, Fixed64, Bytes
<1>4. HandlesAll("Datum_AssocPair")
  BY <1>1 DEF HandlesAll, FieldsOf, Kind, Accessor, Datum_AssocPair_ByteSize,
              Datum_AssocPair_Clear, Datum_AssocPair_Accessors,
              Datum_AssocPair_Serialize, Datum_AssocPair_Parse,
              Datum_AssocPair_MergeFrom, Datum_AssocPair_Swap, Case, Value,
              Flag, Text, One, Many
<1> QED
  BY <1>2, <1>3, <1>4

LEMMA DatumTables ==
    /\ CountsWritten("Datum")
    /\ ReadsWritten("Datum")
    /\ HandlesAll("Datum")
<1>1. /\ Class["Datum"].ByteSize = Datum_ByteSize
      /\ Class["Datum"].Serialize = Datum_Serialize
      /\ Class["Datum"].Parse = Datum_Parse
      /\ Class["Datum"].Accessors = Datum_Accessors
      /\ Class["Datum"].MergeFrom = Datum_MergeFrom
      /\ Class["Datum"].Swap = Datum_Swap
      /\ Class["Datum"].Clear = Datum_Clear
  BY DEF Class, Message
<1>2. CountsWritten("Datum")
  BY <1>1, SmallTag
  DEF CountsWritten, CountedAs, Accessor, Kind, Datum_ByteSize,
      Datum_Serialize, Datum_Accessors, Value, Flag, Text, One, Many, Varint,
      Fixed64, Bytes, VarintSize, BoolSize, DoubleSize, StringSize, MessageSize
<1>3. ReadsWritten("Datum")
  BY <1>1 DEF ReadsWritten, Datum_Serialize, Datum_Parse, Case, Tag, Varint,
              Fixed64, Bytes
<1>4. HandlesAll("Datum")
  BY <1>1 DEF HandlesAll, FieldsOf, Kind, Accessor, Datum_ByteSize,
              Datum_Clear, Datum_Accessors, Datum_Serialize, Datum_Parse,
              Datum_MergeFrom, Datum_Swap, Case, Value, Flag, Text, One, Many
<1> QED
  BY <1>2, <1>3, <1>4

LEMMA TermAssocPairTables ==
    /\ CountsWritten("Term_AssocPair")
    /\ ReadsWritten("Term_AssocPair")
    /\ HandlesAll("Term_AssocPair")
<1>1. /\ Class["Term_AssocPair"].ByteSize = Term_AssocPair_ByteSize
      /\ Class["Term_AssocPair"].Serialize = Term_AssocPair_Serialize
      /\ Class["Term_AssocPair"].Parse = Term_AssocPair_Parse
      /\ Class["Term_AssocPair"].Accessors = Term_AssocPair_Accessors
      /\ Class["Term_AssocPair"].MergeFrom = Term_AssocPair_MergeFrom
      /\ Class["Term_AssocPair"].Swap = Term_AssocPair_Swap
      /\ Class["Term_AssocPair"].Clear = Term_AssocPair_Clear
  BY DEF Class, Message
<1>2. CountsWritten("Term_AssocPair")
  BY <1>1, SmallTag
  DEF CountsWritten, CountedAs, Accessor, Kind, Term_AssocPair_ByteSize,
      Term_AssocPair_Serialize, Term_AssocPair_Accessors, Value, Flag, Text,
      One, Many, Varint, Fixed64, Bytes, VarintSize, BoolSize, DoubleSize,
      StringSize, MessageSize
<1>3. ReadsWritten("Term_AssocPair")
  BY <1>1 DEF ReadsWritten, Term_AssocPair_Serialize, Term_AssocPair_Parse,
              Case, Tag, Varint, Fixed64, Bytes
<1>4. HandlesAll("Term_AssocPair")
  BY <1>1 DEF HandlesAll, FieldsOf, Kind, Accessor, Term_AssocPair_ByteSize,
              Term_AssocPair_Clear, Term_AssocPair_Accessors,
              Term_AssocPair_Serialize, Term_AssocPair_Parse,
              Term_AssocPair_MergeFrom, Term_AssocPair_Swap, Case, Value, Flag,
              Text, One, Many
<1> QED
  BY <1>2, <1>3, <1>4

LEMMA TermTables ==
    /\ CountsWritten("Term")
    /\ ReadsWritten("Term")
    /\ HandlesAll("Term")
<1>1. /\ Class["Term"].ByteSize = Term_ByteSize
      /\ Class["Term"].Serialize = Term_Serialize
      /\ Class["Term"].Parse = Term_Parse
      /\ Class["Term"].Accessors = Term_Accessors
      /\ Class["Term"].MergeFrom = Term_MergeFrom
      /\ Class["Term"].Swap = Term_Swap
      /\ Class["Term"].Clear = Term_Clear
  BY DEF Class, Message
<1>2. CountsWritten("Term")
  BY <1>1, SmallTag
  DEF CountsWritten, CountedAs, Accessor, Kind, Term_ByteSize, Term_Serialize,
      Term_Accessors, Value, Flag, Text, One, Many, Varint, Fixed64, Bytes,
      VarintSize, BoolSize, DoubleSize, StringSize, MessageSize
<1>3. ReadsWritten("Term")
  BY <1>1 DEF ReadsWritten, Term_Serialize, Term_Parse, Case, Tag, Varint,
              Fixed64, Bytes
<1>4. HandlesAll("Term")
  BY <1>1 DEF HandlesAll, FieldsOf, Kind, Accessor, Term_ByteSize, Term_Clear,
              Term_Accessors, Term_Serialize, Term_Parse, Term_MergeFrom,
              Term_Swap, Case, Value, Flag, Text, One, Many
<1> QED
  BY <1>2, <1>3, <1>4
LEMMA TablesAgree ==
    ASSUME NEW type \in DOMAIN Class
    PROVE  CountsWritten(type) /\ ReadsWritten(type) /\ HandlesAll(type)
BY TypesAre, QueryAssocPairTables, QueryTables, FrameTables, BacktraceTables,
   ResponseTables, DatumAssocPairTables, DatumTables, TermAssocPairTables,
   TermTables
-----------------------------------------------------------------------------
(* The sizes of the messages of ql2.                                         *)

\* A content is counted as what is written of it.
LEMMA ContentSizesAgree ==
    ASSUME NEW m, NEW position, NEW f, NEW i, NEW size, NEW by, NEW wiretype,
           CountedAs(by, m.of, f, wiretype)
    PROVE  CountedContent(m, position, f, by, i, size) =
           WrittenContent(m, position, f, wiretype, i, size)
<1>1. SizeOfVarint(0) = 1 /\ SizeOfVarint(1) = 1
  BY DEF SizeOfVarint
<1> QED
  BY <1>1
  DEF CountedAs, CountedContent, WrittenContent, IsMessage, Kind, Varint,
      Fixed64, VarintSize, BoolSize, DoubleSize, StringSize, MessageSize

\* So is a message, when the messages in it are.
LEMMA SizesAgreeFrom ==
    ASSUME NEW m, m.of \in DOMAIN Class, NEW position, NEW size
    PROVE  CountedFrom(m, position, size) = WrittenFrom(m, position, size)
<1> DEFINE counted == Class[m.of].ByteSize
           written == Class[m.of].Serialize
           CountedField(e) ==
               SumFunction([i \in DOMAIN Contents(m, e[1]) |->
                   1 + CountedContent(m, position, e[1], e[2], i, size)])
           WrittenField(e) ==
               SumFunction([i \in DOMAIN Contents(m, e[3]) |->
                   SizeOfTag(e[1], e[2])
                     + WrittenContent(m, position, e[3], e[2], i, size)])
<1>1. /\ DOMAIN counted = DOMAIN written
      /\ \A k \in DOMAIN written :
            /\ counted[k][1] = written[k][3]
            /\ SizeOfTag(written[k][1], written[k][2]) = 1
            /\ CountedAs(counted[k][2], m.of, written[k][3], written[k][2])
  BY TablesAgree DEF CountsWritten
<1>2. ASSUME NEW k \in DOMAIN written
      PROVE  CountedField(counted[k]) = WrittenField(written[k])
  <2>1. \A i :
           CountedContent(m, position, written[k][3], counted[k][2], i, size)
           = WrittenContent(m, position, written[k][3], written[k][2], i, size)
    BY <1>1, ContentSizesAgree
  <2>2. [i \in DOMAIN Contents(m, counted[k][1]) |->
           1 + CountedContent(m, position, counted[k][1], counted[k][2], i,
                              size)]
        = [i \in DOMAIN Contents(m, written[k][3]) |->
             SizeOfTag(written[k][1], written[k][2])
               + WrittenContent(m, position, written[k][3], written[k][2], i,
                                size)]
    BY <1>1, <2>1
  <2> QED
    BY <2>2
<1> HIDE DEF CountedField, WrittenField
<1>3. [k \in DOMAIN counted |-> CountedField(counted[k])]
      = [k \in DOMAIN written |-> WrittenField(written[k])]
  BY <1>1, <1>2
<1>4. /\ CountedFrom(m, position, size) =
           SumFunction([k \in DOMAIN counted |-> CountedField(counted[k])])
             + SizeOfUnknown(m)
      /\ WrittenFrom(m, position, size) =
           SumFunction([k \in DOMAIN written |-> WrittenField(written[k])])
             + SizeOfUnknown(m)
  BY DEF CountedFrom, WrittenFrom, CountedField, WrittenField
<1> QED
  BY <1>3, <1>4

\* ByteSize is the size that SerializeWithCachedSizes writes, whatever is in
\* the message and however deep the messages in it are: the functions that
\* give the sizes at every position are defined by the same equation.
LEMMA SizesAgreeOf ==
    ASSUME NEW o
    PROVE  ByteSize(o) = Written(o)
<1> DEFINE Count(size) ==
               [p \in Positions(o) |-> CountedFrom(PartAt(o, p), p, size)]
           Write(size) ==
               [p \in Positions(o) |-> WrittenFrom(PartAt(o, p), p, size)]
<1>1. ASSUME NEW size PROVE Count(size) = Write(size)
  BY SizesAgreeFrom DEF Positions
<1>2. ByteSize(o) = (CHOOSE size : size = Count(size))[<< >>]
  BY DEF ByteSize
<1>3. Written(o) = (CHOOSE size : size = Write(size))[<< >>]
  BY DEF Written
<1>4. (CHOOSE size : size = Count(size)) = (CHOOSE size : size = Write(size))
  BY <1>1
<1> QED
  BY <1>2, <1>3, <1>4

\* The size that is announced before a message is what is written of it, for
\* any messages that the names hold without extensions, of which the repository
\* registers none: every field is counted as it is written.
THEOREM SizesAlwaysAgree == SizesAgree
BY SizesAgreeOf DEF SizesAgree

\* A field that was written is read by one case, that of the same field,
\* whichever field was read before it: also where its tag was expected and the
\* parser has jumped to a case without looking at the others.
THEOREM WrittenIsRead ==
    ASSUME NEW type \in DOMAIN Class,
           NEW k \in DOMAIN Class[type].Serialize,
           NEW before \in Class[type].Parse,
           NEW jump \in {NoJump} \cup
               {e[2] : e \in ExpectedBy(before, Class[type].Serialize[k])}
    PROVE  \E c \in Class[type].Parse :
              /\ c.field = Class[type].Serialize[k][3]
              /\ CasesOf(type, Class[type].Serialize[k], jump) = {c}
<1> DEFINE token == Class[type].Serialize[k]
           cases == Class[type].Parse
<1>1. PICK c \in cases :
         /\ c.number = token[1] /\ c.type = token[2] /\ c.field = token[3]
         /\ \A d \in cases :
               \/ d = c
               \/ /\ d.number # c.number \/ d.type # c.type
                  /\ d.field # c.field
         /\ \A d \in cases : \A e \in d.expected :
               e[1] = Tag(c.number, c.type) => e[2] = c.field
  BY TablesAgree DEF ReadsWritten
<1>2. jump = NoJump \/ jump = c.field
  BY <1>1 DEF ExpectedBy
<1>3. CasesOf(type, token, jump) = {c}
  BY <1>1, <1>2 DEF CasesOf
<1> QED
  BY <1>1, <1>3

\* No method leaves out a field of the protocol: each of them is counted, written
\* once, read, cleared, merged and swapped, and what is set of it has a bit of its
\* own.  Extensions are not fields of it; the repository registers none.
THEOREM FieldsAreHandled ==
    ASSUME NEW type \in DOMAIN Class
    PROVE  HandlesAll(type)
BY TablesAgree
-----------------------------------------------------------------------------
(* Induction: NaturalsInduction's theorems take an operator as a parameter.  *)

\* A set of numbers has a least one.
LEMMA LeastOfNat ==
    ASSUME NEW T, T \subseteq Nat, T # {}
    PROVE  \E x \in T : \A y \in T : x <= y
<1> DEFINE R == OpToRel(<, Nat)
<1>1. IsWellFoundedOn(R, Nat)
  BY NatLessThanWellFounded
<1>2. \A a, b \in Nat : <<a, b>> \in R <=> a < b
  BY DEF OpToRel
<1> HIDE DEF R
<1>3. PICK x \in T : \A y \in T : ~ (<<y, x>> \in R)
  BY <1>1, WFMin
<1>4. ASSUME NEW y \in T PROVE x <= y
  <2>1. x \in Nat /\ y \in Nat /\ ~ (y < x)
    BY <1>2, <1>3
  <2> QED
    BY <2>1
<1> QED
  BY <1>4

\* Induction, for the numbers of a set.
LEMMA InductionInSet ==
    ASSUME NEW T, 0 \in T, \A n \in Nat : n \in T => n + 1 \in T
    PROVE  Nat \subseteq T
<1> SUFFICES ASSUME NEW n \in Nat, n \notin T PROVE FALSE
  OBVIOUS
<1>1. PICK x \in Nat \ T : \A y \in Nat \ T : x <= y
  BY LeastOfNat
<1>2. x # 0 /\ x - 1 \in Nat
  BY <1>1
<1>3. x - 1 \in T
  BY <1>1, <1>2
<1> QED
  BY <1>2, <1>3

-----------------------------------------------------------------------------
(* Joined sequences.                                                         *)

\* The function that FlattenSeq makes.
JoinsFirst(q, m, g) == g = [i \in 1 .. m |-> IF i = 1 THEN q[i] ELSE g[i - 1] \o q[i]]
Joins(q, g) == JoinsFirst(q, Len(q), g)

LEMMA JoinsExists ==
    ASSUME NEW q \in Seq(Seq(Int))
    PROVE  \E g : Joins(q, g)
<1> DEFINE E(m) == \E g : JoinsFirst(q, m, g)
           T == {m \in Nat : E(m)}
<1>1. 0 \in T
  <2> DEFINE g == [i \in 1 .. 0 |-> q[i]]
  <2>1. JoinsFirst(q, 0, g)
    BY DEF JoinsFirst
  <2> HIDE DEF g
  <2> QED
    BY <2>1
<1>2. ASSUME NEW m \in Nat, m \in T PROVE m + 1 \in T
  <2>1. PICK g : JoinsFirst(q, m, g)
    BY <1>2
  <2> DEFINE h == [i \in 1 .. m + 1 |-> IF i <= m THEN g[i] ELSE IF i = 1 THEN q[i] ELSE g[i - 1] \o q[i]]
  <2>2. \A i \in 1 .. m + 1 : h[i] = IF i = 1 THEN q[i] ELSE h[i - 1] \o q[i]
    <3> SUFFICES ASSUME NEW i \in 1 .. m + 1 PROVE h[i] = IF i = 1 THEN q[i] ELSE h[i - 1] \o q[i]
      OBVIOUS
    <3>1. i # 1 => i - 1 \in 1 .. m + 1 /\ i - 1 <= m
      OBVIOUS
    <3>2. i # 1 => h[i - 1] = g[i - 1]
      BY <3>1
    <3>3. CASE i <= m
      <4>1. i \in 1 .. m
        BY <3>3
      <4>2. g[i] = IF i = 1 THEN q[i] ELSE g[i - 1] \o q[i]
        BY <2>1, <4>1 DEF JoinsFirst
      <4>3. h[i] = g[i]
        BY <3>3
      <4> HIDE DEF h
      <4> QED
        BY <3>2, <4>2, <4>3
    <3>4. CASE ~(i <= m)
      <4>1. h[i] = IF i = 1 THEN q[i] ELSE g[i - 1] \o q[i]
        BY <3>4
      <4> HIDE DEF h
      <4> QED
        BY <3>2, <4>1
    <3> QED
      BY <3>3, <3>4
  <2>3. h = [i \in 1 .. m + 1 |-> IF i = 1 THEN q[i] ELSE h[i - 1] \o q[i]]
    <3>1. h = [i \in 1 .. m + 1 |-> h[i]]
      OBVIOUS
    <3> HIDE DEF h
    <3> QED
      BY <2>2, <3>1
  <2> HIDE DEF h
  <2>4. JoinsFirst(q, m + 1, h)
    BY <2>3, Zenon DEF JoinsFirst
  <2>5. m + 1 \in Nat
    OBVIOUS
  <2> QED
    BY <2>4, <2>5
<1> HIDE DEF T
<1>3. Nat \subseteq T
  BY <1>1, <1>2, InductionInSet
<1>4. Len(q) \in T
  BY <1>3
<1> QED
  BY <1>4 DEF T, Joins

\* The first k of the sequences joined.
Joined(q, k) == FlattenSeq(SubSeq(q, 1, k))

LEMMA FirstIs ==
    ASSUME NEW q \in Seq(Seq(Int)), NEW k \in 0 .. Len(q)
    PROVE  /\ SubSeq(q, 1, k) \in Seq(Seq(Int)) /\ Len(SubSeq(q, 1, k)) = k
           /\ \A i \in 1 .. k : SubSeq(q, 1, k)[i] = q[i]
OBVIOUS

LEMMA FlattenIs ==
    ASSUME NEW q \in Seq(Seq(Int))
    PROVE  \E g : Joins(q, g) /\ FlattenSeq(q) = IF Len(q) = 0 THEN q ELSE g[Len(q)]
<1> DEFINE f == CHOOSE g : g = [i \in 1 .. Len(q) |-> IF i = 1 THEN q[i] ELSE g[i - 1] \o q[i]]
<1>1. Joins(q, f)
  BY JoinsExists DEF Joins, JoinsFirst
<1>2. FlattenSeq(q) = IF Len(q) = 0 THEN q ELSE f[Len(q)]
  BY DEF FlattenSeq
<1> HIDE DEF f
<1> QED
  BY <1>1, <1>2

\* One after the other.
LEMMA JoinedIs ==
    ASSUME NEW q \in Seq(Seq(Int))
    PROVE  /\ Joined(q, 0) = << >> /\ Joined(q, Len(q)) = FlattenSeq(q)
           /\ \A k \in 0 .. Len(q) - 1 : Joined(q, k + 1) = Joined(q, k) \o q[k + 1]
           /\ \A k \in 0 .. Len(q) : Joined(q, k) \in Seq(Int)
<1>1. PICK g : Joins(q, g)
  BY JoinsExists
<1>2. /\ Len(q) \in Nat /\ \A i \in 1 .. Len(q) : q[i] \in Seq(Int)
      /\ \A i \in 1 .. Len(q) : g[i] = IF i = 1 THEN q[i] ELSE g[i - 1] \o q[i]
  <2>1. Len(q) \in Nat /\ \A i \in 1 .. Len(q) : q[i] \in Seq(Int)
    OBVIOUS
  <2>2. g = [i \in 1 .. Len(q) |-> IF i = 1 THEN q[i] ELSE g[i - 1] \o q[i]]
    BY <1>1 DEF Joins, JoinsFirst
  <2>3. \A i \in 1 .. Len(q) : g[i] = IF i = 1 THEN q[i] ELSE g[i - 1] \o q[i]
    BY <2>2
  <2> QED
    BY <2>1, <2>3
<1>3. ASSUME NEW k \in 1 .. Len(q) PROVE Joined(q, k) = g[k]
  <2> DEFINE p == SubSeq(q, 1, k)
  <2>1. p \in Seq(Seq(Int)) /\ Len(p) = k /\ \A i \in 1 .. k : p[i] = q[i]
    BY <1>2, FirstIs
  <2> HIDE DEF p
  <2>2. PICK h : Joins(p, h) /\ FlattenSeq(p) = IF Len(p) = 0 THEN p ELSE h[Len(p)]
    BY <2>1, FlattenIs
  <2>3. \A i \in 1 .. k : h[i] = IF i = 1 THEN q[i] ELSE h[i - 1] \o q[i]
    <3>1. \A i \in 1 .. k : h[i] = IF i = 1 THEN p[i] ELSE h[i - 1] \o p[i]
      BY <2>1, <2>2 DEF Joins, JoinsFirst
    <3> QED
      BY <2>1, <3>1
  <2> DEFINE T == {i \in Nat : i \in 1 .. k => h[i] = g[i]}
  <2>4. 0 \in T
    OBVIOUS
  <2>5. ASSUME NEW i \in Nat, i \in T PROVE i + 1 \in T
    <3> SUFFICES ASSUME i + 1 \in 1 .. k PROVE h[i + 1] = g[i + 1]
      OBVIOUS
    <3>0. i + 1 \in 1 .. Len(q) /\ i + 1 - 1 = i
      BY <1>2
    <3>1. h[i + 1] = IF i + 1 = 1 THEN q[i + 1] ELSE h[i + 1 - 1] \o q[i + 1]
      BY <2>3
    <3>3. g[i + 1] = IF i + 1 = 1 THEN q[i + 1] ELSE g[i + 1 - 1] \o q[i + 1]
      BY <1>2, <3>0
    <3>2. i + 1 # 1 => i \in 1 .. k /\ i + 1 - 1 = i
      BY <3>0
    <3> QED
      BY <2>5, <3>1, <3>2, <3>3
  <2> HIDE DEF T
  <2>8. Nat \subseteq T
    BY <2>4, <2>5, InductionInSet
  <2>6. k \in T
    BY <1>2, <2>8
  <2>7. h[k] = g[k]
    BY <2>6 DEF T
  <2> QED
    BY <2>1, <2>2, <2>7 DEF Joined, p
<1>4. Joined(q, 0) = << >>
  <2>1. SubSeq(q, 1, 0) = << >>
    BY <1>2
  <2> QED
    BY <2>1 DEF Joined, FlattenSeq
<1>5. Joined(q, Len(q)) = FlattenSeq(q)
  <2>1. SubSeq(q, 1, Len(q)) = q
    BY <1>2
  <2> QED
    BY <2>1 DEF Joined
<1>6. ASSUME NEW k \in 0 .. Len(q) - 1 PROVE Joined(q, k + 1) = Joined(q, k) \o q[k + 1]
  <2>1. k + 1 \in 1 .. Len(q) /\ k + 1 - 1 = k /\ q[k + 1] \in Seq(Int)
    BY <1>2
  <2>2. Joined(q, k + 1) = IF k + 1 = 1 THEN q[k + 1] ELSE g[k] \o q[k + 1]
    BY <1>2, <1>3, <2>1
  <2>3. CASE k = 0
    <3>1. << >> \o q[1] = q[1]
      BY <2>1, <2>3
    <3> QED
      BY <1>4, <2>2, <2>3, <3>1
  <2>4. CASE k # 0
    <3>1. k \in 1 .. Len(q) /\ k + 1 # 1
      BY <1>2, <2>4
    <3>2. Joined(q, k) = g[k]
      BY <1>3, <3>1
    <3> QED
      BY <2>2, <3>1, <3>2
  <2> QED
    BY <2>3, <2>4
<1> DEFINE T == {k \in Nat : k \in 0 .. Len(q) => Joined(q, k) \in Seq(Int)}
<1>7. 0 \in T
  <2>1. << >> \in Seq(Int)
    OBVIOUS
  <2> QED
    BY <1>4, <2>1
<1>8. ASSUME NEW k \in Nat, k \in T PROVE k + 1 \in T
  <2> SUFFICES ASSUME k + 1 \in 0 .. Len(q) PROVE Joined(q, k + 1) \in Seq(Int)
    OBVIOUS
  <2>1. k \in 0 .. Len(q) - 1 /\ k \in 0 .. Len(q) /\ q[k + 1] \in Seq(Int)
    BY <1>2
  <2>2. Joined(q, k) \in Seq(Int)
    BY <1>8, <2>1
  <2>3. Joined(q, k) \o q[k + 1] \in Seq(Int)
    BY <2>1, <2>2
  <2> QED
    BY <1>6, <2>1, <2>3
<1> HIDE DEF T
<1>9. Nat \subseteq T
  BY <1>7, <1>8, InductionInSet
<1>10. \A k \in 0 .. Len(q) : Joined(q, k) \in Seq(Int)
  BY <1>2, <1>9 DEF T
<1> QED
  BY <1>4, <1>5, <1>6, <1>10

LEMMA ConcatIs ==
    ASSUME NEW a \in Seq(Int), NEW b \in Seq(Int)
    PROVE  /\ a \o b \in Seq(Int) /\ Len(a) \in Nat /\ Len(b) \in Nat
           /\ Len(a \o b) = Len(a) + Len(b)
           /\ \A i \in 1 .. Len(a) : (a \o b)[i] = a[i]
           /\ \A i \in 1 .. Len(b) : (a \o b)[Len(a) + i] = b[i]
<1>1. a \o b \in Seq(Int) /\ Len(a) \in Nat /\ Len(b) \in Nat
  OBVIOUS
<1>2. Len(a \o b) = Len(a) + Len(b)
  OBVIOUS
<1>3. ASSUME NEW i \in 1 .. Len(a) PROVE (a \o b)[i] = a[i]
  OBVIOUS
<1>4. ASSUME NEW i \in 1 .. Len(b) PROVE (a \o b)[Len(a) + i] = b[i]
  <2>1. Len(a) + i \in 1 .. Len(a) + Len(b) /\ ~(Len(a) + i <= Len(a)) /\ Len(a) + i - Len(a) = i
    BY <1>1
  <2> QED
    BY <1>1, <2>1
<1> QED
  BY <1>1, <1>2, <1>3, <1>4

\* Where the sequences are in what they are joined to.
LEMMA PartsAre ==
    ASSUME NEW q \in Seq(Seq(Int))
    PROVE  /\ Len(Joined(q, 0)) = 0
           /\ \A j \in 0 .. Len(q) - 1 : Len(Joined(q, j + 1)) = Len(Joined(q, j)) + Len(q[j + 1])
           /\ \A k \in 0 .. Len(q) : \A j \in 0 .. Len(q) - 1 : j < k =>
                 /\ Len(Joined(q, j + 1)) <= Len(Joined(q, k))
                 /\ \A i \in 1 .. Len(q[j + 1]) :
                       Joined(q, k)[Len(Joined(q, j)) + i] = q[j + 1][i]
<1>1. /\ Joined(q, 0) = << >> /\ Len(q) \in Nat
      /\ \A k \in 0 .. Len(q) - 1 : Joined(q, k + 1) = Joined(q, k) \o q[k + 1]
      /\ \A k \in 0 .. Len(q) : Joined(q, k) \in Seq(Int)
  BY JoinedIs
<1>2. \A k \in 0 .. Len(q) - 1 : q[k + 1] \in Seq(Int)
  OBVIOUS
<1>3. \A k \in 0 .. Len(q) : Len(Joined(q, k)) \in Nat
  BY <1>1
<1>4. ASSUME NEW k \in 0 .. Len(q) - 1
      PROVE  /\ Len(Joined(q, k + 1)) = Len(Joined(q, k)) + Len(q[k + 1])
             /\ Len(q[k + 1]) \in Nat /\ Len(Joined(q, k)) \in Nat
             /\ \A i \in 1 .. Len(Joined(q, k)) : Joined(q, k + 1)[i] = Joined(q, k)[i]
             /\ \A i \in 1 .. Len(q[k + 1]) :
                   Joined(q, k + 1)[Len(Joined(q, k)) + i] = q[k + 1][i]
  <2> DEFINE a == Joined(q, k)
             b == q[k + 1]
  <2>1. a \in Seq(Int) /\ b \in Seq(Int) /\ Joined(q, k + 1) = a \o b
    <3>1. k \in 0 .. Len(q)
      BY <1>1
    <3> QED
      BY <1>1, <1>2, <3>1
  <2> HIDE DEF a, b
  <2>2. /\ Len(a \o b) = Len(a) + Len(b) /\ Len(a) \in Nat /\ Len(b) \in Nat
        /\ \A i \in 1 .. Len(a) : (a \o b)[i] = a[i]
        /\ \A i \in 1 .. Len(b) : (a \o b)[Len(a) + i] = b[i]
    BY <2>1, ConcatIs
  <2> QED
    BY <2>1, <2>2 DEF a, b
<1> DEFINE P(k) == \A j \in 0 .. Len(q) - 1 : j < k =>
                 /\ Len(Joined(q, j + 1)) <= Len(Joined(q, k))
                 /\ \A i \in 1 .. Len(q[j + 1]) :
                       Joined(q, k)[Len(Joined(q, j)) + i] = q[j + 1][i]
           T == {k \in Nat : k \in 0 .. Len(q) => P(k)}
<1>5. 0 \in T
  OBVIOUS
<1>6. ASSUME NEW k \in Nat, k \in T PROVE k + 1 \in T
  <2> SUFFICES ASSUME k + 1 \in 0 .. Len(q), NEW j \in 0 .. Len(q) - 1, j < k + 1
               PROVE  /\ Len(Joined(q, j + 1)) <= Len(Joined(q, k + 1))
                      /\ \A i \in 1 .. Len(q[j + 1]) :
                            Joined(q, k + 1)[Len(Joined(q, j)) + i] = q[j + 1][i]
    OBVIOUS
  <2>1. k \in 0 .. Len(q) - 1 /\ k \in 0 .. Len(q)
    BY <1>1
  <2>2. CASE j = k
    BY <1>3, <1>4, <2>1, <2>2
  <2>3. CASE j # k
    <3>1. j < k
      BY <2>3
    <3>2. /\ Len(Joined(q, j + 1)) <= Len(Joined(q, k))
          /\ \A i \in 1 .. Len(q[j + 1]) : Joined(q, k)[Len(Joined(q, j)) + i] = q[j + 1][i]
      BY <1>6, <2>1, <3>1
    <3>3. ASSUME NEW i \in 1 .. Len(q[j + 1])
          PROVE  Len(Joined(q, j)) + i \in 1 .. Len(Joined(q, k))
      <4>1. /\ Len(Joined(q, j + 1)) = Len(Joined(q, j)) + Len(q[j + 1])
            /\ Len(q[j + 1]) \in Nat /\ Len(Joined(q, j)) \in Nat /\ Len(Joined(q, k)) \in Nat
        BY <1>3, <1>4, <2>1
      <4>2. Len(Joined(q, j)) + Len(q[j + 1]) <= Len(Joined(q, k))
        BY <3>2, <4>1
      <4> QED
        BY <4>1, <4>2
    <3>4. /\ Len(Joined(q, k + 1)) = Len(Joined(q, k)) + Len(q[k + 1])
          /\ Len(q[k + 1]) \in Nat /\ Len(Joined(q, k)) \in Nat
          /\ \A i \in 1 .. Len(Joined(q, k)) : Joined(q, k + 1)[i] = Joined(q, k)[i]
      BY <1>4, <2>1
    <3>5. Len(Joined(q, j + 1)) \in Nat
      BY <1>1, <1>3
    <3>6. Len(Joined(q, j + 1)) <= Len(Joined(q, k + 1))
      BY <3>2, <3>4, <3>5
    <3> QED
      BY <3>2, <3>3, <3>4, <3>6
  <2> QED
    BY <2>2, <2>3
<1> HIDE DEF T
<1>7. Nat \subseteq T
  BY <1>5, <1>6, InductionInSet
<1>8. \A k \in 0 .. Len(q) : P(k)
  BY <1>1, <1>7 DEF T
<1>9. Len(Joined(q, 0)) = 0
  BY <1>1
<1> HIDE DEF P
<1> QED
  BY <1>4, <1>8, <1>9 DEF P
-----------------------------------------------------------------------------
(* The bytes of fields.                                                      *)

Strings == Seq(Int)
Terminated(s) == [k \in 1 .. Len(s) |-> Append(s[k], 0)]
StartOf(s, k) == 4 + Len(s) * 4 + Len(Joined(Terminated(s), k))
Offsets(s) == [k \in 1 .. Len(s) |-> Word(StartOf(s, k - 1))]
Packed(s) == Word(4 + Len(s) * 4) \o FlattenSeq(Offsets(s)) \o FlattenSeq(Terminated(s))

LEMMA TerminatedIs ==
    ASSUME NEW s \in Seq(Strings)
    PROVE  LET t == Terminated(s)
           IN  /\ t \in Seq(Seq(Int)) /\ Len(t) = Len(s) /\ Len(s) \in Nat
               /\ \A k \in 1 .. Len(s) :
                     /\ t[k] = Append(s[k], 0) /\ Len(t[k]) = Len(s[k]) + 1 /\ Len(s[k]) \in Nat
                     /\ \A i \in 1 .. Len(s[k]) : t[k][i] = s[k][i]
                     /\ t[k][Len(s[k]) + 1] = 0
<1> DEFINE t == Terminated(s)
<1>1. Len(s) \in Nat /\ \A k \in 1 .. Len(s) : s[k] \in Seq(Int)
  BY DEF Strings
<1>2. \A x \in Seq(Int) : Append(x, 0) \in Seq(Int)
  OBVIOUS
<1>3. t \in [1 .. Len(s) -> Seq(Int)]
  BY <1>1, <1>2 DEF Terminated
<1>4. t \in Seq(Seq(Int)) /\ Len(t) = Len(s)
  BY <1>1, <1>3
<1>5. ASSUME NEW k \in 1 .. Len(s)
      PROVE  /\ t[k] = Append(s[k], 0) /\ Len(t[k]) = Len(s[k]) + 1 /\ Len(s[k]) \in Nat
             /\ \A i \in 1 .. Len(s[k]) : t[k][i] = s[k][i]
             /\ t[k][Len(s[k]) + 1] = 0
  <2>1. t[k] = Append(s[k], 0) /\ s[k] \in Seq(Int)
    BY <1>1 DEF Terminated
  <2> HIDE DEF t
  <2> QED
    BY <2>1
<1> HIDE DEF t
<1> QED
  BY <1>1, <1>4, <1>5 DEF t

\* Words are of four cells.
LEMMA WordsAre ==
    ASSUME NEW q \in Seq(Seq(Int)), \A k \in 1 .. Len(q) : Len(q[k]) = 4
    PROVE  \A k \in 0 .. Len(q) : Len(Joined(q, k)) = 4 * k
<1> DEFINE T == {k \in Nat : k \in 0 .. Len(q) => Len(Joined(q, k)) = 4 * k}
<1>1. Len(q) \in Nat
  OBVIOUS
<1>2. 0 \in T
  BY PartsAre
<1>3. ASSUME NEW k \in Nat, k \in T PROVE k + 1 \in T
  <2> SUFFICES ASSUME k + 1 \in 0 .. Len(q) PROVE Len(Joined(q, k + 1)) = 4 * (k + 1)
    OBVIOUS
  <2>1. k \in 0 .. Len(q) - 1 /\ k \in 0 .. Len(q) /\ k + 1 \in 1 .. Len(q)
    BY <1>1
  <2>2. Len(Joined(q, k)) = 4 * k /\ Len(q[k + 1]) = 4
    BY <1>3, <2>1
  <2>3. Len(Joined(q, k + 1)) = Len(Joined(q, k)) + Len(q[k + 1])
    BY <2>1, PartsAre
  <2> QED
    BY <2>2, <2>3
<1> HIDE DEF T
<1>4. Nat \subseteq T
  BY <1>2, <1>3, InductionInSet
<1> QED
  BY <1>1, <1>4 DEF T

LEMMA StartIs ==
    ASSUME NEW s \in Seq(Strings)
    PROVE  /\ StartOf(s, 0) = 4 + Len(s) * 4
           /\ \A k \in 0 .. Len(s) : StartOf(s, k) \in Nat
           /\ \A k \in 0 .. Len(s) - 1 : StartOf(s, k + 1) = StartOf(s, k) + Len(s[k + 1]) + 1
           /\ StartOf(s, Len(s)) = 4 + Len(s) * 4 + Len(FlattenSeq(Terminated(s)))
<1> DEFINE t == Terminated(s)
<1>1. t \in Seq(Seq(Int)) /\ Len(t) = Len(s) /\ Len(s) \in Nat
      /\ \A k \in 1 .. Len(s) : Len(t[k]) = Len(s[k]) + 1 /\ Len(s[k]) \in Nat
  BY TerminatedIs
<1> HIDE DEF t
<1>2. /\ Len(Joined(t, 0)) = 0 /\ Joined(t, Len(t)) = FlattenSeq(t)
      /\ \A j \in 0 .. Len(t) - 1 : Len(Joined(t, j + 1)) = Len(Joined(t, j)) + Len(t[j + 1])
      /\ \A j \in 0 .. Len(t) : Joined(t, j) \in Seq(Int)
  BY <1>1, JoinedIs, PartsAre
<1>3. \A j \in 0 .. Len(s) : Len(Joined(t, j)) \in Nat
  BY <1>1, <1>2
<1> DEFINE base == 4 + Len(s) * 4
<1>4. base \in Nat /\ \A k : StartOf(s, k) = base + Len(Joined(t, k))
  BY <1>1 DEF StartOf, t
<1> HIDE DEF base
<1>5. \A k \in 0 .. Len(s) : StartOf(s, k) \in Nat
  BY <1>1, <1>3, <1>4
<1>6. ASSUME NEW k \in 0 .. Len(s) - 1
      PROVE  StartOf(s, k + 1) = StartOf(s, k) + Len(s[k + 1]) + 1
  <2>1. k + 1 \in 1 .. Len(s) /\ k \in 0 .. Len(s)
    BY <1>1
  <2>2. Len(Joined(t, k + 1)) = Len(Joined(t, k)) + Len(t[k + 1])
    BY <1>1, <1>2
  <2>3. Len(t[k + 1]) = Len(s[k + 1]) + 1 /\ Len(s[k + 1]) \in Nat /\ Len(Joined(t, k)) \in Nat
    BY <1>1, <1>3, <2>1
  <2>4. /\ StartOf(s, k + 1) = base + Len(Joined(t, k + 1))
        /\ StartOf(s, k) = base + Len(Joined(t, k))
    BY <1>4
  <2> DEFINE a == StartOf(s, k + 1)
             b == StartOf(s, k)
             c == Len(Joined(t, k + 1))
             d == Len(Joined(t, k))
             l == Len(s[k + 1])
  <2>5. a = base + c /\ b = base + d /\ c = d + (l + 1) /\ base \in Nat /\ d \in Nat /\ l \in Nat
    BY <1>4, <2>2, <2>3, <2>4
  <2> HIDE DEF a, b, c, d, l
  <2>6. a = b + l + 1
    BY <2>5
  <2> QED
    BY <2>6 DEF a, b, l
<1>7. StartOf(s, Len(s)) = base + Len(FlattenSeq(t))
  <2>1. Joined(t, Len(s)) = FlattenSeq(t)
    BY <1>1, <1>2
  <2>2. StartOf(s, Len(s)) = base + Len(Joined(t, Len(s)))
    BY <1>4
  <2> QED
    BY <2>1, <2>2
<1>8. StartOf(s, 0) = base
  <2>1. StartOf(s, 0) = base + Len(Joined(t, 0)) /\ Len(Joined(t, 0)) = 0
    BY <1>2, <1>4
  <2>2. base + 0 = base
    BY <1>4
  <2> QED
    BY <2>1, <2>2
<1> QED
  BY <1>5, <1>6, <1>7, <1>8 DEF t, base

LEMMA WordIs ==
    ASSUME NEW x \in Int
    PROVE  Word(x) \in Seq(Int) /\ Len(Word(x)) = 4 /\ Word(x)[1] = x
BY PoolAssumption DEF Word

LEMMA OffsetsAre ==
    ASSUME NEW s \in Seq(Strings)
    PROVE  LET o == Offsets(s)
           IN  /\ FlattenSeq(o) \in Seq(Int) /\ Len(FlattenSeq(o)) = 4 * Len(s)
               /\ \A k \in 0 .. Len(s) - 1 : FlattenSeq(o)[4 * k + 1] = StartOf(s, k)
<1> DEFINE o == Offsets(s)
<1>1. Len(s) \in Nat /\ \A k \in 0 .. Len(s) : StartOf(s, k) \in Nat
  BY StartIs
<1>2. ASSUME NEW k \in 1 .. Len(s)
      PROVE  o[k] \in Seq(Int) /\ Len(o[k]) = 4 /\ o[k][1] = StartOf(s, k - 1)
  <2>1. StartOf(s, k - 1) \in Int
    BY <1>1
  <2>2. o[k] = Word(StartOf(s, k - 1))
    BY DEF Offsets
  <2> HIDE DEF o
  <2> QED
    BY <2>1, <2>2, WordIs
<1>3. o \in Seq(Seq(Int)) /\ Len(o) = Len(s)
  <2>1. o = [k \in 1 .. Len(s) |-> o[k]]
    BY DEF Offsets
  <2> HIDE DEF o
  <2>2. o \in [1 .. Len(s) -> Seq(Int)]
    BY <1>2, <2>1
  <2> QED
    BY <1>1, <2>2
<1> HIDE DEF o
<1>4. \A k \in 0 .. Len(o) : Len(Joined(o, k)) = 4 * k
  BY <1>2, <1>3, WordsAre
<1>5. Joined(o, Len(o)) = FlattenSeq(o) /\ Joined(o, Len(o)) \in Seq(Int)
  <2>1. Len(o) \in 0 .. Len(o)
    BY <1>1, <1>3
  <2> QED
    BY <1>3, <2>1, JoinedIs
<1>6. Len(FlattenSeq(o)) = 4 * Len(s)
  <2>1. Len(o) \in 0 .. Len(o)
    BY <1>1, <1>3
  <2> QED
    BY <1>3, <1>4, <1>5, <2>1
<1>7. ASSUME NEW k \in 0 .. Len(s) - 1 PROVE FlattenSeq(o)[4 * k + 1] = StartOf(s, k)
  <2>1. /\ Len(o) \in 0 .. Len(o) /\ k \in 0 .. Len(o) - 1 /\ k < Len(o) /\ k + 1 \in 1 .. Len(s)
        /\ k + 1 - 1 = k /\ k \in 0 .. Len(o)
    BY <1>1, <1>3
  <2>2. Len(o[k + 1]) = 4 /\ o[k + 1][1] = StartOf(s, k)
    BY <1>2, <2>1
  <2>3. \A i \in 1 .. Len(o[k + 1]) : Joined(o, Len(o))[Len(Joined(o, k)) + i] = o[k + 1][i]
    BY <1>3, <2>1, PartsAre
  <2>4. Joined(o, Len(o))[Len(Joined(o, k)) + 1] = o[k + 1][1]
    BY <2>2, <2>3
  <2>5. Len(Joined(o, k)) = 4 * k
    BY <1>4, <2>1
  <2> QED
    BY <1>5, <2>2, <2>4, <2>5
<1> QED
  BY <1>5, <1>6, <1>7 DEF o

LEMMA PackedIs ==
    ASSUME NEW s \in Seq(Strings)
    PROVE  LET p == Packed(s)
           IN  /\ p \in Seq(Int) /\ Len(p) = StartOf(s, Len(s)) /\ p[1] = 4 + Len(s) * 4
               /\ \A k \in 0 .. Len(s) - 1 : p[4 + k * 4 + 1] = StartOf(s, k)
               /\ \A k \in 0 .. Len(s) - 1 : \A i \in 1 .. Len(s[k + 1]) :
                     p[StartOf(s, k) + i] = s[k + 1][i]
               /\ \A k \in 0 .. Len(s) - 1 : p[StartOf(s, k + 1)] = 0
<1> DEFINE n == Len(s)
           w == Word(4 + n * 4)
           h == FlattenSeq(Offsets(s))
           t == Terminated(s)
           b == FlattenSeq(t)
           wh == w \o h
           p == Packed(s)
<1>1. n \in Nat
  OBVIOUS
<1>2. w \in Seq(Int) /\ Len(w) = 4 /\ w[1] = 4 + n * 4
  <2>1. 4 + n * 4 \in Int
    BY <1>1
  <2> QED
    BY <2>1, WordIs
<1>3. h \in Seq(Int) /\ Len(h) = 4 * n /\ \A k \in 0 .. n - 1 : h[4 * k + 1] = StartOf(s, k)
  BY OffsetsAre
<1>4. /\ t \in Seq(Seq(Int)) /\ Len(t) = n
      /\ \A k \in 1 .. n : /\ Len(t[k]) = Len(s[k]) + 1 /\ Len(s[k]) \in Nat
                           /\ \A i \in 1 .. Len(s[k]) : t[k][i] = s[k][i]
                           /\ t[k][Len(s[k]) + 1] = 0
  BY TerminatedIs
<1>5. /\ StartOf(s, n) = 4 + n * 4 + Len(b)
      /\ \A k \in 0 .. n : StartOf(s, k) \in Nat /\ StartOf(s, k) = 4 + n * 4 + Len(Joined(t, k))
      /\ \A k \in 0 .. n - 1 : StartOf(s, k + 1) = StartOf(s, k) + Len(s[k + 1]) + 1
  BY StartIs DEF StartOf
<1>6. p = wh \o b
  BY DEF Packed
<1> HIDE DEF w, h, t, p
<1>7. b \in Seq(Int) /\ b = Joined(t, n) /\ \A k \in 0 .. n : Len(Joined(t, k)) \in Nat
  <2>1. \A k \in 0 .. n : Joined(t, k) \in Seq(Int)
    BY <1>4, JoinedIs
  <2>2. b = Joined(t, n) /\ n \in 0 .. n
    BY <1>1, <1>4, JoinedIs
  <2> HIDE DEF b
  <2> QED
    BY <2>1, <2>2
<1> HIDE DEF b
<1>8. /\ wh \in Seq(Int) /\ Len(wh) = 4 + 4 * n
      /\ \A i \in 1 .. 4 : wh[i] = w[i]
      /\ \A i \in 1 .. 4 * n : wh[4 + i] = h[i]
  <2>1. /\ wh \in Seq(Int) /\ Len(wh) = Len(w) + Len(h)
        /\ \A i \in 1 .. Len(w) : wh[i] = w[i]
        /\ \A i \in 1 .. Len(h) : wh[Len(w) + i] = h[i]
    BY <1>2, <1>3, ConcatIs
  <2> HIDE DEF wh
  <2> QED
    BY <1>2, <1>3, <2>1
<1> HIDE DEF wh
<1>9. /\ p \in Seq(Int) /\ Len(p) = Len(wh) + Len(b)
      /\ \A i \in 1 .. Len(wh) : p[i] = wh[i]
      /\ \A i \in 1 .. Len(b) : p[Len(wh) + i] = b[i]
      /\ Len(b) \in Nat
  BY <1>6, <1>7, <1>8, ConcatIs
<1>10. Len(p) = StartOf(s, n) /\ p[1] = 4 + n * 4
  <2>1. 1 \in 1 .. 4 /\ 1 \in 1 .. Len(wh)
    BY <1>1, <1>8
  <2>2. p[1] = wh[1] /\ wh[1] = w[1]
    BY <1>8, <1>9, <2>1
  <2>3. Len(p) = 4 + 4 * n + Len(b)
    BY <1>8, <1>9
  <2>4. 4 * n = n * 4
    BY <1>1
  <2> QED
    BY <1>2, <1>5, <2>2, <2>3, <2>4
<1>11. ASSUME NEW k \in 0 .. n - 1 PROVE p[4 + k * 4 + 1] = StartOf(s, k)
  <2>1. 4 * k + 1 \in 1 .. 4 * n /\ 4 + (4 * k + 1) \in 1 .. 4 + 4 * n
        /\ 4 + k * 4 + 1 = 4 + (4 * k + 1)
    BY <1>1
  <2>2. p[4 + (4 * k + 1)] = wh[4 + (4 * k + 1)]
    BY <1>8, <1>9, <2>1
  <2>3. wh[4 + (4 * k + 1)] = h[4 * k + 1]
    BY <1>8, <2>1
  <2> QED
    BY <1>3, <2>1, <2>2, <2>3
<1>12. ASSUME NEW k \in 0 .. n - 1, NEW i \in 1 .. Len(s[k + 1]) + 1
       PROVE  p[StartOf(s, k) + i] = t[k + 1][i]
  <2>1. /\ n \in 0 .. n /\ k \in 0 .. n /\ k < n /\ k + 1 \in 1 .. n /\ k + 1 \in 0 .. n
    BY <1>1
  <2>2. /\ Len(Joined(t, k + 1)) <= Len(b) /\ b[Len(Joined(t, k)) + i] = t[k + 1][i]
        /\ Len(Joined(t, k + 1)) = Len(Joined(t, k)) + Len(t[k + 1])
    <3>1. /\ k \in 0 .. Len(t) - 1 /\ n \in 0 .. Len(t) /\ i \in 1 .. Len(t[k + 1])
      BY <1>4, <2>1
    <3>2. Len(Joined(t, k + 1)) = Len(Joined(t, k)) + Len(t[k + 1])
      BY <1>4, <3>1, PartsAre
    <3>3. /\ Len(Joined(t, k + 1)) <= Len(Joined(t, n))
          /\ Joined(t, n)[Len(Joined(t, k)) + i] = t[k + 1][i]
      BY <1>4, <2>1, <3>1, PartsAre
    <3> QED
      BY <1>7, <3>2, <3>3
  <2> DEFINE l == Len(Joined(t, k))
  <2>3. Len(t[k + 1]) = Len(s[k + 1]) + 1 /\ Len(s[k + 1]) \in Nat /\ l \in Nat
        /\ StartOf(s, k) = 4 + n * 4 + l
    BY <1>4, <1>5, <1>7, <2>1
  <2> HIDE DEF l
  <2>4. l + i \in 1 .. Len(b)
    <3>1. l + (Len(s[k + 1]) + 1) <= Len(b)
      BY <2>2, <2>3 DEF l
    <3> QED
      BY <1>9, <2>3, <3>1
  <2>5. p[Len(wh) + (l + i)] = b[l + i]
    BY <1>9, <2>4
  <2>6. Len(wh) + (l + i) = StartOf(s, k) + i
    BY <1>1, <1>8, <2>3
  <2> QED
    BY <2>2, <2>5, <2>6 DEF l
<1>13. ASSUME NEW k \in 0 .. n - 1, NEW i \in 1 .. Len(s[k + 1])
       PROVE  p[StartOf(s, k) + i] = s[k + 1][i]
  <2>1. k + 1 \in 1 .. n
    BY <1>1
  <2>2. i \in 1 .. Len(s[k + 1]) + 1 /\ t[k + 1][i] = s[k + 1][i]
    <3>1. Len(s[k + 1]) \in Nat /\ \A j \in 1 .. Len(s[k + 1]) : t[k + 1][j] = s[k + 1][j]
      BY <1>4, <2>1
    <3> QED
      BY <3>1
  <2> QED
    BY <1>12, <2>2
<1>14. ASSUME NEW k \in 0 .. n - 1 PROVE p[StartOf(s, k + 1)] = 0
  <2> DEFINE l == Len(s[k + 1])
  <2>1. k + 1 \in 1 .. n /\ k \in 0 .. n
    BY <1>1
  <2>2. l \in Nat /\ t[k + 1][l + 1] = 0 /\ StartOf(s, k + 1) = StartOf(s, k) + l + 1
        /\ StartOf(s, k) \in Nat
    BY <1>4, <1>5, <2>1
  <2> HIDE DEF l
  <2>3. l + 1 \in 1 .. l + 1 /\ StartOf(s, k + 1) = StartOf(s, k) + (l + 1)
    BY <2>2
  <2>4. p[StartOf(s, k) + (l + 1)] = t[k + 1][l + 1]
    BY <1>12, <2>3 DEF l
  <2> QED
    BY <2>2, <2>3, <2>4
<1> QED
  BY <1>9, <1>10, <1>11, <1>13, <1>14 DEF p

\* A field starts after the ones before it.
LEMMA StartsGrow ==
    ASSUME NEW s \in Seq(Strings), NEW k \in 0 .. Len(s), NEW j \in 0 .. Len(s), j <= k
    PROVE  StartOf(s, j) <= StartOf(s, k)
<1> DEFINE n == Len(s)
           T == {m \in Nat : m \in j .. n => StartOf(s, j) <= StartOf(s, m)}
<1>1. n \in Nat /\ \A m \in 1 .. n : Len(s[m]) \in Nat
  BY DEF Strings
<1>2. /\ \A m \in 0 .. n : StartOf(s, m) \in Nat
      /\ \A m \in 0 .. n - 1 : StartOf(s, m + 1) = StartOf(s, m) + Len(s[m + 1]) + 1
  BY StartIs
<1>3. 0 \in T
  BY <1>1, <1>2
<1>4. ASSUME NEW m \in Nat, m \in T PROVE m + 1 \in T
  <2> SUFFICES ASSUME m + 1 \in j .. n PROVE StartOf(s, j) <= StartOf(s, m + 1)
    OBVIOUS
  <2>1. CASE j = m + 1
    BY <1>2, <2>1
  <2>2. CASE j # m + 1
    <3>1. m \in j .. n /\ m \in 0 .. n - 1 /\ m \in 0 .. n /\ m + 1 \in 1 .. n
      BY <1>1, <2>2
    <3>2. StartOf(s, j) <= StartOf(s, m)
      BY <1>4, <3>1
    <3>3. Len(s[m + 1]) \in Nat /\ StartOf(s, m) \in Nat /\ StartOf(s, j) \in Nat
          /\ StartOf(s, m + 1) = StartOf(s, m) + Len(s[m + 1]) + 1
      BY <1>1, <1>2, <3>1
    <3> QED
      BY <3>2, <3>3
  <2> QED
    BY <2>1, <2>2
<1> HIDE DEF T
<1>5. Nat \subseteq T
  BY <1>3, <1>4, InductionInSet
<1>6. k \in T /\ k \in j .. n
  BY <1>1, <1>5
<1> QED
  BY <1>6 DEF T

\* A part of a sequence that has the elements of another.
LEMMA SubSeqIs ==
    ASSUME NEW p \in Seq(Int), NEW x \in Seq(Int), NEW a \in Nat,
           \A i \in 1 .. Len(x) : a + i <= Len(p) /\ p[a + i] = x[i]
    PROVE  SubSeq(p, a + 1, a + Len(x)) = x
<1> DEFINE q == SubSeq(p, a + 1, a + Len(x))
<1>1. Len(x) \in Nat /\ Len(p) \in Nat
  OBVIOUS
<1>2. a + 1 \in Nat /\ a + Len(x) \in Nat /\ 1 <= a + 1
      /\ (a + Len(x)) - (a + 1) + 1 = Len(x)
  BY <1>1
<1>3. \A i \in 1 .. Len(x) : a + i \in 1 .. Len(p) /\ p[a + i] = x[i]
  BY <1>1
<1>4. q \in Seq(Int) /\ Len(q) = Len(x) /\ \A i \in 1 .. Len(x) : q[i] = p[a + i]
  BY <1>1, <1>2, <1>3
<1> HIDE DEF q
<1>5. q = [i \in 1 .. Len(q) |-> q[i]]
  BY <1>4
<1>6. q = [i \in 1 .. Len(x) |-> x[i]]
  BY <1>3, <1>4, <1>5
<1>7. x = [i \in 1 .. Len(x) |-> x[i]]
  OBVIOUS
<1> QED
  BY <1>6, <1>7 DEF q

\* The fields are read as they were packed.
LEMMA FieldsAre ==
    ASSUME NEW s \in Seq(Strings), NEW num \in Nat
    PROVE  Original(Packed(s), num) = IF num < Len(s) THEN s[num + 1] ELSE << >>
<1> DEFINE p == Packed(s)
           n == Len(s)
           at == 4 + num * 4
           next == IF At(p, 0) - (at + 4) < 4 THEN Len(p) ELSE At(p, at + 4)
<1>1. /\ p \in Seq(Int) /\ Len(p) = StartOf(s, n) /\ p[1] = 4 + n * 4
      /\ \A k \in 0 .. n - 1 : p[4 + k * 4 + 1] = StartOf(s, k)
      /\ \A k \in 0 .. n - 1 : \A i \in 1 .. Len(s[k + 1]) : p[StartOf(s, k) + i] = s[k + 1][i]
  BY PackedIs
<1>2. /\ StartOf(s, 0) = 4 + n * 4
      /\ \A k \in 0 .. n : StartOf(s, k) \in Nat
      /\ \A k \in 0 .. n - 1 : StartOf(s, k + 1) = StartOf(s, k) + Len(s[k + 1]) + 1
  BY StartIs
<1>3. n \in Nat /\ \A k \in 1 .. n : s[k] \in Seq(Int) /\ Len(s[k]) \in Nat
  BY DEF Strings
<1>4. Original(p, num) = IF Len(p) < 4 \/ At(p, 0) - at < 4 THEN << >>
                         ELSE SubSeq(p, At(p, at) + 1, next - 1)
  BY DEF Original
<1>5. At(p, 0) = 4 + n * 4
  BY <1>1 DEF At
<1> HIDE DEF p
<1>6. CASE ~(num < n)
  <2>1. At(p, 0) - at < 4
    BY <1>3, <1>5, <1>6
  <2> QED
    BY <1>4, <1>6, <2>1 DEF p
<1>7. CASE num < n
  <2> DEFINE x == s[num + 1]
             a == StartOf(s, num)
  <2>1. /\ num + 1 \in 1 .. n /\ num \in 0 .. n - 1 /\ num \in 0 .. n /\ num + 1 \in 0 .. n
        /\ n \in 0 .. n
    BY <1>3, <1>7
  <2>2. x \in Seq(Int) /\ Len(x) \in Nat /\ a \in Nat /\ StartOf(s, num + 1) = a + Len(x) + 1
    BY <1>2, <1>3, <2>1
  <2>3. StartOf(s, num + 1) <= Len(p) /\ Len(p) \in Nat /\ 4 <= Len(p)
    <3>1. StartOf(s, num + 1) <= StartOf(s, n)
      BY <2>1, StartsGrow
    <3>2. StartOf(s, 0) <= StartOf(s, n)
      BY <1>3, <2>1, StartsGrow
    <3> QED
      BY <1>1, <1>2, <1>3, <2>1, <3>1, <3>2
  <2>4. ~(At(p, 0) - at < 4)
    BY <1>3, <1>5, <1>7
  <2>5. At(p, at) = a
    <3>1. p[4 + num * 4 + 1] = a
      BY <1>1, <2>1
    <3> QED
      BY <3>1 DEF At
  <2>6. next = StartOf(s, num + 1)
    <3>1. CASE num + 1 = n
      <4>1. At(p, 0) - (at + 4) < 4
        BY <1>3, <1>5, <3>1
      <4> QED
        BY <1>1, <3>1, <4>1 DEF p
    <3>2. CASE num + 1 # n
      <4>1. ~(At(p, 0) - (at + 4) < 4) /\ num + 1 \in 0 .. n - 1
        BY <1>3, <1>5, <1>7, <3>2
      <4>2. p[4 + (num + 1) * 4 + 1] = StartOf(s, num + 1)
        BY <1>1, <4>1
      <4>3. at + 4 + 1 = 4 + (num + 1) * 4 + 1
        OBVIOUS
      <4>4. At(p, at + 4) = StartOf(s, num + 1)
        BY <4>2, <4>3 DEF At
      <4> QED
        BY <4>1, <4>4
    <3> QED
      BY <3>1, <3>2
  <2>7. \A i \in 1 .. Len(x) : p[a + i] = x[i]
    BY <1>1, <2>1
  <2> HIDE DEF at, next, x, a
  <2>8. Original(p, num) = SubSeq(p, a + 1, a + Len(x))
    <3>1. Original(p, num) = SubSeq(p, a + 1, next - 1)
      <4>1. ~(Len(p) < 4)
        BY <2>3
      <4> QED
        BY <1>4, <2>4, <2>5, <4>1, Zenon
    <3>2. next - 1 = a + Len(x)
      BY <2>2, <2>6
    <3> QED
      BY <3>1, <3>2
  <2>9. \A i \in 1 .. Len(x) : a + i <= Len(p) /\ p[a + i] = x[i]
    <3>1. \A i \in 1 .. Len(x) : a + i <= Len(p)
      BY <2>2, <2>3
    <3> QED
      BY <2>7, <3>1
  <2>10. SubSeq(p, a + 1, a + Len(x)) = x
    BY <1>1, <2>2, <2>9, SubSeqIs DEF p
  <2> QED
    BY <1>7, <2>8, <2>10 DEF p, x
<1> QED
  BY <1>6, <1>7

LEMMA SizeIs ==
    ASSUME NEW s \in Seq(Strings)
    PROVE  PoolSize(Packed(s)) = Len(s)
<1> DEFINE p == Packed(s)
           n == Len(s)
<1>1. n \in Nat /\ At(p, 0) = 4 + n * 4 /\ Len(p) = StartOf(s, n)
  BY PackedIs DEF At
<1>2. StartOf(s, 0) = 4 + n * 4 /\ StartOf(s, 0) <= StartOf(s, n) /\ StartOf(s, n) \in Nat
  <2>1. 0 \in 0 .. n /\ n \in 0 .. n /\ 0 <= n
    BY <1>1
  <2> QED
    BY <2>1, StartIs, StartsGrow
<1> HIDE DEF p
<1>3. ~(Len(p) < 4)
  BY <1>1, <1>2
<1>4. (4 + n * 4 - 4) \div 4 = n
  BY <1>1
<1> QED
  BY <1>1, <1>3, <1>4 DEF PoolSize, p

LEMMA FormatHolds ==
    ASSUME NEW s \in Seq(Strings)
    PROVE  Format(Packed(s))
<1> DEFINE p == Packed(s)
           n == Len(s)
           start(k) == IF k = n THEN Len(p) ELSE At(p, 4 + k * 4)
<1>1. /\ p \in Seq(Int) /\ Len(p) = StartOf(s, n) /\ p[1] = 4 + n * 4 /\ n \in Nat
      /\ \A k \in 0 .. n - 1 : p[4 + k * 4 + 1] = StartOf(s, k)
      /\ \A k \in 0 .. n - 1 : p[StartOf(s, k + 1)] = 0
  BY PackedIs
<1>2. /\ StartOf(s, 0) = 4 + n * 4
      /\ \A k \in 0 .. n : StartOf(s, k) \in Nat
      /\ \A k \in 0 .. n - 1 : StartOf(s, k + 1) = StartOf(s, k) + Len(s[k + 1]) + 1
  BY StartIs
<1>3. \A k \in 0 .. n - 1 : Len(s[k + 1]) \in Nat
  BY DEF Strings
<1>4. PoolSize(p) = n
  BY SizeIs
<1> HIDE DEF p
<1>5. \A k \in 0 .. n : start(k) = StartOf(s, k)
  BY <1>1 DEF At
<1>6. At(p, 0) = 4 + n * 4
  BY <1>1 DEF At
<1>7. n > 0 => start(0) = At(p, 0)
  <2>1. 0 \in 0 .. n
    BY <1>1
  <2> QED
    BY <1>2, <1>5, <1>6, <2>1
<1>8. ASSUME NEW k \in 0 .. n - 1
      PROVE  start(k) < start(k + 1) /\ At(p, start(k + 1) - 1) = 0
  <2>1. k \in 0 .. n /\ k + 1 \in 0 .. n
    BY <1>1
  <2>2. start(k) = StartOf(s, k) /\ start(k + 1) = StartOf(s, k + 1)
    BY <1>5, <2>1
  <2>3. StartOf(s, k) \in Nat /\ StartOf(s, k + 1) \in Nat /\ Len(s[k + 1]) \in Nat
        /\ StartOf(s, k + 1) = StartOf(s, k) + Len(s[k + 1]) + 1
    BY <1>2, <1>3, <2>1
  <2>4. StartOf(s, k + 1) - 1 + 1 = StartOf(s, k + 1)
    BY <2>3
  <2>5. At(p, StartOf(s, k + 1) - 1) = 0
    BY <1>1, <2>4 DEF At
  <2> QED
    BY <2>2, <2>3, <2>5
<1> QED
  BY <1>4, <1>6, <1>7, <1>8, Zenon DEF Format, p
-----------------------------------------------------------------------------
(* The bytes of pools.                                                       *)

Pools == {<< >>} \cup {Packed(s) : s \in Seq(Strings)}
PoolImpls == [pool : Pools, changes : Seq(Values \cup {Null}), readOnly : BOOLEAN]

LEMMA EmptyIs ==
    ASSUME NEW num \in Nat
    PROVE  Original(<< >>, num) = << >> /\ PoolSize(<< >>) = 0
BY DEF Original, PoolSize

LEMMA PoolsAre ==
    ASSUME NEW bytes \in Pools
    PROVE  /\ bytes \in Seq(Int) /\ PoolSize(bytes) \in Nat
           /\ \A num \in Nat : /\ Original(bytes, num) \in Seq(Int)
                               /\ num >= PoolSize(bytes) => Original(bytes, num) = << >>
           /\ bytes = << >> \/ Format(bytes)
<1>0. << >> \in Seq(Int)
  OBVIOUS
<1>1. CASE bytes = << >>
  <2>1. \A num \in Nat : Original(<< >>, num) = << >>
    BY EmptyIs
  <2>2. PoolSize(<< >>) = 0
    BY EmptyIs, 0 \in Nat
  <2>3. \A num \in Nat : /\ Original(<< >>, num) \in Seq(Int)
                          /\ num >= PoolSize(<< >>) => Original(<< >>, num) = << >>
    BY <1>0, <2>1, Zenon
  <2>4. PoolSize(<< >>) \in Nat
    BY <2>2
  <2>5. PoolSize(bytes) \in Nat /\ bytes \in Seq(Int)
    BY <1>0, <1>1, <2>4
  <2>6. ASSUME NEW num \in Nat
        PROVE  /\ Original(bytes, num) \in Seq(Int)
               /\ num >= PoolSize(bytes) => Original(bytes, num) = << >>
    BY <1>0, <1>1, <2>1
  <2> QED
    BY <1>1, <2>5, <2>6
<1>2. CASE bytes # << >>
  <2>1. PICK s \in Seq(Strings) : bytes = Packed(s)
    BY <1>2 DEF Pools
  <2>2. bytes \in Seq(Int)
    BY <2>1, PackedIs
  <2>3. PoolSize(bytes) = Len(s) /\ Len(s) \in Nat
    BY <2>1, SizeIs
  <2>4. \A k \in 1 .. Len(s) : s[k] \in Seq(Int)
    BY DEF Strings
  <2>5. ASSUME NEW num \in Nat
        PROVE  /\ Original(bytes, num) \in Seq(Int)
               /\ num >= PoolSize(bytes) => Original(bytes, num) = << >>
    <3>1. Original(bytes, num) = IF num < Len(s) THEN s[num + 1] ELSE << >>
      BY <2>1, FieldsAre
    <3>2. CASE num < Len(s)
      <4>1. num + 1 \in 1 .. Len(s) /\ ~(num >= Len(s))
        BY <2>3, <3>2
      <4> QED
        BY <2>3, <2>4, <3>1, <3>2, <4>1
    <3>3. CASE ~(num < Len(s))
      BY <1>0, <3>1, <3>3
    <3> QED
      BY <3>2, <3>3
  <2>6. Format(bytes)
    BY <2>1, FormatHolds
  <2> QED
    BY <2>2, <2>3, <2>5, <2>6
<1> QED
  BY <1>1, <1>2

\* What toBytes writes for a field, if there is any.
ValueOf(i, num, old) == IF IsChanged(i, num) THEN At(i.changes, num) ELSE Original(old, num)
ValuesOf(i, size, old) == [k \in 1 .. size |-> ValueOf(i, k - 1, old)]

LEMMA ValuesAre ==
    ASSUME NEW i \in PoolImpls, NEW num \in Nat, NEW old \in Pools
    PROVE  /\ IsChanged(i, num) => At(i.changes, num) \in Values
           /\ At(i.changes, num) \in Values => At(i.changes, num) \in Seq(Int)
           /\ ValueOf(i, num, old) \in Seq(Int)
<1>1. IsChanged(i, num) => At(i.changes, num) \in Values
  <2> SUFFICES ASSUME num < Len(i.changes), At(i.changes, num) # Null
               PROVE  At(i.changes, num) \in Values
    BY DEF IsChanged
  <2>1. i.changes \in Seq(Values \cup {Null})
    BY DEF PoolImpls
  <2> DEFINE c == i.changes
  <2> HIDE DEF c
  <2>2. c \in Seq(Values \cup {Null}) /\ num < Len(c) /\ c[num + 1] # Null
    BY <2>1 DEF At, c
  <2>3. num + 1 \in 1 .. Len(c)
    BY <2>2
  <2>4. c[num + 1] \in Values \cup {Null}
    BY <2>2, <2>3
  <2> QED
    BY <2>2, <2>4 DEF At, c
<1>2. At(i.changes, num) \in Values => At(i.changes, num) \in Seq(Int)
  BY PoolAssumption
<1>3. Original(old, num) \in Seq(Int)
  BY PoolsAre
<1> QED
  BY <1>1, <1>2, <1>3 DEF ValueOf

LEMMA WrittenIs ==
    ASSUME NEW i \in PoolImpls, NEW size \in Nat, NEW old \in Pools
    PROVE  /\ ValuesOf(i, size, old) \in Seq(Strings)
           /\ Len(ValuesOf(i, size, old)) = size
           /\ \A k \in 1 .. size : ValuesOf(i, size, old)[k] = ValueOf(i, k - 1, old)
           /\ ToBytes(i, size, old) = IF i.changes = << >> THEN << >>
                                      ELSE Packed(ValuesOf(i, size, old))
<1> DEFINE s == ValuesOf(i, size, old)
<1>1. ASSUME NEW k \in 1 .. size PROVE ValueOf(i, k - 1, old) \in Seq(Int)
  <2>1. k - 1 \in Nat
    OBVIOUS
  <2> QED
    BY <2>1, ValuesAre
<1>2. s \in [1 .. size -> Strings]
  BY <1>1 DEF ValuesOf, Strings
<1>3. \A k \in 1 .. size : s[k] = ValueOf(i, k - 1, old)
  BY DEF ValuesOf
<1> HIDE DEF s
<1>4. s \in Seq(Strings) /\ Len(s) = size
  BY <1>2
<1> DEFINE body == [k \in 1 .. size |-> Append(ValueOf(i, k - 1, old), 0)]
           start(k) == 4 + size * 4 + Len(FlattenSeq(SubSeq(body, 1, k - 1)))
<1>5. ToBytes(i, size, old) =
        IF i.changes = << >> THEN << >>
        ELSE Word(4 + size * 4) \o FlattenSeq([k \in 1 .. size |-> Word(start(k))])
                \o FlattenSeq(body)
  BY Zenon DEF ToBytes, ValueOf
<1>6. body = Terminated(s)
  <2>1. Terminated(s) = [k \in 1 .. size |-> Append(s[k], 0)]
    BY <1>4 DEF Terminated
  <2> QED
    BY <1>3, <2>1
<1> HIDE DEF body
<1>7. \A k : start(k) = StartOf(s, k - 1)
  BY <1>4, <1>6, Zenon DEF StartOf, Joined
<1> HIDE DEF start
<1>8. [k \in 1 .. size |-> Word(start(k))] = Offsets(s)
  BY <1>4, <1>7, Zenon DEF Offsets
<1>9. Packed(s) = Word(4 + size * 4) \o FlattenSeq(Offsets(s)) \o FlattenSeq(Terminated(s))
  BY <1>4, Zenon DEF Packed
<1>10. ToBytes(i, size, old) = IF i.changes = << >> THEN << >> ELSE Packed(s)
  BY <1>5, <1>6, <1>8, <1>9, Zenon
<1> QED
  BY <1>3, <1>4, <1>10 DEF s

\* The fields of what toBytes writes.
LEMMA ToBytesIs ==
    ASSUME NEW i \in PoolImpls, NEW size \in Nat, NEW old \in Pools, NEW num \in Nat
    PROVE  /\ ToBytes(i, size, old) \in Pools
           /\ i.changes # << >> =>
                 Original(ToBytes(i, size, old), num) =
                     IF num < size THEN ValueOf(i, num, old) ELSE << >>
<1> DEFINE s == ValuesOf(i, size, old)
<1>1. /\ s \in Seq(Strings) /\ Len(s) = size
      /\ \A k \in 1 .. size : s[k] = ValueOf(i, k - 1, old)
      /\ ToBytes(i, size, old) = IF i.changes = << >> THEN << >> ELSE Packed(s)
  BY WrittenIs
<1> HIDE DEF s
<1>2. ToBytes(i, size, old) \in Pools
  BY <1>1 DEF Pools
<1>3. Original(Packed(s), num) = IF num < size THEN s[num + 1] ELSE << >>
  BY <1>1, FieldsAre
<1>4. num < size => s[num + 1] = ValueOf(i, num, old)
  <2> SUFFICES ASSUME num < size PROVE s[num + 1] = ValueOf(i, num, old)
    OBVIOUS
  <2>1. num + 1 \in 1 .. size /\ num + 1 - 1 = num
    OBVIOUS
  <2> QED
    BY <1>1, <2>1
<1> QED
  BY <1>1, <1>2, <1>3, <1>4
-----------------------------------------------------------------------------
(* The invariant: the handles are on Impls of bytes that toBytes made, and   *)
(* so are the bytes in the database, whose fields are the last ones saved.   *)

Shape ==
    /\ ref \in [Handles -> Impls \cup {Null}]
    /\ impl \in [Impls -> PoolImpls]
    /\ \A i \in Impls : impl[i] # Fresh(<<>>) => \E h \in Handles : ref[h] = i
Data ==
    /\ db \in Pools
    /\ lastSet \in [Fields -> Values \cup {<<>>}]
    /\ index \in [Fields -> Values \cup {<<>>}]
    /\ LastSaved /\ IndexCurrent
IInv == Shape /\ Data

\* An Impl that is read-only stays as it is for the handles that keep it.
Kept ==
    \A h \in Handles :
        ref[h] # Null /\ ref'[h] = ref[h] /\ impl[ref[h]].readOnly =>
            impl'[ref[h]] = impl[ref[h]]

LEMMA FreshIs ==
    ASSUME NEW bytes \in Pools
    PROVE  Fresh(bytes) \in PoolImpls
<1>1. << >> \in Seq(Values \cup {Null})
  OBVIOUS
<1> QED
  BY <1>1 DEF Fresh, PoolImpls

\* What shared_ptr leaves of the Impls.
LEMMA FreeKeeps ==
    ASSUME NEW r \in [Handles -> Impls \cup {Null}], NEW m, \A i \in Impls : m[i] \in PoolImpls
    PROVE  /\ Free(r, m) \in [Impls -> PoolImpls]
           /\ \A i \in Impls : Free(r, m)[i] # Fresh(<<>>) => \E h \in Handles : r[h] = i
           /\ \A h \in Handles : r[h] # Null => Free(r, m)[r[h]] = m[r[h]]
<1>1. << >> \in Pools
  BY DEF Pools
<1>2. Fresh(<<>>) \in PoolImpls
  BY <1>1, FreshIs
<1> QED
  BY <1>2 DEF Free

LEMMA AssignKeeps ==
    ASSUME Shape, NEW h \in Handles, NEW bytes \in Pools, Assign(h, bytes)
    PROVE  Shape' /\ Kept
<1>1. PICK i \in Impls :
        /\ \A g \in Handles : ref[g] # i
        /\ ref' = [ref EXCEPT ![h] = i]
        /\ impl' = Free(ref', [impl EXCEPT ![i] = Fresh(bytes)])
  BY DEF Assign
<1> DEFINE m == [impl EXCEPT ![i] = Fresh(bytes)]
<1>2. ref' \in [Handles -> Impls \cup {Null}]
  BY <1>1 DEF Shape
<1>3. \A j \in Impls : m[j] = IF j = i THEN Fresh(bytes) ELSE impl[j]
  BY DEF Shape
<1>4. \A j \in Impls : m[j] \in PoolImpls
  BY <1>3, FreshIs DEF Shape
<1>5. impl' = Free(ref', m)
  BY <1>1
<1> HIDE DEF m
<1>6. Shape'
  BY <1>2, <1>4, <1>5, FreeKeeps DEF Shape
<1>7. ASSUME NEW g \in Handles, ref[g] # Null, ref'[g] = ref[g]
      PROVE  impl'[ref[g]] = impl[ref[g]]
  <2>1. impl'[ref[g]] = m[ref[g]]
    BY <1>2, <1>4, <1>5, <1>7, FreeKeeps
  <2>2. ref[g] \in Impls /\ ref[g] # i
    BY <1>1, <1>7 DEF Shape
  <2> QED
    BY <1>3, <2>1, <2>2
<1> QED
  BY <1>6, <1>7 DEF Kept

\* set() resizes the changes.
LEMMA ChangedIs ==
    ASSUME NEW i \in PoolImpls, NEW f \in Fields, NEW v \in Values
    PROVE  /\ [i EXCEPT !.changes = Changed(i.changes, f, v)] \in PoolImpls
           /\ [i EXCEPT !.changes = Changed(i.changes, f, v)] # Fresh(<<>>)
<1> DEFINE c == i.changes
           l == IF f < Len(c) THEN Len(c) ELSE f + 1
           new == Changed(c, f, v)
<1>1. c \in Seq(Values \cup {Null}) /\ Len(c) \in Nat
  BY DEF PoolImpls
<1>2. f \in Nat
  BY PoolAssumption DEF Fields
<1>3. l \in Nat /\ l >= f + 1
  BY <1>1, <1>2
<1>4. \A k \in 1 .. Len(c) : c[k] \in Values \cup {Null}
  BY <1>1
<1> HIDE DEF c
<1>5. new = [k \in 1 .. l |-> IF k = f + 1 THEN v ELSE IF k <= Len(c) THEN c[k] ELSE Null]
  BY DEF Changed
<1> HIDE DEF l, new
<1>6. ASSUME NEW k \in 1 .. l
      PROVE  (IF k = f + 1 THEN v ELSE IF k <= Len(c) THEN c[k] ELSE Null) \in Values \cup {Null}
  <2>1. k <= Len(c) => k \in 1 .. Len(c)
    BY <1>1, <1>3
  <2> QED
    BY <1>4, <2>1
<1>7. new \in [1 .. l -> Values \cup {Null}]
  BY <1>5, <1>6
<1>8. new \in Seq(Values \cup {Null}) /\ Len(new) = l
  BY <1>3, <1>7
<1>9. new # << >>
  BY <1>2, <1>3, <1>8
<1>10. [i EXCEPT !.changes = new] \in PoolImpls /\ [i EXCEPT !.changes = new].changes = new
  BY <1>8 DEF PoolImpls
<1> QED
  BY <1>9, <1>10 DEF Fresh, new, c

LEMMA SetKeeps ==
    ASSUME Shape, NEW h \in Handles, NEW f \in Fields, NEW v \in Values, Set(h, f, v)
    PROVE  Shape' /\ Kept
<1> DEFINE set(i) == [i EXCEPT !.changes = Changed(i.changes, f, v)]
<1>1. \A i \in PoolImpls : set(i) \in PoolImpls
  BY ChangedIs
<1>2. CASE /\ ref[h] # Null /\ ~impl[ref[h]].readOnly
           /\ impl' = [impl EXCEPT ![ref[h]] = set(@)] /\ UNCHANGED ref
  <2>1. ref[h] \in Impls
    BY <1>2 DEF Shape
  <2>2. \A i \in Impls : impl'[i] = IF i = ref[h] THEN set(impl[i]) ELSE impl[i]
    BY <1>2, <2>1 DEF Shape
  <2>3. \A i \in Impls : impl[i] \in PoolImpls
    BY DEF Shape
  <2>4. impl' = [impl EXCEPT ![ref[h]] = set(impl[ref[h]])]
    BY <1>2
  <2>5. set(impl[ref[h]]) \in PoolImpls
    BY <1>1, <2>1, <2>3
  <2> HIDE DEF set
  <2>6. impl' \in [Impls -> PoolImpls]
    BY <2>1, <2>4, <2>5 DEF Shape
  <2>7. \A i \in Impls : impl'[i] # Fresh(<<>>) => \E g \in Handles : ref'[g] = i
    BY <1>2, <2>2 DEF Shape
  <2> QED
    BY <1>2, <2>2, <2>6, <2>7 DEF Shape, Kept
<1>3. ASSUME NEW i \in Impls, \A g \in Handles : ref[g] # i, ref[h] = Null,
             ref' = [ref EXCEPT ![h] = i],
             impl' = [impl EXCEPT ![i] = set(Fresh(<<>>))]
      PROVE  Shape' /\ Kept
  <2>1. << >> \in Pools
    BY DEF Pools
  <2>2. set(Fresh(<<>>)) \in PoolImpls
    BY <1>1, <2>1, FreshIs
  <2> HIDE DEF set
  <2>3. \A j \in Impls : impl'[j] = IF j = i THEN set(Fresh(<<>>)) ELSE impl[j]
    BY <1>3 DEF Shape
  <2>4. impl' \in [Impls -> PoolImpls]
    BY <1>3, <2>2 DEF Shape
  <2>5. ref' \in [Handles -> Impls \cup {Null}] /\ ref'[h] = i
    BY <1>3 DEF Shape
  <2>6. ASSUME NEW j \in Impls, impl'[j] # Fresh(<<>>) PROVE \E g \in Handles : ref'[g] = j
    <3>1. CASE j = i
      BY <2>5, <3>1
    <3>2. CASE j # i
      <4>1. PICK g \in Handles : ref[g] = j
        BY <2>3, <2>6, <3>2 DEF Shape
      <4>2. g # h /\ ref'[g] = j
        BY <1>3, <4>1, PoolAssumption DEF Shape
      <4> QED
        BY <4>2
    <3> QED
      BY <3>1, <3>2
  <2>7. Kept
    <3> SUFFICES ASSUME NEW g \in Handles, ref[g] # Null PROVE impl'[ref[g]] = impl[ref[g]]
      BY DEF Kept
    <3>1. ref[g] \in Impls /\ ref[g] # i
      BY <1>3 DEF Shape
    <3> QED
      BY <2>3, <3>1
  <2> QED
    BY <2>4, <2>5, <2>6, <2>7 DEF Shape
<1> QED
  BY <1>2, <1>3 DEF Set

LEMMA ReadOnlyKeeps ==
    ASSUME Shape, NEW h \in Handles, NEW ro, ReadOnly(h, ro)
    PROVE  Shape' /\ Kept
<1>1. ref[h] \in Impls /\ ref' = ref
  BY DEF ReadOnly, Shape
<1>2. \A i \in Impls : impl'[i] = IF i = ref[h] THEN [impl[i] EXCEPT !.readOnly = TRUE] ELSE impl[i]
  BY <1>1 DEF ReadOnly, Shape
<1>3. \A i \in PoolImpls : /\ [i EXCEPT !.readOnly = TRUE] \in PoolImpls
                           /\ i.readOnly => [i EXCEPT !.readOnly = TRUE] = i
  BY DEF PoolImpls
<1>4. impl' \in [Impls -> PoolImpls]
  BY <1>1, <1>3 DEF ReadOnly, Shape
<1>5. \A i \in Impls : impl'[i] # Fresh(<<>>) => \E g \in Handles : ref'[g] = i
  BY <1>1, <1>2 DEF Shape
<1>6. ASSUME NEW i \in Impls, impl[i].readOnly PROVE impl'[i] = impl[i]
  <2>1. impl[i] \in PoolImpls
    BY DEF Shape
  <2> QED
    BY <1>2, <1>3, <1>6, <2>1
<1> QED
  BY <1>1, <1>4, <1>5, <1>6 DEF Shape, Kept

\* A save replaces the fields that the user changed and no other, whatever the
\* database has by now.
LEMMA SaveKeeps ==
    ASSUME IInv, NEW h \in Handles, Save(h)
    PROVE  Data'
<1> DEFINE i == impl[ref[h]]
           visited == Visited(i, db)
           size == IF Len(i.changes) > PoolSize(db) THEN Len(i.changes) ELSE PoolSize(db)
<1>1. /\ db' = IF visited = {} THEN db ELSE ToBytesDelta(i, db)
      /\ index' = [f \in Fields |-> IF f \in visited THEN At(i.changes, f) ELSE index[f]]
      /\ lastSet' = [f \in Fields |-> IF IsChanged(i, f) THEN At(i.changes, f) ELSE lastSet[f]]
  BY DEF Save
<1>2. i \in PoolImpls
  BY DEF Save, IInv, Shape
<1>3. db \in Pools
  BY DEF IInv, Data
<1>4. \A f \in Fields : f \in visited <=> IsChanged(i, f) /\ Original(db, f) # At(i.changes, f)
  BY DEF Visited
<1>5. ToBytesDelta(i, db) = ToBytes(i, size, db)
  BY Zenon DEF ToBytesDelta
<1>6. Len(i.changes) \in Nat /\ PoolSize(db) \in Nat
  <2>1. PoolSize(db) \in Nat
    BY <1>3, PoolsAre
  <2>2. i.changes \in Seq(Values \cup {Null})
    BY <1>2 DEF PoolImpls
  <2> HIDE DEF i
  <2> QED
    BY <2>1, <2>2
<1> HIDE DEF i, visited
<1>7. size \in Nat /\ size >= Len(i.changes) /\ size >= PoolSize(db)
  BY <1>6
<1> HIDE DEF size
<1>8. \A f \in Fields : f \in Nat
  BY PoolAssumption DEF Fields
<1>9. \A f \in Fields : IsChanged(i, f) => f < Len(i.changes)
  BY DEF IsChanged
<1>10. ASSUME NEW f \in Fields
       PROVE  Original(db', f) = IF IsChanged(i, f) THEN At(i.changes, f) ELSE Original(db, f)
  <2>1. CASE visited = {}
    BY <1>1, <1>4, <2>1
  <2>2. CASE visited # {}
    <3>1. PICK g \in Fields : IsChanged(i, g)
      <4>1. visited \subseteq Fields
        BY DEF visited, Visited
      <4> QED
        BY <1>4, <2>2, <4>1
    <3>2. i.changes # << >>
      <4>1. ~(g < Len(<< >>))
        BY <1>8
      <4> QED
        BY <1>9, <3>1, <4>1
    <3>3. Original(ToBytes(i, size, db), f) = IF f < size THEN ValueOf(i, f, db) ELSE << >>
      BY <1>2, <1>3, <1>7, <1>8, <3>2, ToBytesIs
    <3>4. CASE f < size
      BY <1>1, <1>5, <2>2, <3>3, <3>4 DEF ValueOf
    <3>5. CASE ~(f < size)
      <4>1. ~IsChanged(i, f) /\ f >= PoolSize(db)
        BY <1>6, <1>7, <1>8, <1>9, <3>5
      <4>2. Original(db, f) = << >>
        BY <1>3, <1>8, <4>1, PoolsAre
      <4> QED
        BY <1>1, <1>5, <2>2, <3>3, <3>5, <4>1, <4>2
    <3> QED
      BY <3>4, <3>5
  <2> QED
    BY <2>1, <2>2
<1>11. db' \in Pools
  BY <1>1, <1>2, <1>3, <1>5, <1>7, ToBytesIs, 0 \in Nat
<1>12. \A f \in Fields : IsChanged(i, f) => At(i.changes, f) \in Values
  BY <1>2, <1>3, <1>8, ValuesAre
<1>13. lastSet' \in [Fields -> Values \cup {<<>>}] /\ LastSaved'
  <2>1. \A f \in Fields : lastSet[f] \in Values \cup {<<>>} /\ Original(db, f) = lastSet[f]
    BY DEF IInv, Data, LastSaved
  <2>2. \A f \in Fields : lastSet'[f] = IF IsChanged(i, f) THEN At(i.changes, f) ELSE lastSet[f]
    BY <1>1
  <2>3. LastSaved'
    BY <1>10, <2>1, <2>2 DEF LastSaved, Fields
  <2> QED
    BY <1>1, <1>12, <2>1, <2>3
<1>14. index' \in [Fields -> Values \cup {<<>>}] /\ IndexCurrent'
  <2>1. \A f \in Fields : index[f] \in Values \cup {<<>>} /\ Original(db, f) = index[f]
    BY DEF IInv, Data, IndexCurrent
  <2>2. \A f \in Fields : index'[f] = IF f \in visited THEN At(i.changes, f) ELSE index[f]
    BY <1>1
  <2>3. IndexCurrent'
    BY <1>4, <1>10, <2>1, <2>2 DEF IndexCurrent, Fields
  <2> QED
    BY <1>1, <1>4, <1>12, <2>1, <2>3
<1> QED
  BY <1>11, <1>13, <1>14 DEF Data

LEMMA StepKeeps ==
    ASSUME IInv, [Next]_vars
    PROVE  IInv' /\ Kept
<1> USE DEF IInv
<1>1. CASE UNCHANGED vars
  BY <1>1 DEF vars, Shape, Data, LastSaved, IndexCurrent, Kept
<1>2. ASSUME UNCHANGED <<db, lastSet, index>> PROVE Data'
  BY <1>2 DEF Data, LastSaved, IndexCurrent
<1>3. ASSUME ref' \in [Handles -> Impls \cup {Null}], impl' = Free(ref', impl) PROVE Shape' /\ Kept
  BY <1>3, FreeKeeps DEF Shape, Kept
<1>4. ASSUME NEW h \in Handles, Default(h) PROVE IInv' /\ Kept
  <2>1. ref' \in [Handles -> Impls \cup {Null}]
    BY <1>4 DEF Default, Shape
  <2> QED
    BY <1>2, <1>3, <1>4, <2>1 DEF Default
<1>5. ASSUME NEW h \in Handles, Load(h) PROVE IInv' /\ Kept
  <2>1. db \in Pools
    BY DEF Data
  <2> QED
    BY <1>2, <1>5, <2>1, AssignKeeps DEF Load
<1>6. ASSUME NEW h \in Handles, Save(h) PROVE IInv' /\ Kept
  <2>1. Data'
    BY <1>6, SaveKeeps
  <2>2. UNCHANGED <<ref, impl>>
    BY <1>6 DEF Save
  <2> QED
    BY <2>1, <2>2 DEF Shape, Kept
<1>7. ASSUME NEW g \in Handles, NEW h \in Handles, Transfer(g, h) PROVE IInv' /\ Kept
  <2> DEFINE i == impl[ref[g]]
  <2>1. i \in PoolImpls
    BY <1>7 DEF Transfer, Shape
  <2> HIDE DEF i
  <2>2. i.pool \in Pools /\ Len(i.changes) \in Nat
    BY <2>1 DEF PoolImpls
  <2>3. ToBytesWhole(i) \in Pools
    BY <2>1, <2>2, ToBytesIs, 0 \in Nat DEF ToBytesWhole
  <2> QED
    BY <1>2, <1>7, <2>3, AssignKeeps DEF Transfer, i
<1>8. ASSUME NEW g \in Handles, NEW h \in Handles, Copy(g, h) PROVE IInv' /\ Kept
  <2>1. ref' \in [Handles -> Impls \cup {Null}]
    BY <1>8 DEF Copy, Shape
  <2> QED
    BY <1>2, <1>3, <1>8, <2>1 DEF Copy
<1>9. ASSUME NEW h \in Handles, NEW f \in Fields, NEW v \in Values, Set(h, f, v)
      PROVE  IInv' /\ Kept
  BY <1>2, <1>9, SetKeeps DEF Set
<1>10. ASSUME NEW h \in Handles, NEW ro, ReadOnly(h, ro) PROVE IInv' /\ Kept
  BY <1>2, <1>10, ReadOnlyKeeps DEF ReadOnly
<1> QED
  BY <1>1, <1>4, <1>5, <1>6, <1>7, <1>8, <1>9, <1>10 DEF Next

LEMMA Invariance == Spec => []IInv
<1>1. Init => IInv
  <2> SUFFICES ASSUME Init PROVE IInv
    OBVIOUS
  <2>1. << >> \in Pools
    BY DEF Pools
  <2>2. impl \in [Impls -> PoolImpls] /\ \A i \in Impls : impl[i] = Fresh(<<>>)
    BY <2>1, FreshIs DEF Init
  <2>3. \A f \in Fields : Original(<< >>, f) = << >>
    BY EmptyIs, PoolAssumption DEF Fields
  <2> QED
    BY <2>1, <2>2, <2>3 DEF Init, IInv, Shape, Data, LastSaved, IndexCurrent
<1>2. IInv /\ [Next]_vars => IInv'
  BY StepKeeps
<1> QED
  BY <1>1, <1>2, PTL DEF Spec

\* The types hold and the bytes of the database and of every pool have the
\* format of SerializablePool.hpp:12-17.
THEOREM BytesAreWellFormed == Spec => []WellFormed
<1>1. IInv => WellFormed
  <2> SUFFICES ASSUME IInv PROVE WellFormed
    OBVIOUS
  <2>1. \A bytes \in Pools : bytes \in Seq(Int) /\ (bytes = << >> \/ Format(bytes))
    BY PoolsAre
  <2>2. db \in Pools /\ \A i \in Impls : impl[i] \in PoolImpls /\ impl[i].pool \in Pools
    BY DEF IInv, Shape, Data, PoolImpls
  <2>3. TypeOK
    BY <2>1, <2>2 DEF TypeOK, IInv, Shape, Data, PoolImpls
  <2> QED
    BY <2>1, <2>2, <2>3 DEF WellFormed
<1> QED
  BY <1>1, Invariance, PTL

\* Saves do not undo each other: "database contains both changes"
\* (SerializablePool.hpp:160).
THEOREM SavesDoNotUndo == Spec => []LastSaved
<1>1. IInv => LastSaved
  BY DEF IInv, Data
<1> QED
  BY <1>1, Invariance, PTL

\* An index that the ChangeVisitor keeps is that of the database
\* (SerializablePool.hpp:99).
THEOREM IndexFollows == Spec => []IndexCurrent
<1>1. IInv => IndexCurrent
  BY DEF IInv, Data
<1> QED
  BY <1>1, Invariance, PTL

\* A pool that is read-only stays as it is, for all the handles that share it
\* (SerializablePool.hpp:193).
THEOREM ReadOnlyIsFrozen == Spec => Frozen
<1>1. IInv /\ [Next]_vars => [Kept]_vars
  BY StepKeeps
<1>2. [Kept]_vars => [\A h \in Handles :
        ref[h] # Null /\ ref'[h] = ref[h] /\ impl[ref[h]].readOnly =>
            impl'[ref[h]] = impl[ref[h]]]_vars
  BY DEF Kept
<1> QED
  BY <1>1, <1>2, Invariance, PTL DEF Spec, Frozen
=============================================================================
