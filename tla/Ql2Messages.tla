---------------------------- MODULE Ql2Messages ----------------------------
(* The messages of RethinkDB's protocol (ql2.pb.cc, ql2.pb.h), as their      *)
(* methods are written, one by one: each of them lists the fields of the     *)
(* message for itself, and nothing but their agreement makes them one codec. *)
(*                                                                           *)
(*   Accessors   how each field is kept, and its bit of _has_bits_;          *)
(*   SharedCtor  what they are at first;                                     *)
(*   IsValid     the values of the message's enumeration;                    *)
(*   Clear       the fields that are set to a value, those that are cleared  *)
(*               if they are present, and the lists that are cleared;        *)
(*   Parse       the cases of MergePartialFromCodedStream: number and wire   *)
(*               type of the field, and after which tag, if it is expected,  *)
(*               the parser jumps to the case of which field;                *)
(*   Serialize   the fields in the order in which they are written, also to  *)
(*               an array;                                                   *)
(*   ByteSize    what is counted for each, besides one byte for its tag;     *)
(*   MergeFrom, Swap   the fields that are merged and swapped.               *)
(* What the methods do with them is in Ql2.                                  *)
(*                                                                           *)
(* Left out are the extensions of Datum and Term: every method of these two  *)
(* passes on to _extensions_, which has the fields 10000 to 20000 that were  *)
(* registered as an extension (for Term ql2.pb.cc:3435, 3524-3528, 3565,     *)
(* 3604, 3649, 3686, 3726).  The repository registers none, so _extensions_  *)
(* is empty: it clears, writes, counts, merges and swaps nothing, and puts   *)
(* what the parser gives to it with the unknown fields.                      *)
EXTENDS Integers, Sequences

CONSTANT NULL   \* the pointer to no message

\* The wire types.
Varint == 0
Fixed64 == 1
Bytes == 2

\* A member of the message itself, one that is a bool, a string, a message, a
\* list of messages.
Value(bit) == [kind |-> "value", bit |-> bit, of |-> "number"]
Flag(bit) == [kind |-> "value", bit |-> bit, of |-> "bool"]
Text(bit) == [kind |-> "text", bit |-> bit, of |-> "string"]
One(bit, type) == [kind |-> "one", bit |-> bit, of |-> type]
Many(type) == [kind |-> "many", bit |-> 0, of |-> type]
EmptyString == ""
False == 0

Case(number, type, field, expected) ==
    [number |-> number, type |-> type, field |-> field, expected |-> expected]

VarintSize == "varint"
BoolSize == "bool"
DoubleSize == "double"
StringSize == "string"
MessageSize == "message"
-----------------------------------------------------------------------------
(* Query::AssocPair.                                                         *)

Query_AssocPair_Accessors == [key |-> Text(1), val |-> One(2, "Term")]
Query_AssocPair_SharedCtor == [key |-> EmptyString, val |-> NULL]

Query_AssocPair_Clear ==
    [to |-> << >>,
     present |-> {"key", "val"}, lists |-> {}]

Query_AssocPair_Parse == {
    Case(1, Bytes, "key", {<<18, "val">>}),
    Case(2, Bytes, "val", {})}

Query_AssocPair_Serialize ==
    << <<1, Bytes, "key">>, <<2, Bytes, "val">> >>
Query_AssocPair_ByteSize ==
    << <<"key", StringSize>>, <<"val", MessageSize>> >>
Query_AssocPair_MergeFrom == {"key", "val"}
Query_AssocPair_Swap == {"key", "val"}
-----------------------------------------------------------------------------
(* Query.                                                                    *)

Query_Accessors == [type |-> Value(1), query |-> One(2, "Term"),
                    token |-> Value(4), obsolete_noreply |-> Flag(8),
                    global_optargs |-> Many("Query_AssocPair")]
Query_SharedCtor == [type |-> 1, query |-> NULL, token |-> 0,
                     obsolete_noreply |-> False]
Query_IsValid == 1 .. 3

Query_Clear ==
    [to |-> [type |-> 1, token |-> 0, obsolete_noreply |-> False],
     present |-> {"query"}, lists |-> {"global_optargs"}]

Query_Parse == {
    Case(1, Varint, "type", {<<18, "query">>}),
    Case(2, Bytes, "query", {<<24, "token">>}),
    Case(3, Varint, "token", {<<32, "obsolete_noreply">>}),
    Case(4, Varint, "obsolete_noreply", {<<50, "global_optargs">>}),
    Case(6, Bytes, "global_optargs", {<<50, "global_optargs">>})}

Query_Serialize ==
    << <<1, Varint, "type">>, <<2, Bytes, "query">>, <<3, Varint, "token">>,
      <<4, Varint, "obsolete_noreply">>, <<6, Bytes, "global_optargs">> >>
Query_ByteSize ==
    << <<"type", VarintSize>>, <<"query", MessageSize>>,
       <<"token", VarintSize>>, <<"obsolete_noreply", BoolSize>>,
       <<"global_optargs", MessageSize>> >>
Query_MergeFrom ==
    {"global_optargs", "type", "query", "token", "obsolete_noreply"}
Query_Swap == {"type", "query", "token", "obsolete_noreply", "global_optargs"}
-----------------------------------------------------------------------------
(* Frame.                                                                    *)

Frame_Accessors == [type |-> Value(1), pos |-> Value(2), opt |-> Text(4)]
Frame_SharedCtor == [type |-> 1, pos |-> 0, opt |-> EmptyString]
Frame_IsValid == 1 .. 2

Frame_Clear ==
    [to |-> [type |-> 1, pos |-> 0],
     present |-> {"opt"}, lists |-> {}]

Frame_Parse == {
    Case(1, Varint, "type", {<<16, "pos">>}),
    Case(2, Varint, "pos", {<<26, "opt">>}),
    Case(3, Bytes, "opt", {})}

Frame_Serialize ==
    << <<1, Varint, "type">>, <<2, Varint, "pos">>, <<3, Bytes, "opt">> >>
Frame_ByteSize ==
    << <<"type", VarintSize>>, <<"pos", VarintSize>>, <<"opt", StringSize>> >>
Frame_MergeFrom == {"type", "pos", "opt"}
Frame_Swap == {"type", "pos", "opt"}
-----------------------------------------------------------------------------
(* Backtrace.                                                                *)

Backtrace_Accessors == [frames |-> Many("Frame")]
Backtrace_SharedCtor == << >>

Backtrace_Clear ==
    [to |-> << >>,
     present |-> {}, lists |-> {"frames"}]

Backtrace_Parse == {
    Case(1, Bytes, "frames", {<<10, "frames">>})}

Backtrace_Serialize ==
    << <<1, Bytes, "frames">> >>
Backtrace_ByteSize ==
    << <<"frames", MessageSize>> >>
Backtrace_MergeFrom == {"frames"}
Backtrace_Swap == {"frames"}
-----------------------------------------------------------------------------
(* Response.                                                                 *)

Response_Accessors == [type |-> Value(1), token |-> Value(2),
                       response |-> Many("Datum"),
                       backtrace |-> One(8, "Backtrace")]
Response_SharedCtor == [type |-> 1, token |-> 0, backtrace |-> NULL]
Response_IsValid == (1 .. 3) \cup (16 .. 18)

Response_Clear ==
    [to |-> [type |-> 1, token |-> 0],
     present |-> {"backtrace"}, lists |-> {"response"}]

Response_Parse == {
    Case(1, Varint, "type", {<<16, "token">>}),
    Case(2, Varint, "token", {<<26, "response">>}),
    Case(3, Bytes, "response", {<<26, "response">>, <<34, "backtrace">>}),
    Case(4, Bytes, "backtrace", {})}

Response_Serialize ==
    << <<1, Varint, "type">>, <<2, Varint, "token">>, <<3, Bytes, "response">>,
      <<4, Bytes, "backtrace">> >>
\* Mutation: the backtrace is not counted.
Response_ByteSize_NoBacktrace ==
    << <<"type", VarintSize>>, <<"token", VarintSize>>,
       <<"response", MessageSize>> >>

Response_ByteSize ==
    << <<"type", VarintSize>>, <<"token", VarintSize>>,
       <<"response", MessageSize>>, <<"backtrace", MessageSize>> >>
Response_MergeFrom == {"response", "type", "token", "backtrace"}
Response_Swap == {"type", "token", "response", "backtrace"}
-----------------------------------------------------------------------------
(* Datum::AssocPair.                                                         *)

Datum_AssocPair_Accessors == [key |-> Text(1), val |-> One(2, "Datum")]
Datum_AssocPair_SharedCtor == [key |-> EmptyString, val |-> NULL]

Datum_AssocPair_Clear ==
    [to |-> << >>,
     present |-> {"key", "val"}, lists |-> {}]

Datum_AssocPair_Parse == {
    Case(1, Bytes, "key", {<<18, "val">>}),
    Case(2, Bytes, "val", {})}

Datum_AssocPair_Serialize ==
    << <<1, Bytes, "key">>, <<2, Bytes, "val">> >>
Datum_AssocPair_ByteSize ==
    << <<"key", StringSize>>, <<"val", MessageSize>> >>
Datum_AssocPair_MergeFrom == {"key", "val"}
Datum_AssocPair_Swap == {"key", "val"}
-----------------------------------------------------------------------------
(* Datum.                                                                    *)

Datum_Accessors == [type |-> Value(1), r_bool |-> Flag(2),
                    r_num |-> Value(4), r_str |-> Text(8),
                    r_array |-> Many("Datum"),
                    r_object |-> Many("Datum_AssocPair")]
Datum_SharedCtor == [type |-> 1, r_bool |-> False, r_num |-> 0,
                     r_str |-> EmptyString]
Datum_IsValid == 1 .. 6

Datum_Clear ==
    [to |-> [type |-> 1, r_bool |-> False, r_num |-> 0],
     present |-> {"r_str"}, lists |-> {"r_array", "r_object"}]

Datum_Parse == {
    Case(1, Varint, "type", {<<16, "r_bool">>}),
    Case(2, Varint, "r_bool", {<<25, "r_num">>}),
    Case(3, Fixed64, "r_num", {<<34, "r_str">>}),
    Case(4, Bytes, "r_str", {<<42, "r_array">>}),
    Case(5, Bytes, "r_array", {<<42, "r_array">>, <<50, "r_object">>}),
    Case(6, Bytes, "r_object", {<<50, "r_object">>})}

Datum_Serialize ==
    << <<1, Varint, "type">>, <<2, Varint, "r_bool">>, <<3, Fixed64, "r_num">>,
      <<4, Bytes, "r_str">>, <<5, Bytes, "r_array">>, <<6, Bytes, "r_object">> >>
Datum_ByteSize ==
    << <<"type", VarintSize>>, <<"r_bool", BoolSize>>,
       <<"r_num", DoubleSize>>, <<"r_str", StringSize>>,
       <<"r_array", MessageSize>>, <<"r_object", MessageSize>> >>
Datum_MergeFrom == {"r_array", "r_object", "type", "r_bool", "r_num", "r_str"}
Datum_Swap == {"type", "r_bool", "r_num", "r_str", "r_array", "r_object"}
-----------------------------------------------------------------------------
(* Term::AssocPair.                                                          *)

Term_AssocPair_Accessors == [key |-> Text(1), val |-> One(2, "Term")]
Term_AssocPair_SharedCtor == [key |-> EmptyString, val |-> NULL]

Term_AssocPair_Clear ==
    [to |-> << >>,
     present |-> {"key", "val"}, lists |-> {}]

Term_AssocPair_Parse == {
    Case(1, Bytes, "key", {<<18, "val">>}),
    Case(2, Bytes, "val", {})}

Term_AssocPair_Serialize ==
    << <<1, Bytes, "key">>, <<2, Bytes, "val">> >>
Term_AssocPair_ByteSize ==
    << <<"key", StringSize>>, <<"val", MessageSize>> >>
Term_AssocPair_MergeFrom == {"key", "val"}
Term_AssocPair_Swap == {"key", "val"}
-----------------------------------------------------------------------------
(* Term.                                                                     *)

Term_Accessors == [type |-> Value(1), datum |-> One(2, "Datum"),
                   args |-> Many("Term"), optargs |-> Many("Term_AssocPair")]
Term_SharedCtor == [type |-> 1, datum |-> NULL]
Term_IsValid == (1 .. 3) \cup ((10 .. 97) \ {63})

\* Mutation: the datum is left as it is.
Term_Clear_KeepsDatum == [to |-> [type |-> 1], present |-> {},
                          lists |-> {"args", "optargs"}]

Term_Clear ==
    [to |-> [type |-> 1],
     present |-> {"datum"}, lists |-> {"args", "optargs"}]

Term_Parse == {
    Case(1, Varint, "type", {<<18, "datum">>}),
    Case(2, Bytes, "datum", {<<26, "args">>}),
    Case(3, Bytes, "args", {<<26, "args">>, <<34, "optargs">>}),
    Case(4, Bytes, "optargs", {<<34, "optargs">>})}

Term_Serialize ==
    << <<1, Varint, "type">>, <<2, Bytes, "datum">>, <<3, Bytes, "args">>,
       <<4, Bytes, "optargs">> >>
Term_ByteSize ==
    << <<"type", VarintSize>>, <<"datum", MessageSize>>,
       <<"args", MessageSize>>, <<"optargs", MessageSize>> >>
Term_MergeFrom == {"args", "optargs", "type", "datum"}
Term_Swap == {"type", "datum", "args", "optargs"}
-----------------------------------------------------------------------------
\* All that is known of a message.
Message(accessors, ctor, valid, clear, parse, serialize, size, merge, swap) ==
    [Accessors |-> accessors, SharedCtor |-> ctor, IsValid |-> valid,
     Clear |-> clear, Parse |-> parse, Serialize |-> serialize,
     ByteSize |-> size, MergeFrom |-> merge, Swap |-> swap]

Class == [
    Query_AssocPair |-> Message(
        Query_AssocPair_Accessors, Query_AssocPair_SharedCtor, {},
        Query_AssocPair_Clear, Query_AssocPair_Parse,
        Query_AssocPair_Serialize, Query_AssocPair_ByteSize,
        Query_AssocPair_MergeFrom, Query_AssocPair_Swap),
    Query |-> Message(
        Query_Accessors, Query_SharedCtor, Query_IsValid, Query_Clear,
        Query_Parse, Query_Serialize, Query_ByteSize, Query_MergeFrom,
        Query_Swap),
    Frame |-> Message(
        Frame_Accessors, Frame_SharedCtor, Frame_IsValid, Frame_Clear,
        Frame_Parse, Frame_Serialize, Frame_ByteSize, Frame_MergeFrom,
        Frame_Swap),
    Backtrace |-> Message(
        Backtrace_Accessors, Backtrace_SharedCtor, {}, Backtrace_Clear,
        Backtrace_Parse, Backtrace_Serialize, Backtrace_ByteSize,
        Backtrace_MergeFrom, Backtrace_Swap),
    Response |-> Message(
        Response_Accessors, Response_SharedCtor, Response_IsValid,
        Response_Clear, Response_Parse, Response_Serialize, Response_ByteSize,
        Response_MergeFrom, Response_Swap),
    Datum_AssocPair |-> Message(
        Datum_AssocPair_Accessors, Datum_AssocPair_SharedCtor, {},
        Datum_AssocPair_Clear, Datum_AssocPair_Parse,
        Datum_AssocPair_Serialize, Datum_AssocPair_ByteSize,
        Datum_AssocPair_MergeFrom, Datum_AssocPair_Swap),
    Datum |-> Message(
        Datum_Accessors, Datum_SharedCtor, Datum_IsValid, Datum_Clear,
        Datum_Parse, Datum_Serialize, Datum_ByteSize, Datum_MergeFrom,
        Datum_Swap),
    Term_AssocPair |-> Message(
        Term_AssocPair_Accessors, Term_AssocPair_SharedCtor, {},
        Term_AssocPair_Clear, Term_AssocPair_Parse, Term_AssocPair_Serialize,
        Term_AssocPair_ByteSize, Term_AssocPair_MergeFrom,
        Term_AssocPair_Swap),
    Term |-> Message(
        Term_Accessors, Term_SharedCtor, Term_IsValid, Term_Clear, Term_Parse,
        Term_Serialize, Term_ByteSize, Term_MergeFrom, Term_Swap)]
=============================================================================
