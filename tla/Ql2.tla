-------------------------------- MODULE Ql2 --------------------------------
(* The code that protoc generated for RethinkDB's protocol (ql2.pb.cc,       *)
(* ql2.pb.h): messages and what their methods do with the fields that        *)
(* Ql2Messages lists for each of them. Ql2Fields has what a message keeps.   *)
(*                                                                           *)
(* A message keeps what it has allocated: Clear clears the messages inside   *)
(* and leaves them where they are, and a list keeps its elements behind its  *)
(* size, to be used for the next ones. Whether a field is set is a bit apart *)
(* from its content, and the getters do not look at it. So a message is      *)
(* right only if everything that is not set and not counted is clear.        *)
(*                                                                           *)
(* What is written is a sequence of fields <<number, wire type, content>>,   *)
(* the content of a message being such a sequence in turn.                   *)
EXTENDS Ql2Fields, FiniteSetsExt

CONSTANTS
    Types,      \* the messages it makes
    Settings,    \* the values that a field is set to
    Newer,      \* the fields that a newer peer may send
    MaxDepth,   \* how far into a message a call reaches
    MaxWeight,  \* how much the messages may hold by what is set in them
    MaxGrown    \* how much they may hold in all

ASSUME BoundAssumption == {MaxDepth, MaxWeight, MaxGrown} \subseteq Nat

VARIABLES
    val,        \* what the getters show of it
    wire,       \* what was serialized last and not lost, or NULL
    meant       \* the value that it is to convey, or NULL if it is damaged

vars == <<objs, val, wire, meant>>

-----------------------------------------------------------------------------
(* The methods of a message.                                                 *)

SetHas(o, f) == [o EXCEPT !.has = @ \cup {Accessor(o.of, f).bit}]

Set(o, f, x) == [SetHas(o, f) EXCEPT !.member[f] = x]

Mutable(o, f) == Set(o, f, Get(o, f))

\* RepeatedPtrField::Add, which prefers an element that has been cleared.
Added(list, type) ==
    IF list.size < Len(list.elements) THEN [list EXCEPT !.size = @ + 1]
    ELSE [size |-> list.size + 1,
          elements |-> Append(list.elements, New(type))]

Add(o, f) == [o EXCEPT !.member[f] = Added(@, Accessor(o.of, f).of)]

RECURSIVE Cleared(_)

ClearedList(list) ==
    [size |-> 0,
     elements |-> [i \in DOMAIN list.elements |->
                     IF i <= list.size THEN Cleared(list.elements[i])
                     ELSE list.elements[i]]]

\* Clear.
Cleared(o) ==
    LET of == Class[o.of].Clear
        Content(f) ==
            CASE f \in of.lists -> ClearedList(o.member[f])
              [] f \in DOMAIN of.to /\ o.has # {} -> of.to[f]
              [] f \in of.present /\ Has(o, f) ->
                    IF Kind(o.of, f) = "text" THEN EmptyString
                    ELSE Cleared(o.member[f])
              [] OTHER -> o.member[f]
    IN  [o EXCEPT !.has = {}, !.unknown = << >>,
                  !.member = [f \in DOMAIN @ |-> Content(f)]]

\* clear_ of a field.
ClearField(o, f) ==
    [o EXCEPT !.has = @ \ {Accessor(o.of, f).bit},
              !.member[f] =
                CASE Kind(o.of, f) = "many" -> ClearedList(@)
                  [] Kind(o.of, f) = "one" /\ @ # NULL -> Cleared(@)
                  [] OTHER -> Class[o.of].SharedCtor[f]]

\* release_ of a field: the message does not have it any more.
Released(o, f) ==
    [o EXCEPT !.has = @ \ {Accessor(o.of, f).bit},
              !.member[f] = Class[o.of].SharedCtor[f]]

RECURSIVE Merged(_, _)

RECURSIVE MergedList(_, _, _)

\* RepeatedPtrField::MergeFrom.
MergedList(list, elements, type) ==
    IF elements = << >> THEN list
    ELSE LET m == Added(list, type)
         IN  MergedList([m EXCEPT !.elements[m.size] = Merged(@, Head(elements))],
                        Tail(elements), type)

\* MergeFrom.
Merged(o, from) ==
    LET merge == {f \in Class[o.of].MergeFrom :
                    Kind(o.of, f) = "many" \/ Has(from, f)}
        Content(f) ==
            CASE f \in merge /\ Kind(o.of, f) = "many" ->
                    MergedList(o.member[f], Live(from.member[f]),
                               Accessor(o.of, f).of)
              [] f \in merge /\ Kind(o.of, f) = "one" ->
                    Merged(Get(o, f), Get(from, f))
              [] f \in merge /\ Kind(o.of, f) \in {"value", "text"} ->
                    from.member[f]
              [] OTHER -> o.member[f]
    IN  [o EXCEPT
            !.has = @ \cup {Accessor(o.of, f).bit :
                              f \in {g \in merge : Kind(o.of, g) # "many"}},
            !.unknown = @ \o from.unknown,
            !.member = [f \in DOMAIN @ |-> Content(f)]]

\* CopyFrom.
Copied(o, from) == Merged(Cleared(o), from)

\* Swap: what o is afterwards.
Swapped(o, other) ==
    [other EXCEPT !.member = [f \in DOMAIN @ |->
        IF f \in Class[o.of].Swap THEN @[f] ELSE o.member[f]]]
-----------------------------------------------------------------------------
(* Writing.                                                                  *)

RECURSIVE Serialized(_)

\* SerializeWithCachedSizes.
Serialized(o) ==
    LET table == Class[o.of].Serialize
        Content(f, x) == IF IsMessage(o.of, f) THEN Serialized(x) ELSE x
        Write(number, type, f) ==
            LET contents == Contents(o, f)
            IN  [i \in DOMAIN contents |->
                   <<number, type, Content(f, contents[i])>>]
    IN  FlattenSeq([i \in DOMAIN table |->
            Write(table[i][1], table[i][2], table[i][3])]) \o o.unknown

-----------------------------------------------------------------------------
(* Reading.                                                                  *)

\* The wire type that ends a group. A field that the data ends in has a tag
\* and no content.
EndGroup == 4
IsCut(token) == Len(token) = 2

Result(o, ok) == [obj |-> o, ok |-> ok]

RECURSIVE Parsed(_, _)

\* The case of a field: it is made ready, and its content is read into it.
Read(o, f, token) ==
    LET list == Added(o.member[f], Accessor(o.of, f).of)
        Listed(m) ==
            [o EXCEPT !.member[f] = [list EXCEPT !.elements[list.size] = m]]
        r == Parsed(IF Kind(o.of, f) = "many" THEN list.elements[list.size]
                    ELSE Get(o, f), token[3])
    IN  CASE Kind(o.of, f) = "value" /\ IsCut(token) -> Result(o, FALSE)
          [] Kind(o.of, f) \in {"one", "text"} /\ IsCut(token) ->
                Result(Mutable(o, f), FALSE)
          [] Kind(o.of, f) = "many" /\ IsCut(token) -> Result(Add(o, f), FALSE)
          [] Kind(o.of, f) = "one" /\ ~IsCut(token) ->
                Result(Set(o, f, r.obj), r.ok)
          [] Kind(o.of, f) = "many" /\ ~IsCut(token) ->
                Result(Listed(r.obj), r.ok)
          [] Kind(o.of, f) = "value" /\ f = "type" /\ ~IsCut(token)
                /\ token[3] \notin Class[o.of].IsValid ->
                Result([o EXCEPT !.unknown = Append(@, token)], TRUE)
          [] OTHER -> Result(Set(o, f, token[3]), TRUE)

RECURSIVE ParsedFrom(_, _, _)

\* MergePartialFromCodedStream: the rest of the fields; jump is the case to
\* which an expected tag has led, if it was there. A field without a case is
\* kept with those that are not known. After an END_GROUP the parser is
\* content, but whoever called it finds that the message has not ended.
ParsedFrom(o, tokens, jump) ==
    LET token == Head(tokens)
        cases == CasesOf(o.of, token, jump)
        case == CHOOSE c \in cases : TRUE
        r == Read(o, case.field, token)
        next == IF Len(tokens) > 1 THEN ExpectedBy(case, tokens[2]) ELSE {}
    IN  CASE tokens = << >> -> Result(o, TRUE)
          [] tokens # << >> /\ cases # {} ->
                IF ~r.ok THEN r
                ELSE ParsedFrom(r.obj, Tail(tokens),
                        IF next = {} THEN NoJump
                        ELSE (CHOOSE e \in next : TRUE)[2])
          [] tokens # << >> /\ cases = {} ->
                IF token[2] = EndGroup \/ IsCut(token) THEN Result(o, FALSE)
                ELSE ParsedFrom([o EXCEPT !.unknown = Append(@, token)],
                                Tail(tokens), NoJump)

Parsed(o, tokens) == ParsedFrom(o, tokens, NoJump)
-----------------------------------------------------------------------------
(* What a message means to those who read it with the getters: a field that  *)
(* is not set is seen nevertheless if its content is not the default.        *)

RECURSIVE Shown(_)
Shown(o) ==
    LET Empty(type) == Shown(New(type))
        Content(f) ==
            CASE Kind(o.of, f) = "many" ->
                    [i \in 1 .. o.member[f].size |->
                       Shown(o.member[f].elements[i])]
              [] Kind(o.of, f) = "one" ->
                    IF Has(o, f) THEN Shown(Get(o, f))
                    ELSE IF o.member[f] = NULL THEN NULL
                    ELSE IF Shown(o.member[f]) = Empty(Accessor(o.of, f).of)
                    THEN NULL ELSE Shown(o.member[f])
              [] Kind(o.of, f) \in {"value", "text"} ->
                    IF Has(o, f) \/ o.member[f] # Class[o.of].SharedCtor[f]
                    THEN o.member[f] ELSE NULL
    IN  [of |-> o.of, unknown |-> o.unknown,
         fields |-> [f \in FieldsOf(o.of) |-> Content(f)]]

Values == INSTANCE Ql2Spec WITH
    Schema <- [type \in DOMAIN Class |-> Class[type].Accessors],
    sent <- meant

\* A message has the value that the calls have given it, whatever was in it
\* before: after Clear nothing of it is left, a merge overwrites, appends and
\* merges, and what was written is read, in whichever order the fields come
\* and with those that only a newer peer knows.  (A message has no extensions, see
\* Ql2Messages.)
IsValue == Values!Spec
-----------------------------------------------------------------------------
(* The accesses.                                                             *)

Accessed(o, access) ==
    LET f == access.field
    IN  CASE access.do = "set" -> Set(o, f, access.to)
          [] access.do = "mutable" -> Mutable(o, f)
          [] access.do = "add" -> Add(o, f)
          [] access.do = "clear" -> ClearField(o, f)
          [] access.do = "release" -> Released(o, f)

RECURSIVE Reached(_, _)
Reached(o, path) ==
    path # << >> =>
        LET list == Live(o.member[Head(path)])
        IN  IF Kind(o.of, Head(path)) = "one"
            THEN Reached(Get(o, Head(path)), Tail(path))
            ELSE list # << >> /\ Reached(Last(list), Tail(path))

\* A call through the mutable_ accessors of the fields of a path.
RECURSIVE Through(_, _, _)
Through(o, path, access) ==
    LET f == Head(path)
    IN  CASE path = << >> -> Accessed(o, access)
          [] path # << >> /\ Kind(o.of, f) = "one" ->
                Set(o, f, Through(Get(o, f), Tail(path), access))
          [] path # << >> /\ Kind(o.of, f) = "many" ->
                [o EXCEPT !.member[f].elements[o.member[f].size] =
                    Through(@, Tail(path), access)]

RECURSIVE Weight(_)

\* How much a message holds, what is not set or counted included.
Weight(o) ==
    LET Field(f) ==
            CASE Kind(o.of, f) = "many" ->
                    LET list == o.member[f].elements
                    IN  SumFunction([i \in DOMAIN list |-> 1 + Weight(list[i])])
              [] Kind(o.of, f) = "one" /\ o.member[f] # NULL ->
                    Weight(o.member[f]) + (IF Has(o, f) THEN 0 ELSE 1)
              [] OTHER -> 0
        table == Class[o.of].Serialize
    IN  Cardinality(o.has) + Len(o.unknown)
          + SumFunction([i \in DOMAIN table |-> Field(table[i][3])])
WeightOf(os) ==
    MapThenSumSet(LAMBDA n : Weight(os[n]), {n \in Names : os[n] # NULL})
-----------------------------------------------------------------------------
Init ==
    /\ objs = [n \in Names |-> NULL] /\ val = objs
    /\ wire = NULL /\ meant = NULL

Becomes(os) ==
    /\ WeightOf(os) <= MaxGrown
    /\ objs' = os
    /\ val' = [n \in Names |-> IF os[n] = NULL THEN NULL ELSE Shown(os[n])]
    /\ wire' = NULL /\ meant' = NULL

Change(n, o) == Becomes([objs EXCEPT ![n] = o])

\* Nothing is written that has not been read or lost: a bound.
Free(n) == wire = NULL /\ ~Is(n)
Owns(n) == wire = NULL /\ Is(n)

\* One message is not made beside another one of another type: a bound.
Make(n) ==
    /\ Free(n)
    /\ \E type \in Types :
          /\ \A m \in Names : Is(m) => objs[m].of = type
          /\ Change(n, New(type))

Delete(n) == Owns(n) /\ Change(n, NULL)

Access(n) ==
    /\ Owns(n)
    /\ \E path \in Values!Paths(objs[n].of, MaxDepth) :
          /\ Reached(objs[n], path)
          /\ LET type == Values!Target(objs[n].of, path)
             IN  \E f \in FieldsOf(type) :
                 \E access \in Values!Accesses(type, f) :
                    LET os == [objs EXCEPT ![n] = Through(@, path, access)]
                    IN  WeightOf(os) <= MaxWeight /\ Becomes(os)

\* release_ of a message; the caller keeps what it returns.
Release(n, m) ==
    /\ Owns(n) /\ Free(m)
    /\ \E f \in {g \in FieldsOf(objs[n].of) : Kind(objs[n].of, g) = "one"} :
          Becomes([objs EXCEPT ![n] = Released(@, f),
                               ![m] = objs[n].member[f]])

Clear(n) == Owns(n) /\ Change(n, Cleared(objs[n]))

Alike(n, m) == Owns(n) /\ Owns(m) /\ objs[n].of = objs[m].of

MergeFrom(n, m) == Alike(n, m) /\ Change(n, Merged(objs[n], objs[m]))

CopyFrom(n, m) == Alike(n, m) /\ Change(n, Copied(objs[n], objs[m]))

Swap(n, m) ==
    /\ Alike(n, m)
    /\ Becomes([objs EXCEPT ![n] = Swapped(@, objs[m]),
                            ![m] = Swapped(@, objs[n])])

\* SerializeToString.
Serialize(n) ==
    /\ Owns(n)
    /\ wire' = [of |-> objs[n].of, tokens |-> Serialized(objs[n])]
    /\ meant' = val[n]
    /\ UNCHANGED <<objs, val>>

\* ParseFromString: the message is cleared first.
Parse(n) ==
    /\ Is(n) /\ wire # NULL /\ wire.of = objs[n].of
    /\ Change(n, Parsed(Cleared(objs[n]), wire.tokens).obj)

\* MergeFromString.
MergeParse(n) ==
    /\ Is(n) /\ wire # NULL /\ wire.of = objs[n].of
    /\ Change(n, Parsed(objs[n], wire.tokens).obj)
-----------------------------------------------------------------------------
(* The other side. What it sends may have a field that this version does not *)
(* know, may have its fields in another order, and may arrive in part.       *)

IsWhole == wire # NULL /\ meant # NULL

Extend ==
    /\ IsWhole /\ Len(meant.unknown) = 0
    /\ \E token \in Newer :
          /\ wire' = [wire EXCEPT !.tokens = Append(@, token)]
          /\ meant' = [meant EXCEPT !.unknown = Append(@, token)]
    /\ UNCHANGED <<objs, val>>

Reorder ==
    /\ IsWhole
    /\ \E i \in 1 .. Len(wire.tokens) - 1 :
          LET tokens == wire.tokens
          IN  /\ tokens[i][1] # tokens[i + 1][1]
              /\ ~{tokens[i], tokens[i + 1]} \subseteq Newer
              /\ wire' = [wire EXCEPT !.tokens[i] = tokens[i + 1],
                                      !.tokens[i + 1] = tokens[i]]
    /\ UNCHANGED <<objs, val, meant>>

Lose ==
    /\ wire # NULL
    /\ wire' = NULL /\ meant' = NULL /\ UNCHANGED <<objs, val>>

Damage ==
    /\ IsWhole
    /\ \E i \in 1 .. Len(wire.tokens), isCut \in BOOLEAN :
          LET tag == <<wire.tokens[i][1], wire.tokens[i][2]>>
              end == <<wire.tokens[i][1], EndGroup, 0>>
          IN  wire' = [wire EXCEPT !.tokens =
                         Append(SubSeq(@, 1, i - 1),
                                IF isCut THEN tag ELSE end)]
    /\ meant' = NULL
    /\ UNCHANGED <<objs, val>>

Next ==
    \/ \E n \in Names :
          \/ Make(n) \/ Delete(n) \/ Access(n) \/ Clear(n) \/ Serialize(n)
          \/ Parse(n) \/ MergeParse(n)
          \/ \E m \in Names \ {n} :
                Release(n, m) \/ MergeFrom(n, m) \/ CopyFrom(n, m) \/ Swap(n, m)
    \/ Extend \/ Reorder \/ Lose \/ Damage

Spec == Init /\ [][Next]_vars
=============================================================================
