------------------------------ MODULE Ql2Spec ------------------------------
(* What the messages of the protocol are to those who use them: values. A    *)
(* field of a message is set or it is not, a list has elements, and what a   *)
(* newer peer has sent and the message does not know is kept. Reading what   *)
(* was written gives the value that was written.                             *)
EXTENDS Integers, Sequences

CONSTANTS
    Names,      \* the variables of the program that hold messages
    Schema,     \* the fields of each message: their kinds, and what they hold
    Settings,    \* the values that a field is set to
    MaxDepth,   \* how far into a message a call reaches
    NULL        \* no message, and the content of a field that is not set

VARIABLES
    val,        \* the message that each name holds
    sent        \* the message that was serialized last, or NULL

vars == <<val, sent>>

Kind(type, f) == Schema[type][f].kind

Empty(type) ==
    [of |-> type, unknown |-> << >>,
     fields |-> [f \in DOMAIN Schema[type] |->
                    IF Kind(type, f) = "many" THEN << >> ELSE NULL]]

\* A merge overwrites what is set, appends to the lists and merges what is
\* itself a message.
RECURSIVE Merged(_, _)
Merged(v, w) ==
    [v EXCEPT
        !.unknown = @ \o w.unknown,
        !.fields = [f \in DOMAIN @ |->
            CASE Kind(v.of, f) = "many" -> @[f] \o w.fields[f]
              [] Kind(v.of, f) # "many" /\ w.fields[f] = NULL -> @[f]
              [] Kind(v.of, f) = "one" /\ w.fields[f] # NULL /\ @[f] # NULL ->
                    Merged(@[f], w.fields[f])
              [] OTHER -> w.fields[f]]]
-----------------------------------------------------------------------------
(* The accesses to a field: what is done, to which field, with which value.  *)

Access(what, f, x) == [do |-> what, field |-> f, to |-> x]

Accesses(type, f) ==
    LET If(kinds, accesses) == IF Kind(type, f) \in kinds THEN accesses ELSE {}
    IN  If({"value", "text"}, {Access("set", f, x) : x \in Settings[f]})
          \cup If({"text", "one"}, {Access("mutable", f, NULL)})
          \cup If({"many"}, {Access("add", f, NULL)})
          \cup If({"text"}, {Access("release", f, NULL)})
          \cup {Access("clear", f, NULL)}

\* The value of a field after an access.
Accessed(type, access, old) ==
    LET field == Schema[type][access.field]
    IN  CASE access.do = "set" -> access.to
          [] access.do = "add" -> Append(old, Empty(field.of))
          [] access.do = "mutable" /\ old # NULL -> old
          [] access.do = "mutable" /\ old = NULL ->
                IF field.kind = "one" THEN Empty(field.of) ELSE ""
          [] access.do \in {"clear", "release"} ->
                IF field.kind = "many" THEN << >> ELSE NULL

\* The ways into a message, through messages and the last elements of lists.
RECURSIVE Paths(_, _)
Paths(type, depth) ==
    {<< >>} \cup
    (IF depth = 0 THEN {}
     ELSE UNION {{<<f>> \o path : path \in Paths(Schema[type][f].of, depth - 1)} :
                   f \in {g \in DOMAIN Schema[type] :
                            Kind(type, g) \in {"one", "many"}}})

\* The type of the message at the end of a path.
RECURSIVE Target(_, _)
Target(type, path) ==
    IF path = << >> THEN type
    ELSE Target(Schema[type][Head(path)].of, Tail(path))

RECURSIVE Reached(_, _)
Reached(v, path) ==
    path # << >> =>
        LET old == v.fields[Head(path)]
            type == Schema[v.of][Head(path)].of
        IN  IF Kind(v.of, Head(path)) = "one"
            THEN Reached(IF old = NULL THEN Empty(type) ELSE old, Tail(path))
            ELSE old # << >> /\ Reached(old[Len(old)], Tail(path))

RECURSIVE Through(_, _, _)
Through(v, path, access) ==
    IF path = << >>
    THEN [v EXCEPT !.fields[access.field] = Accessed(v.of, access, @)]
    ELSE [v EXCEPT !.fields[Head(path)] =
            IF Kind(v.of, Head(path)) = "many"
            THEN [@ EXCEPT ![Len(@)] = Through(@, Tail(path), access)]
            ELSE Through(IF @ = NULL THEN Empty(Schema[v.of][Head(path)].of)
                         ELSE @, Tail(path), access)]
-----------------------------------------------------------------------------
Init == val = [n \in Names |-> NULL] /\ sent = NULL

\* What was sent is forgotten, or it can be received again.
Becomes(n, v) == val' = [val EXCEPT ![n] = v] /\ sent' \in {sent, NULL}

New(n) == val[n] = NULL /\ \E type \in DOMAIN Schema : Becomes(n, Empty(type))

Change(n) ==
    /\ val[n] # NULL
    /\ \E path \in Paths(val[n].of, MaxDepth) :
          /\ Reached(val[n], path)
          /\ LET type == Target(val[n].of, path)
             IN  \E f \in DOMAIN Schema[type] : \E access \in Accesses(type, f) :
                    Becomes(n, Through(val[n], path, access))

\* A message is taken out of the field of another. What is taken out of a
\* field that is not set is nothing, or an empty message.
Release(n, m) ==
    /\ val[n] # NULL /\ val[m] = NULL
    /\ \E f \in {g \in DOMAIN Schema[val[n].of] : Kind(val[n].of, g) = "one"} :
          \E v \in (IF val[n].fields[f] # NULL THEN {val[n].fields[f]}
                    ELSE {NULL, Empty(Schema[val[n].of][f].of)}) :
             /\ val' = [val EXCEPT ![n].fields[f] = NULL, ![m] = v]
             /\ sent' \in {sent, NULL}

Delete(n) == val[n] # NULL /\ Becomes(n, NULL)

Clear(n) == val[n] # NULL /\ Becomes(n, Empty(val[n].of))

Alike(n, m) == val[n] # NULL /\ val[m] # NULL /\ val[n].of = val[m].of

Merge(n, m) == Alike(n, m) /\ Becomes(n, Merged(val[n], val[m]))

Copy(n, m) == Alike(n, m) /\ Becomes(n, val[m])

Swap(n, m) ==
    /\ Alike(n, m)
    /\ val' = [val EXCEPT ![n] = val[m], ![m] = val[n]]
    /\ sent' \in {sent, NULL}

Serialize(n) == val[n] # NULL /\ sent' = val[n] /\ UNCHANGED val

\* The message comes from a newer peer, which has set a field of its own.
Extend ==
    /\ sent # NULL /\ sent' # NULL
    /\ Len(sent'.unknown) = Len(sent.unknown) + 1
    /\ sent' = [sent EXCEPT !.unknown = Append(@, sent'.unknown[Len(sent'.unknown)])]
    /\ UNCHANGED val

\* What was sent arrives in part.
Lose == sent # NULL /\ sent' = NULL /\ UNCHANGED val

Receive(n) ==
    /\ val[n] # NULL /\ sent # NULL /\ val[n].of = sent.of
    /\ Becomes(n, sent) \/ Becomes(n, Merged(val[n], sent))

\* A message that did not arrive leaves some value of the type it is read into.
ReceiveInPart(n) ==
    /\ val[n] # NULL /\ sent = NULL
    /\ val'[n] # NULL /\ val'[n].of = val[n].of
    /\ Becomes(n, val'[n])

Next ==
    \/ \E n \in Names :
          \/ New(n) \/ Change(n) \/ Delete(n) \/ Clear(n) \/ Serialize(n)
          \/ Receive(n) \/ ReceiveInPart(n)
          \/ \E m \in Names \ {n} :
                Release(n, m) \/ Merge(n, m) \/ Copy(n, m) \/ Swap(n, m)
    \/ Extend \/ Lose

Spec == Init /\ [][Next]_vars
=============================================================================
