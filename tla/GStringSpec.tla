---------------------------- MODULE GStringSpec ----------------------------
(* What glim::gstring promises: a string is a value.  A call gives the string*)
(* that it is made on the value that it should, a move empties the other one,*)
(* and no other string notices.  Nothing is said here of buffers and of who  *)
(* owns them: GString.tla implements it.                                     *)
EXTENDS Integers, Sequences

CONSTANTS
    Names,      \* the variables of the program that hold strings
    Texts,      \* character sequences that come from elsewhere
    Numbers,    \* <<number, base>> that are appended
    Digit,      \* the characters of the digits: Digit[d + 1] is that of d
    Lengths     \* numbers of characters

VARIABLES
    val,        \* the values of the strings that exist
    call        \* the call that was made last

Init == val = << >> /\ call = <<"none">>

\* A number in a base, its highest digit first.
Numeral(iv, base) ==
    LET digits[v \in Nat] == (IF v < base THEN << >> ELSE digits[v \div base])
                             \o <<Digit[(v % base) + 1]>>
    IN  IF iv < 0 THEN <<"-">> \o digits[-iv] ELSE digits[iv]

Give(n, v) == val' = [x \in DOMAIN val \cup {n} |-> IF x = n THEN v ELSE val[x]]

Make(n, v) == call' = <<"make", n, v>> /\ n \notin DOMAIN val /\ Give(n, v)
Copy(n, m) == call' = <<"copy", n, m>> /\ Give(n, val[m])
Move(n, m) ==
    /\ call' = <<"move", n, m>>
    /\ val' = [x \in DOMAIN val \cup {n} |->
                 CASE x = n -> val[m] [] x = m -> << >> [] OTHER -> val[x]]
View(n, m, pos, count) ==
    /\ call' = <<"view", n, m, pos, count>> /\ n \notin DOMAIN val
    /\ Give(n, SubSeq(val[m], pos + 1, pos + count))
End(n) == call' = <<"end", n>> /\ val' = [x \in DOMAIN val \ {n} |-> val[x]]

Add(n, v) == call' = <<"add", n, v>> /\ Give(n, val[n] \o v)
AddString(n, m) == call' = <<"addString", n, m>> /\ Give(n, val[n] \o val[m])
AddNumber(n, iv, base) == call' = <<"addNumber", n, iv, base>> /\ Give(n, val[n] \o Numeral(iv, base))

Fill(n, v) == call' = <<"fill", n, v>> /\ Give(n, v)
Cut(n, len) == call' = <<"cut", n, len>> /\ Give(n, SubSeq(val[n], 1, len))
Set(n, i, c) == call' = <<"set", n, i, c>> /\ Give(n, [val[n] EXCEPT ![i + 1] = c])
Erase(n, pos, count) ==
    /\ call' = <<"erase", n, pos, count>>
    /\ Give(n, SubSeq(val[n], 1, pos) \o SubSeq(val[n], pos + count + 1, Len(val[n])))

\* What is about the buffer only.
Same(n) == call' = <<"same", n>> /\ UNCHANGED val

Next ==
    \/ \E n \in Names, v \in Texts \cup {<< >>} : Make(n, v)
    \/ \E n \in Names, m \in DOMAIN val :
          \/ Copy(n, m) \/ Move(n, m)
          \/ \E pos, count \in Lengths : View(n, m, pos, count)
    \/ \E n \in DOMAIN val :
          \/ End(n) \/ Same(n)
          \/ \E v \in Texts : Add(n, v) \/ Fill(n, v)
          \/ \E m \in DOMAIN val : AddString(n, m)
          \/ \E q \in Numbers : AddNumber(n, q[1], q[2])
          \/ \E i \in Lengths :
                \/ Cut(n, i)
                \/ \E v \in Texts : Len(v) = 1 /\ Set(n, i, v[1])
                \/ \E count \in Lengths : Erase(n, i, count)

Spec == Init /\ [][Next]_<<val, call>>
=============================================================================
