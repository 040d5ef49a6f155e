----------------------------- MODULE MCGString -----------------------------
(* Instances of GString for TLC.                                             *)
EXTENDS GString, TLC

CONSTANTS a, b, c, b1, b2, b3, stack, literal

AllNames == {a, b, c}
TwoNames == {a, b}
AllBlocks == {b1, b2, b3}
TwoBlocks == {b1, b2}
OneStack == {stack}
OneLiteral == {literal}

\* A buffer of three bytes, of which two are used, and a literal of one.
TheStatic == stack :> <<Junk, Junk, Junk>> @@ literal :> <<"1">>
TheTexts == {<<"x">>}
TheNumbers == {<<-1, 10>>}
TheDigits == <<"0", "1", "2", "3", "4", "5", "6", "7", "8", "9">>

\* One that two bytes hold, one that they do not, one that nothing holds, and none.
TheTimes == {<<"x">>, <<"x", "x", "x", "x">>, << >>}

\* Bytes that no string reaches are not told apart: whoever reads them has
\* written them before.
Seen ==
    <<str, [x \in DOMAIN mem |-> [i \in DOMAIN mem[x] |->
        IF \E n \in Alive : str[n].at = x /\ i - str[n].off \in 1 .. str[n].len THEN mem[x][i] ELSE Junk]]>>

Symmetric == Permutations(AllBlocks) \cup Permutations(AllNames)
=============================================================================
