------------------------------- MODULE MCQl2 -------------------------------
EXTENDS Ql2

CONSTANTS a, b

TwoNames == {a, b}
Renamings == Permutations(TwoNames)

AllTypes == DOMAIN Class

FewSettings == [
    type |-> {2}, token |-> {300}, obsolete_noreply |-> {0}, pos |-> {-1},
    opt |-> {"a"}, key |-> {"a"}, r_bool |-> {0}, r_num |-> {7}, r_str |-> {"a"}]

\* A field that no message has, and a value that no enumeration has.
NewerFields == {<<9999, Varint, 300>>, <<1, Varint, 99>>}
=============================================================================
