------------------------------- MODULE MCLdb -------------------------------
(* Instances of Ldb for TLC.  A char of two bits: 0 and 1, which is CHAR_MAX, *)
(* then 2 and 3, which are -2 and -1.                                        *)
EXTENDS Ldb

FiveKeys == {<<0>>, <<0, 1>>, <<0, 1, 2>>, <<1, 0>>, <<2, 3>>}

\* Prefixes of no key, one key, many keys, all keys; of keys at both ends; one
\* whose last character is CHAR_MAX, and one whose only character is.
SomePrefixes == {<< >>, <<0>>, <<0, 1>>, <<0, 2>>, <<1>>, <<2>>}
SomeRanges == {<<<<0>>, <<1>>>>, <<<<0, 1>>, <<2, 2>>>>, <<<<1>>, <<1, 0>>>>, <<<<2>>, <<3>>>>}

\* A prefix whose last character is -1, that is 0xFF, and a key before it.
MinusOne == {<<2, 3>>}
KeysOfMinusOne == {<<0>>, <<2, 1>>, <<2, 3>>, <<2, 3, 0>>}
=============================================================================
