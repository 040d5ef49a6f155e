------------------------------- MODULE MCMdb -------------------------------
(* Instances of Mdb for TLC.                                                 *)
EXTENDS Mdb, TLC

CONSTANTS t1, t2, i1, i2

\* A key with two values, of which another key has one.
ThreePairs == {<<1, 1>>, <<1, 2>>, <<2, 1>>}

AllThreads == {t1, t2}
OneIndex == {i1}
TwoIndexes == {i1, i2}

\* getTriggerName() of SimpleIndexTrigger is not the one that setTrigger calls.
DefaultName == [ix \in Indexes |-> 0]

Symmetric == Permutations(AllThreads)
=============================================================================
