--------------------------- MODULE MCCBCoroStacks ---------------------------
(* An instance of CBCoroStacks for TLC.                                      *)
EXTENDS CBCoroStacks

CONSTANTS t1, t2, t3, o1, o2, s1, s2, s3

TwoThreads == {t1, t2}
ThreeThreads == {t1, t2, t3}
TwoOthers == {o1, o2}
ThreeStacks == {s1, s2, s3}
UpToTwo == 0 .. 2
=============================================================================
