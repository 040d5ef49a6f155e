----------------------------- MODULE MCSqlite ------------------------------
(* Instances of Sqlite for TLC.                                              *)
EXTENDS Sqlite, TLC

CONSTANTS t1, t2, q1, q2, s1, s2, s3

OneThread == {t1}
TwoThreads == {t1, t2}
OneQuery == {q1}
TwoQueries == {q1, q2}
TwoStatements == {s1, s2}
ThreeStatements == {s1, s2, s3}
=============================================================================
