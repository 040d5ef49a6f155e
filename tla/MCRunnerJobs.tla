---------------------------- MODULE MCRunnerJobs ---------------------------
(* Instances of RunnerJobs for TLC.                                          *)
EXTENDS RunnerJobs

CONSTANTS n1, n2, r1, r2, j1, j2, j3, l1, l2, s1, s2

OneName == {n1}
OneRand == {r1}
TwoRands == {r1, r2}
TwoJobs == {j1, j2}
ThreeJobs == {j1, j2, j3}
OneLooper == {l1}
TwoLoopers == {l1, l2}
OneScheduler == {s1}
TwoSchedulers == {s1, s2}
=============================================================================
