------------------------------ MODULE MCRunner ------------------------------
(* An instance of Runner for TLC.                                            *)
EXTENDS Runner

CONSTANTS h1, h2, n1, r1, j1, j2, s1

TwoHandles == {h1, h2}
OneName == {n1}
OneRand == {r1}
TwoJobs == {j1, j2}
OneScheduler == {s1}
=============================================================================
