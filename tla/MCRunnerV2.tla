---------------------------- MODULE MCRunnerV2 -----------------------------
(* Instances of RunnerV2 for TLC.                                            *)
EXTENDS RunnerV2

CONSTANTS c1, c2, c3, h1, h2

TwoClients == {c1, c2}
ThreeClients == {c1, c2, c3}
OneHandle == {h1}
TwoHandles == {h1, h2}
=============================================================================
