----------------------------- MODULE MCChannel -----------------------------
(* Instances of Channel for TLC.                                             *)
EXTENDS Channel

CONSTANTS s1, s2, r1, r2, a, b

MCSenders == {s1, s2}
MCReceivers == {r1, r2}
MCValues == {a, b}
=============================================================================
