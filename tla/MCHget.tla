------------------------------- MODULE MCHget ------------------------------
(* Instances of Hget for TLC: a _nextUrl of two bits instead of eight.       *)
EXTENDS Hget

UpToFive == 1 .. 5
=============================================================================
