----------------------------- MODULE MCLogRing -----------------------------
(* A small instance of LogRing for TLC. *)
EXTENDS LogRing

CONSTANTS w1, w2

MCWriters == {w1, w2}
=============================================================================
