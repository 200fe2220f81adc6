----------------------------- MODULE MCShmNodes -----------------------------
(* A small instance of ShmNodes for TLC. *)
EXTENDS ShmNodes

CONSTANTS n1, n2

TwoNodes == {n1, n2}
=============================================================================
