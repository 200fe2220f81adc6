--------------------------- MODULE MCShmTransport ---------------------------
(* Small instances of ShmTransport for TLC. *)
EXTENDS ShmTransport, TLC

CONSTANTS s1, s2, b1, b2

TwoSenders == {s1, s2}
TwoBlocks == {b1, b2}

\* States in which the free list is torn are checked, and not gone on from.
Whole == "torn" \notin mishaps

SenderSymmetry == Permutations(TwoSenders)
=============================================================================
