---------------------------- MODULE MCBufferPool ----------------------------
(* A small instance of BufferPool for TLC. *)
EXTENDS BufferPool

CONSTANTS h1, h2, h3

\* Two bins: two chunks of 2 units and one of 4.
MCChunkSize == <<2, 4>>
MCChunkCount == <<2, 1>>
MCHolders == {h1, h2, h3}
MCSizes == {0, 1, 3}
MCSteps == {1, 2}
=============================================================================
