---------------------------- MODULE MCScheduler ----------------------------
(* A small instance of Scheduler for TLC. *)
EXTENDS Scheduler

CONSTANTS c1, request, reply, tick

OneCaller == {c1}
OneRequest == {request}
OneReply == {reply}
OneTimer == {tick}
=============================================================================
