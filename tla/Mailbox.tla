------------------------------ MODULE Mailbox ------------------------------
(***************************************************************************)
(* What a scheduler thread (nos_thread_t) promises to whoever posts        *)
(* messages to it: a bounded first-in first-out mailbox.  A post is either *)
(* accepted and queued behind everything accepted before, or refused, and  *)
(* refused only when Capacity messages are waiting.  Every waiting message *)
(* is handed to its handler exactly once, in order and one at a time, for  *)
(* as long as the mailbox is open; what still waits after it is closed is  *)
(* discarded.                                                              *)
(*                                                                         *)
(* Nothing here mentions the ring, the eventfd or the sleeping flag:       *)
(* Scheduler implements this specification with them.                      *)
(***************************************************************************)
EXTENDS Naturals, Sequences

CONSTANTS
    Callers,   \* the threads that post
    Messages,  \* what they post
    Capacity,  \* how many messages may wait, at least one
    NoMsg      \* "no message is being handled", not one of Messages

VARIABLES
    pending,   \* the accepted messages that wait, oldest first
    inhand,    \* the message whose handler runs, or NoMsg
    answer,    \* what the last post of each caller was told ("ok" at first)
    open       \* whether messages are still being handled

mvars == <<pending, inhand, answer, open>>

MInit ==
    /\ pending = <<>>
    /\ inhand = NoMsg
    /\ answer = [c \in Callers |-> "ok"]
    /\ open = TRUE

Accept(c, m) ==
    /\ Len(pending) < Capacity
    /\ pending' = Append(pending, m)
    /\ answer' = [answer EXCEPT ![c] = "ok"]
    /\ UNCHANGED <<inhand, open>>

Refuse(c) ==
    /\ Len(pending) = Capacity
    /\ answer' = [answer EXCEPT ![c] = "busy"]
    /\ UNCHANGED <<pending, inhand, open>>

\* Code running on the mailbox's own thread (a handler, a timer or descriptor
\* callback) may post as well, while the mailbox is open.
OwnPost(m) ==
    /\ open
    /\ Len(pending) < Capacity
    /\ pending' = Append(pending, m)
    /\ inhand' \in {inhand, NoMsg}
    /\ UNCHANGED <<answer, open>>

Deliver ==
    /\ open
    /\ inhand = NoMsg
    /\ pending # <<>>
    /\ inhand' = Head(pending)
    /\ pending' = Tail(pending)
    /\ UNCHANGED <<answer, open>>

Finish ==
    /\ inhand # NoMsg
    /\ inhand' = NoMsg
    /\ UNCHANGED <<pending, answer, open>>

Close ==
    /\ open
    /\ inhand = NoMsg
    /\ open' = FALSE
    /\ UNCHANGED <<pending, inhand, answer>>

Discard ==
    /\ ~open
    /\ pending' = <<>>
    /\ UNCHANGED <<inhand, answer, open>>

MNext ==
    \/ \E c \in Callers : Refuse(c) \/ \E m \in Messages : Accept(c, m)
    \/ \E m \in Messages : OwnPost(m)
    \/ Deliver \/ Finish \/ Close \/ Discard

MSpec == MInit /\ [][MNext]_mvars
=============================================================================
