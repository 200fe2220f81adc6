---------------------------- MODULE ShmTransport ----------------------------
(***************************************************************************)
(* The zero-copy path to another node of the host (nos_shm.c with          *)
(* nos_ipc_send_enqueue_shm and the SHM_EVENT case of                      *)
(* nos_ipc_recv_handler): a sender takes a block from the lock-free free   *)
(* list, counts a reference for the queue, puts the block into the         *)
(* receiving node's queue and rings it over the link; the receiver's link  *)
(* thread drains the queue into the mailbox of a worker thread, and        *)
(* whoever drops a block's last reference pushes it back on the list.      *)
(*                                                                         *)
(* Each action is one access to a word of the shared segment that others   *)
(* access, with what the process does to its own memory around it.  The    *)
(* link carries nothing but the SHM_EVENT packets and stays up.            *)
(*                                                                         *)
(* Two things the code does not prevent are recorded in mishaps and left   *)
(* to happen: a pop that takes effect although its block left the list and *)
(* came back since its link was read (the swap compares offsets alone),    *)
(* and a claim of a slot of a full queue after an old look at the head.    *)
(***************************************************************************)
EXTENDS Integers, Sequences, FiniteSets

CONSTANTS
    Senders,    \* threads of any node that send to this one
    Link,       \* the thread of the receiving node that serves its links
    Worker,     \* the thread of the receiving node that handles messages
    Blocks,
    QueueSize,  \* NOS_SHM_QUEUE_SIZE; one slot stays free
    None        \* no block (offset 0)

Procs == Senders \cup {Link, Worker}

\* 16 MB hold 3962 blocks and the queue 4096 offsets.
ASSUME ShmAssumption ==
    /\ IsFiniteSet(Blocks) /\ Blocks # {} /\ Cardinality(Blocks) < QueueSize
    /\ QueueSize \in Nat
    /\ None \notin Blocks
    /\ IsFiniteSet(Senders)
    /\ Link \notin Senders /\ Worker \notin Senders /\ Link # Worker

VARIABLES
    free_list_head, next_free, ref_count, total_allocated,
    head, tail, offsets,   \* the receiving node's queue
    edge,                  \* its link's descriptor is ready (edge-triggered)
    inbox,                 \* how often each block is in the worker's mailbox
    pc, blk,               \* where each thread is, and its block
    seen, next,            \* what it has read: a head or tail, a next_free
    again,                 \* the senders with a second reference to drop
    accepted,              \* history: the blocks whose slot was claimed and
                           \* that were not received yet, in that order
    mishaps                \* history: "torn", "overrun"

pool == <<free_list_head, next_free, ref_count, total_allocated>>
queue == <<head, tail, offsets>>
locals == <<pc, blk, seen, next, again>>
history == <<accepted, mishaps>>
vars == <<pool, queue, edge, inbox, locals, history>>

\* init_shm_pool: the blocks are linked in the order of their offsets.
Linked(s) ==
    /\ free_list_head = s[1]
    /\ next_free = [b \in Blocks |->
          LET i == CHOOSE j \in DOMAIN s : s[j] = b
          IN  IF i = Len(s) THEN None ELSE s[i + 1]]

Init ==
    /\ Linked(CHOOSE s \in [1 .. Cardinality(Blocks) -> Blocks] :
                  \A i, j \in DOMAIN s : s[i] = s[j] => i = j)
    /\ ref_count = [b \in Blocks |-> 0] /\ total_allocated = 0
    /\ head = 0 /\ tail = 0 /\ offsets = [i \in 0 .. QueueSize - 1 |-> None]
    /\ edge = FALSE /\ inbox = [b \in Blocks |-> 0]
    /\ pc = [p \in Procs |-> "idle"]
    /\ blk = [p \in Procs |-> None]
    /\ seen = [p \in Procs |-> None] /\ next = [p \in Procs |-> None]
    /\ again = {}
    /\ accepted = <<>> /\ mishaps = {}

Goto(p, from, to) == pc[p] = from /\ pc' = [pc EXCEPT ![p] = to]
Count(b, n) == ref_count' = [ref_count EXCEPT ![b] = @ + n]
After(i) == (i + 1) % QueueSize

RestIdle(p) == "idle"   \* faulty variant: one message per event

\* Where a thread goes on when it is done with a block: the link thread drains
\* the queue until it is empty.
Rest(p) == IF p = Link THEN "drain" ELSE "idle"

\* The end of nos_shm_buffer_release: a sender whose message the queue refused
\* has dropped the queue's reference and drops its own next.
Leave(p) ==
    /\ pc' = [pc EXCEPT ![p] = IF p \in again THEN "release" ELSE Rest(p)]
    /\ blk' = [blk EXCEPT ![p] = IF p \in again THEN @ ELSE None]
    /\ again' = again \ {p}
-----------------------------------------------------------------------------
(* nos_shm_buffer_alloc; a list that is empty sends the caller elsewhere. *)

AllocRead(p) ==
    /\ p \in Senders /\ Goto(p, "idle", "next")
    /\ free_list_head # None
    /\ seen' = [seen EXCEPT ![p] = free_list_head]
    /\ UNCHANGED <<pool, queue, edge, inbox, blk, next, again, history>>

AllocNext(p) ==
    /\ Goto(p, "next", "pop")
    /\ next' = [next EXCEPT ![p] = next_free[seen[p]]]
    /\ UNCHANGED <<pool, queue, edge, inbox, blk, seen, again, history>>

\* The swap succeeds when the head is the block that was read, whatever
\* happened to it in between: its link may be another one by now, and the list
\* is torn.
AllocSwap(p) ==
    /\ Goto(p, "pop", "count")
    /\ free_list_head = seen[p] /\ free_list_head' = next[p]
    /\ mishaps' = mishaps \cup IF next[p] = next_free[seen[p]] THEN {} ELSE {"torn"}
    /\ blk' = [blk EXCEPT ![p] = seen[p]]
    /\ seen' = [seen EXCEPT ![p] = None] /\ next' = [next EXCEPT ![p] = None]
    /\ UNCHANGED <<next_free, ref_count, total_allocated, queue, edge, inbox, again,
                   accepted>>

\* It fails: once more from the start.
AllocRetry(p) ==
    /\ Goto(p, "pop", "idle")
    /\ free_list_head # seen[p]
    /\ seen' = [seen EXCEPT ![p] = None] /\ next' = [next EXCEPT ![p] = None]
    /\ UNCHANGED <<pool, queue, edge, inbox, blk, again, history>>

AllocCount(p) ==
    /\ Goto(p, "count", "fresh")
    /\ total_allocated' = total_allocated + 1
    /\ UNCHANGED <<free_list_head, next_free, ref_count, queue, edge, inbox, blk, seen,
                   next, again, history>>

\* The block starts with one reference, the caller's.
AllocFresh(p) ==
    /\ Goto(p, "fresh", "retain")
    /\ ref_count' = [ref_count EXCEPT ![blk[p]] = 1]
    /\ UNCHANGED <<free_list_head, next_free, total_allocated, queue, edge, inbox, blk,
                   seen, next, again, history>>
-----------------------------------------------------------------------------
(* nos_ipc_send_enqueue_shm and nos_shm_mpsc_enqueue *)

RetainNever(p) ==   \* faulty variant: no reference for the queue
    /\ Goto(p, "retain", "enqueue")
    /\ UNCHANGED <<pool, queue, edge, inbox, blk, seen, next, again, history>>

\* The queue's reference is counted before the block can be received.
Retain(p) ==
    /\ Goto(p, "retain", "enqueue")
    /\ Count(blk[p], 1)
    /\ UNCHANGED <<free_list_head, next_free, total_allocated, queue, edge, inbox,
                   blk, seen, next, again, history>>

EnqueueRead(p) ==
    /\ Goto(p, "enqueue", "look")
    /\ seen' = [seen EXCEPT ![p] = tail]
    /\ UNCHANGED <<pool, queue, edge, inbox, blk, next, again, history>>

\* "Queue full", by a tail that may be old: the queue's reference is to be
\* dropped, and then the sender's own.
EnqueueBusy(p) ==
    /\ Goto(p, "look", "release")
    /\ After(seen[p]) = head
    /\ again' = again \cup {p}
    /\ seen' = [seen EXCEPT ![p] = None]
    /\ UNCHANGED <<pool, queue, edge, inbox, blk, next, history>>

EnqueueLook(p) ==
    /\ Goto(p, "look", "claim")
    /\ After(seen[p]) # head
    /\ UNCHANGED <<pool, queue, edge, inbox, blk, seen, next, again, history>>

EnqueueClaimBlind(p) ==   \* faulty variant: a store instead of the swap
    /\ Goto(p, "claim", "store")
    /\ tail' = After(seen[p])
    /\ accepted' = Append(accepted, blk[p])
    /\ UNCHANGED <<pool, head, offsets, edge, inbox, blk, seen, next, again, mishaps>>

\* The swap succeeds when the tail is the one that was read; the look at the
\* head may be older than a whole lap of the tail, and the queue full.
EnqueueClaim(p) ==
    /\ Goto(p, "claim", "store")
    /\ tail = seen[p] /\ tail' = After(tail)
    /\ mishaps' = mishaps \cup IF After(tail) = head THEN {"overrun"} ELSE {}
    /\ accepted' = Append(accepted, blk[p])
    /\ UNCHANGED <<pool, head, offsets, edge, inbox, blk, seen, next, again>>

EnqueueRetry(p) ==
    /\ Goto(p, "claim", "enqueue")
    /\ tail # seen[p]
    /\ seen' = [seen EXCEPT ![p] = None]
    /\ UNCHANGED <<pool, queue, edge, inbox, blk, next, again, history>>

EnqueueStore(p) ==
    /\ Goto(p, "store", "signal")
    /\ offsets' = [offsets EXCEPT ![seen[p]] = blk[p]]
    /\ seen' = [seen EXCEPT ![p] = None]
    /\ UNCHANGED <<pool, head, tail, edge, inbox, blk, next, again, history>>

\* The SHM_EVENT packet arrives at the receiver.
Signal(p) ==
    /\ Goto(p, "signal", "release")
    /\ edge' = TRUE
    /\ UNCHANGED <<pool, queue, inbox, blk, seen, next, again, history>>
-----------------------------------------------------------------------------
(* nos_shm_buffer_release *)

Release(p) ==
    /\ pc[p] = "release"
    /\ Count(blk[p], -1)
    /\ IF ref_count[blk[p]] = 1
       THEN pc' = [pc EXCEPT ![p] = "push"] /\ UNCHANGED <<blk, again>>
       ELSE Leave(p)
    /\ UNCHANGED <<free_list_head, next_free, total_allocated, queue, edge, inbox,
                   seen, next, history>>

\* The list's head is read and linked behind the block.
PushRead(p) ==
    /\ Goto(p, "push", "swap")
    /\ seen' = [seen EXCEPT ![p] = free_list_head]
    /\ next_free' = [next_free EXCEPT ![blk[p]] = free_list_head]
    /\ UNCHANGED <<free_list_head, ref_count, total_allocated, queue, edge, inbox,
                   blk, next, again, history>>

PushSwapBlind(p) ==   \* faulty variant: a store instead of the swap
    /\ Goto(p, "swap", "discount")
    /\ free_list_head' = blk[p]
    /\ seen' = [seen EXCEPT ![p] = None]
    /\ UNCHANGED <<next_free, ref_count, total_allocated, queue, edge, inbox, blk, next,
                   again, history>>

PushSwap(p) ==
    /\ Goto(p, "swap", "discount")
    /\ free_list_head = seen[p] /\ free_list_head' = blk[p]
    /\ seen' = [seen EXCEPT ![p] = None]
    /\ UNCHANGED <<next_free, ref_count, total_allocated, queue, edge, inbox, blk, next,
                   again, history>>

PushRetry(p) ==
    /\ Goto(p, "swap", "push")
    /\ free_list_head # seen[p]
    /\ seen' = [seen EXCEPT ![p] = None]
    /\ UNCHANGED <<pool, queue, edge, inbox, blk, next, again, history>>

PushCountNever(p) ==   \* faulty variant: the block stays counted
    /\ pc[p] = "discount" /\ Leave(p)
    /\ UNCHANGED <<pool, queue, edge, inbox, seen, next, history>>

PushCount(p) ==
    /\ pc[p] = "discount" /\ Leave(p)
    /\ total_allocated' = total_allocated - 1
    /\ UNCHANGED <<free_list_head, next_free, ref_count, queue, edge, inbox, seen, next,
                   history>>
-----------------------------------------------------------------------------
(* The receiving node: nos_shm_mpsc_dequeue in the loop of                  *)
(* nos_ipc_recv_handler, and a worker thread.                               *)

Event ==
    /\ Goto(Link, "idle", "drain")
    /\ edge /\ edge' = FALSE
    /\ UNCHANGED <<pool, queue, inbox, blk, seen, next, again, history>>

DequeueEmpty ==
    /\ Goto(Link, "drain", "idle")
    /\ head = tail
    /\ UNCHANGED <<pool, queue, edge, inbox, blk, seen, next, again, history>>

\* The consumer spins on a slot that is claimed but not stored; then it reads
\* and clears it, ...
Dequeue ==
    /\ Goto(Link, "drain", "advance")
    /\ head # tail /\ offsets[head] # None
    /\ blk' = [blk EXCEPT ![Link] = offsets[head]]
    /\ offsets' = [offsets EXCEPT ![head] = None]
    /\ UNCHANGED <<pool, head, tail, edge, inbox, seen, next, again, history>>

\* ... and gives it back to the producers.
Advance ==
    /\ Goto(Link, "advance", "deliver")
    /\ head' = After(head)
    /\ accepted' = SubSeq(accepted, 2, Len(accepted))
    /\ UNCHANGED <<pool, tail, offsets, edge, inbox, blk, seen, next, again, mishaps>>

\* nos_service_msg_send: the mailbox takes a reference of its own ...
Deliver ==
    /\ Goto(Link, "deliver", "release")
    /\ Count(blk[Link], 1)
    /\ inbox' = [inbox EXCEPT ![blk[Link]] = @ + 1]
    /\ UNCHANGED <<free_list_head, next_free, total_allocated, queue, edge, blk,
                   seen, next, again, history>>

\* ... unless it is full or no service has that number.
Undeliverable ==
    /\ Goto(Link, "deliver", "release")
    /\ UNCHANGED <<pool, queue, edge, inbox, blk, seen, next, again, history>>

\* The worker handles a message and then drops the mailbox's reference.
Handle(b) ==
    /\ Goto(Worker, "idle", "release")
    /\ inbox[b] > 0 /\ inbox' = [inbox EXCEPT ![b] = @ - 1]
    /\ blk' = [blk EXCEPT ![Worker] = b]
    /\ UNCHANGED <<pool, queue, edge, seen, next, again, history>>
-----------------------------------------------------------------------------
Send(p) ==
    \/ AllocRead(p) \/ AllocNext(p) \/ AllocSwap(p) \/ AllocRetry(p)
    \/ AllocCount(p) \/ AllocFresh(p)
    \/ Retain(p) \/ EnqueueRead(p) \/ EnqueueBusy(p) \/ EnqueueLook(p)
    \/ EnqueueClaim(p) \/ EnqueueRetry(p) \/ EnqueueStore(p) \/ Signal(p)

GiveBack(p) ==
    Release(p) \/ PushRead(p) \/ PushSwap(p) \/ PushRetry(p) \/ PushCount(p)

Receive == Event \/ DequeueEmpty \/ Dequeue \/ Advance \/ Deliver \/ Undeliverable

Next ==
    \/ \E p \in Senders : Send(p)
    \/ \E p \in Procs : GiveBack(p)
    \/ Receive
    \/ \E b \in Blocks : Handle(b)

Spec == Init /\ [][Next]_vars
-----------------------------------------------------------------------------
(* Properties. *)

Slots == 0 .. QueueSize - 1

\* Types of the segment's fields and of the threads' locals.  Until the list
\* is torn a block has at most three references, and total_allocated, which is
\* updated apart from the list, is no more than the threads off the mark.
TypeOK ==
    /\ free_list_head \in Blocks \cup {None}
    /\ next_free \in [Blocks -> Blocks \cup {None}]
    /\ ref_count \in [Blocks -> Int] /\ total_allocated \in Int
    /\ "torn" \notin mishaps =>
          /\ ref_count \in [Blocks -> 0 .. 3]
          /\ total_allocated \in 0 .. Cardinality(Blocks) + Cardinality(Procs)
    /\ head \in Slots /\ tail \in Slots
    /\ offsets \in [Slots -> Blocks \cup {None}]
    /\ edge \in BOOLEAN /\ inbox \in [Blocks -> Nat]
    /\ pc \in [Procs -> {"idle", "next", "pop", "count", "fresh", "retain", "enqueue",
                         "look", "claim", "store", "signal", "release", "push", "swap",
                         "discount", "drain", "advance", "deliver"}]
    /\ blk \in [Procs -> Blocks \cup {None}]
    /\ seen \in [Procs -> Blocks \cup Slots \cup {None}]
    /\ next \in [Procs -> Blocks \cup {None}]
    /\ again \subseteq Senders
    /\ accepted \in Seq(Blocks) /\ mishaps \subseteq {"torn", "overrun"}

\* The blocks reached from the head of the free list in n steps or fewer.
Reached[n \in 0 .. Cardinality(Blocks)] ==
    IF n = 0 THEN {free_list_head} \ {None}
    ELSE (Reached[n - 1] \cup {next_free[b] : b \in Reached[n - 1]}) \ {None}

Free == Reached[Cardinality(Blocks)]

\* The references to a block: those of the threads, that of a sender for the
\* queue while the queue does not have it, the queue's and the mailbox's.
Holders(b) ==
    {p \in Procs : blk[p] = b /\ pc[p] \in {"retain", "enqueue", "look", "claim",
                                            "store", "signal", "release", "deliver"}}
Lent(b) ==
    {p \in Procs : blk[p] = b /\ (pc[p] \in {"enqueue", "look", "claim"} \/ p \in again)}
Queued(b) == {i \in DOMAIN accepted : accepted[i] = b}

References(b) ==
    Cardinality(Holders(b)) + Cardinality(Lent(b)) + Cardinality(Queued(b)) + inbox[b]

\* ref_count, the "cross-process atomic reference count" (nos_shm.h:29), is
\* the number of references there are, so that no block is pushed back while a
\* process of another node still uses it: until the list is torn.
RefsCounted == "torn" \notin mishaps => \A b \in Blocks : ref_count[b] = References(b)

\* The threads that have a block on its way from the list or back to it, and
\* those whose pop or push total_allocated does not show yet.
Carriers(b) == {p \in Procs : blk[p] = b /\ pc[p] \in {"push", "swap", "count", "fresh"}}
Popped == {p \in Procs : pc[p] = "count"}
Pushed == {p \in Procs : pc[p] = "discount"}

\* A block is on the free list, or in use, or on its way in the hands of one
\* thread; none is lost from the list, and total_allocated is the number of
\* those that are not on it but for the threads between the list and the
\* counter: until the list is torn.
BlockInOnePlace ==
    "torn" \notin mishaps =>
        /\ \A b \in Blocks :
              LET carried == Cardinality(Carriers(b))
              IN  IF b \in Free THEN carried = 0 /\ References(b) = 0
                  ELSE IF References(b) = 0 THEN carried = 1 ELSE carried = 0
        /\ total_allocated
              = Cardinality(Blocks \ Free) - Cardinality(Popped) + Cardinality(Pushed)

\* From head to tail the slots hold the accepted blocks in the order in which
\* the slots were claimed; a slot whose sender has not stored its block yet,
\* and every other slot, is clear.
InOrder ==
    /\ Len(accepted) = (tail - head) % QueueSize
    /\ \A i \in DOMAIN accepted :
          LET slot == (head + i - 1) % QueueSize
          IN  \/ offsets[slot] = accepted[i]
              \/ /\ offsets[slot] = None
                 /\ \E p \in Senders : pc[p] = "store" /\ seen[p] = slot /\ blk[p] = accepted[i]
              \/ i = 1 /\ pc[Link] = "advance" /\ blk[Link] = accepted[1] /\ offsets[slot] = None
    /\ \A i \in Slots :
          (i - head) % QueueSize >= (tail - head) % QueueSize => offsets[i] = None

\* The queue is first-in first-out, whatever becomes of the free list, until a
\* sender claims a slot of a full queue; and that cannot happen while each
\* block is in the queue at most once, for there are more slots than blocks.
QueueIsFifo ==
    /\ "overrun" \notin mishaps => InOrder
    /\ "overrun" \in mishaps => "torn" \in mishaps

\* No block waits in the queue while the link thread sleeps, unless a sender
\* is about to ring.
NoneStranded ==
    ("overrun" \notin mishaps /\ accepted # <<>> /\ pc[Link] = "idle") =>
        edge \/ \E p \in Senders : pc[p] \in {"store", "signal"}

=============================================================================
