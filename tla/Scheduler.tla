----------------------------- MODULE Scheduler -----------------------------
(***************************************************************************)
(* One scheduler thread of a node (nos_thread_t in nos_scheduler.h, run by *)
(* nos_scheduler_run_loop in nos_scheduler.c), the threads that post       *)
(* messages to it with nos_service_msg_send, and the main thread that      *)
(* stops it and tears it down.                                             *)
(*                                                                         *)
(* The thread drains a ring of messages, fires its timers and serves file  *)
(* descriptors, and sleeps in epoll_wait when there is nothing to do.  A   *)
(* poster writes the thread's eventfd only if it sees is_sleeping set, so  *)
(* the thread announces that it is going to sleep and looks at the ring    *)
(* and at stop_requested once more before it does.                         *)
(*                                                                         *)
(* Steps are as fine as the accesses to what the threads share: one        *)
(* critical section of queue_lock, one access to is_sleeping, to           *)
(* stop_requested or to the eventfd.                                       *)
(***************************************************************************)
EXTENDS Naturals

CONSTANTS
    Callers,    \* the other threads that post to this one
    Requests,   \* messages whose handler may post one message of its own
    Replies,    \* messages whose handler posts nothing
    QueueSize,  \* MAX_QUEUE_SIZE: slots of the ring
    Timers,     \* timers the components of this thread may start
    Periodic,   \* those started with is_periodic
    NoMsg       \* a NULL message pointer

Messages == Requests \cup Replies

ASSUME QueueSizeAssumption == QueueSize \in Nat /\ QueueSize >= 2
ASSUME PeriodicAssumption == Periodic \subseteq Timers
ASSUME NoMsgAssumption == NoMsg \notin Messages

VARIABLES
    msg_queue,       \* the ring; a slot keeps its pointer after it is read
    head, tail,      \* indices of the oldest message and of the next free slot
    is_sleeping,     \* 1 while posters have to write the eventfd
    stop_requested,  \* set once, by nos_scheduler_stop
    notify_fd,       \* 1 iff the eventfd is readable
    running,         \* the timers in the heap
    expired,         \* those of them whose expire_at_ms has passed
    pc,              \* where the thread is in run_loop
    path,            \* "fast" without sleeping, "slow" after epoll_wait
    events,          \* what epoll_wait returned and is not dispatched yet
    buf,             \* the message being handled, or NoMsg
    cpc,             \* where each poster is in nos_transport_local_send
    rc,              \* what its last post returned ("ok" before the first)
    mpc              \* where the main thread is in the shutdown of this thread

ring == <<msg_queue, head, tail>>
timers == <<running, expired>>
loop == <<pc, path, events, buf>>
posters == <<cpc, rc>>
stopping == <<stop_requested, mpc>>
vars == <<ring, is_sleeping, notify_fd, timers, loop, posters, stopping>>

Init ==
    /\ msg_queue = [i \in 0 .. QueueSize - 1 |-> NoMsg]
    /\ head = 0 /\ tail = 0
    /\ is_sleeping = 0 /\ stop_requested = 0 /\ notify_fd = 0
    /\ running = {} /\ expired = {}
    /\ pc = "start" /\ path = "fast" /\ events = {} /\ buf = NoMsg
    /\ cpc = [c \in Callers |-> "idle"] /\ rc = [c \in Callers |-> "ok"]
    /\ mpc = "up"
-----------------------------------------------------------------------------
(* The ring, under queue_lock. *)

NextSlotUnwrapped(i) == i + 1   \* faulty variant: no wrap-around

NextSlot(i) == (i + 1) % QueueSize

RingFullNever == FALSE   \* faulty variant: the ring is never full

RingFull == NextSlot(tail) = head

RingEmpty == head = tail

Enqueue(m) ==
    /\ ~RingFull
    /\ msg_queue' = [msg_queue EXCEPT ![tail] = m]
    /\ tail' = NextSlot(tail)
    /\ UNCHANGED head

\* A handler or callback that runs on this thread may post to this thread's
\* own ring; it finds is_sleeping clear and writes nothing.  A refused post
\* is dropped: the callers ignore what nos_service_msg_send returns.
OwnPost(M) == \/ UNCHANGED ring
              \/ \E m \in M : Enqueue(m)
-----------------------------------------------------------------------------
(* A poster: nos_transport_local_send.  The main thread has joined every    *)
(* other thread before it frees the ring, so nobody posts after that.       *)

PostEnqueue(c, m) ==
    /\ mpc # "down" /\ cpc[c] = "idle"
    /\ Enqueue(m)
    /\ cpc' = [cpc EXCEPT ![c] = "posted"]
    /\ rc' = [rc EXCEPT ![c] = "ok"]
    /\ UNCHANGED <<is_sleeping, notify_fd, timers, loop, stopping>>

PostBusy(c) ==
    /\ mpc # "down" /\ cpc[c] = "idle"
    /\ RingFull
    /\ rc' = [rc EXCEPT ![c] = "busy"]
    /\ UNCHANGED <<ring, is_sleeping, notify_fd, timers, loop, cpc, stopping>>

PostNeverWakes(c) ==   \* faulty variant: is_sleeping tested the wrong way round
    /\ cpc[c] = "posted"
    /\ cpc' = [cpc EXCEPT ![c] = IF is_sleeping = 0 THEN "wake" ELSE "idle"]
    /\ UNCHANGED <<ring, is_sleeping, notify_fd, timers, loop, rc, stopping>>

PostCheck(c) ==
    /\ cpc[c] = "posted"
    /\ cpc' = [cpc EXCEPT ![c] = IF is_sleeping = 1 THEN "wake" ELSE "idle"]
    /\ UNCHANGED <<ring, is_sleeping, notify_fd, timers, loop, rc, stopping>>

PostWake(c) ==
    /\ cpc[c] = "wake"
    /\ cpc' = [cpc EXCEPT ![c] = "idle"]
    /\ notify_fd' = 1
    /\ UNCHANGED <<ring, is_sleeping, timers, loop, rc, stopping>>
-----------------------------------------------------------------------------
(* The thread: nos_scheduler_run_loop. *)

Goto(from, to) == pc = from /\ pc' = to

\* The components' start functions, once, before the loop.  nos_timer_start
\* writes the eventfd.
StartComponents ==
    /\ Goto("start", "loop")
    /\ running' \in SUBSET Timers
    /\ notify_fd' = IF running' = {} THEN notify_fd ELSE 1
    /\ UNCHANGED <<ring, is_sleeping, expired, path, events, buf, posters, stopping>>

LoopCheck ==
    /\ pc = "loop"
    /\ pc' = IF stop_requested = 1 THEN "exited" ELSE "spin"
    /\ UNCHANGED <<ring, is_sleeping, notify_fd, timers, path, events, buf, posters, stopping>>

\* The busy-poll loop and the test that follows it: only this thread takes
\* messages out, so what any of these looks finds, the last one finds too.
Spin ==
    /\ pc = "spin"
    /\ pc' = IF RingEmpty THEN "announce" ELSE "msgs"
    /\ path' = IF RingEmpty THEN "slow" ELSE "fast"
    /\ UNCHANGED <<ring, is_sleeping, notify_fd, timers, events, buf, posters, stopping>>

Announce ==
    /\ Goto("announce", "recheck")
    /\ is_sleeping' = 1
    /\ UNCHANGED <<ring, notify_fd, timers, path, events, buf, posters, stopping>>

RecheckStopOnly ==   \* faulty variant: the ring is not looked at again
    /\ pc = "recheck"
    /\ pc' = IF stop_requested = 1 THEN "cancel" ELSE "epoll"
    /\ UNCHANGED <<ring, is_sleeping, notify_fd, timers, path, events, buf, posters, stopping>>

Recheck ==
    /\ pc = "recheck"
    /\ pc' = IF RingEmpty /\ stop_requested = 0 THEN "epoll" ELSE "cancel"
    /\ UNCHANGED <<ring, is_sleeping, notify_fd, timers, path, events, buf, posters, stopping>>

Cancel ==
    /\ Goto("cancel", "loop")
    /\ is_sleeping' = 0
    /\ UNCHANGED <<ring, notify_fd, timers, path, events, buf, posters, stopping>>

Notified == IF notify_fd = 1 THEN {"notify"} ELSE {}

EpollReturnUntimed ==   \* faulty variant: always sleeps with timeout -1
    /\ Goto("epoll", "awake")
    /\ notify_fd = 1
    /\ events' = Notified
    /\ UNCHANGED <<ring, is_sleeping, notify_fd, timers, path, buf, posters, stopping>>

\* epoll_wait returns because the eventfd is readable, or because the timeout
\* computed from the heap has elapsed (-1, for ever, when the heap is empty).
EpollReturn ==
    /\ Goto("epoll", "awake")
    /\ notify_fd = 1 \/ expired # {}
    /\ events' = Notified
    /\ UNCHANGED <<ring, is_sleeping, notify_fd, timers, path, buf, posters, stopping>>

\* It also returns when another descriptor is ready, or with EINTR when a
\* signal arrives: the environment decides.
EpollEvent ==
    /\ Goto("epoll", "awake")
    /\ events' \in {Notified \cup {"io"}, {}}
    /\ UNCHANGED <<ring, is_sleeping, notify_fd, timers, path, buf, posters, stopping>>

Awake ==
    /\ Goto("awake", "timers")
    /\ is_sleeping' = 0
    /\ UNCHANGED <<ring, notify_fd, timers, path, events, buf, posters, stopping>>

\* process_timers, one timer.  A callback may post to its own thread.
FireTimer(t) ==
    /\ pc = "timers" /\ t \in expired
    /\ expired' = expired \ {t}
    /\ running' = IF t \in Periodic THEN running ELSE running \ {t}
    /\ OwnPost(Replies)
    /\ UNCHANGED <<is_sleeping, notify_fd, loop, posters, stopping>>

TimersDone ==
    /\ pc = "timers" /\ expired = {}
    /\ pc' = IF path = "fast" THEN "poll" ELSE "dispatch"
    /\ UNCHANGED <<ring, is_sleeping, notify_fd, timers, path, events, buf, posters, stopping>>

\* The fast path's epoll_wait with timeout 0.
Poll ==
    /\ Goto("poll", "dispatch")
    /\ events' \in {Notified, Notified \cup {"io"}}
    /\ UNCHANGED <<ring, is_sleeping, notify_fd, timers, path, buf, posters, stopping>>

\* Reading the eventfd clears it.  After a sleep, the messages come next; on
\* the fast path the read is all, and the next turn of the loop finds them.
DispatchNotify ==
    /\ pc = "dispatch" /\ "notify" \in events
    /\ pc' = IF path = "slow" THEN "msgs" ELSE "dispatch"
    /\ events' = events \ {"notify"}
    /\ notify_fd' = 0
    /\ UNCHANGED <<ring, is_sleeping, timers, path, buf, posters, stopping>>

\* The callback of another descriptor, for instance nos_ipc_recv_handler,
\* which posts what a peer node sent.
DispatchIo ==
    /\ pc = "dispatch" /\ "io" \in events
    /\ events' = events \ {"io"}
    /\ OwnPost(Messages)
    /\ UNCHANGED <<is_sleeping, notify_fd, timers, pc, path, buf, posters, stopping>>

DispatchEnd ==
    /\ Goto("dispatch", "loop")
    /\ events = {}
    /\ UNCHANGED <<ring, is_sleeping, notify_fd, timers, path, events, buf, posters, stopping>>

\* process_thread_messages: take a message out under the lock...
Dequeue ==
    /\ Goto("msgs", "on_msg")
    /\ ~RingEmpty
    /\ buf' = msg_queue[head]
    /\ head' = NextSlot(head)
    /\ UNCHANGED <<msg_queue, tail, is_sleeping, notify_fd, timers, path, events, posters, stopping>>

\* ... until there is none...
DequeueEmpty ==
    /\ pc = "msgs" /\ RingEmpty
    /\ pc' = IF path = "fast" THEN "timers" ELSE "dispatch"
    /\ UNCHANGED <<ring, is_sleeping, notify_fd, timers, path, events, buf, posters, stopping>>

\* ... and hand it to the provider's on_msg.
OnMsg ==
    /\ Goto("on_msg", "msgs")
    /\ OwnPost(IF buf \in Requests THEN Replies ELSE {})
    /\ buf' = NoMsg
    /\ UNCHANGED <<is_sleeping, notify_fd, timers, path, events, posters, stopping>>
-----------------------------------------------------------------------------
(* The clock.  process_timers reads it again after every callback and goes  *)
(* on while a timer is due: a periodic timer whose interval is no longer    *)
(* than one pass would keep it there for ever.  The components use 10 s     *)
(* (model_1.c), so a periodic timer does not expire during the pass.        *)

Expire(t) ==
    /\ t \in running \ expired
    /\ pc = "timers" => t \notin Periodic
    /\ expired' = expired \cup {t}
    /\ UNCHANGED <<ring, is_sleeping, notify_fd, running, loop, posters, stopping>>
-----------------------------------------------------------------------------
(* The main thread: nos_scheduler_stop, then, once every thread is joined,   *)
(* nos_scheduler_deinit_thread, which releases what is left in the ring.     *)

StopRequest ==
    /\ mpc = "up" /\ mpc' = "stopping"
    /\ stop_requested' = 1
    /\ UNCHANGED <<ring, is_sleeping, notify_fd, timers, loop, posters>>

StopUnnotified ==   \* faulty variant: the eventfd is not written
    /\ mpc = "stopping" /\ mpc' = "joining"
    /\ UNCHANGED <<ring, is_sleeping, notify_fd, timers, loop, posters, stop_requested>>

StopNotify ==
    /\ mpc = "stopping" /\ mpc' = "joining"
    /\ notify_fd' = 1
    /\ UNCHANGED <<ring, is_sleeping, timers, loop, posters, stop_requested>>

Deinit ==
    /\ mpc = "joining" /\ mpc' = "down"
    /\ pc = "exited" /\ \A c \in Callers : cpc[c] = "idle"
    /\ head' = tail
    /\ UNCHANGED <<msg_queue, tail, is_sleeping, notify_fd, timers, loop, posters, stop_requested>>

Terminated == mpc = "down" /\ UNCHANGED vars
-----------------------------------------------------------------------------
Poster(c) == \/ \E m \in Messages : PostEnqueue(c, m)
             \/ PostBusy(c) \/ PostCheck(c) \/ PostWake(c)

Worker == \/ StartComponents \/ LoopCheck \/ Spin
          \/ Announce \/ Recheck \/ Cancel
          \/ EpollReturn \/ Awake
          \/ (\E t \in Timers : FireTimer(t)) \/ TimersDone
          \/ Poll \/ DispatchNotify \/ DispatchIo \/ DispatchEnd
          \/ Dequeue \/ DequeueEmpty \/ OnMsg

Environment == EpollEvent \/ \E t \in Timers : Expire(t)

Main == StopRequest \/ StopNotify \/ Deinit \/ Terminated

Next == (\E c \in Callers : Poster(c)) \/ Worker \/ Environment \/ Main

\* A thread that can take a step takes it: the kernel runs every thread and
\* queue_lock is held for a few instructions.  Nobody has to post, no
\* descriptor has to become ready, no timer has to expire and nobody has to
\* ask for the shutdown.
Fairness ==
    /\ WF_vars(Worker)
    /\ \A c \in Callers : WF_vars(PostCheck(c) \/ PostWake(c))
    /\ WF_vars(StopNotify) /\ WF_vars(Deinit)

Spec == Init /\ [][Next]_vars /\ Fairness
-----------------------------------------------------------------------------
(* Properties. *)

\* Every variable keeps to the values its C type and the loop allow.
TypeOK ==
    /\ msg_queue \in [0 .. QueueSize - 1 -> Messages \cup {NoMsg}]
    /\ head \in 0 .. QueueSize - 1 /\ tail \in 0 .. QueueSize - 1
    /\ is_sleeping \in {0, 1} /\ stop_requested \in {0, 1} /\ notify_fd \in {0, 1}
    /\ running \subseteq Timers /\ expired \subseteq running
    /\ pc = "start" => running = {}
    /\ pc \in {"start", "loop", "spin", "announce", "recheck", "cancel", "epoll", "awake",
               "timers", "poll", "dispatch", "msgs", "on_msg", "exited"}
    /\ path \in {"fast", "slow"} /\ events \subseteq {"notify", "io"}
    /\ buf \in Messages \cup {NoMsg}
    /\ cpc \in [Callers -> {"idle", "posted", "wake"}]
    /\ rc \in [Callers -> {"ok", "busy"}]
    /\ mpc \in {"up", "stopping", "joining", "down"}

\* The promise of the "Double check to prevent race condition (lost wakeup)":
\* if the thread is in epoll_wait while a message waits in the ring, the
\* eventfd is readable, or the poster is still on its way to writing it.
NoLostWakeup ==
    pc = "epoll" /\ ~RingEmpty =>
        notify_fd = 1 \/ \E c \in Callers : cpc[c] \in {"posted", "wake"}

\* The same for nos_scheduler_stop: a thread that sleeps through a stop
\* request has a readable eventfd, or the main thread is about to write it.
NoLostStop ==
    pc = "epoll" /\ stop_requested = 1 => notify_fd = 1 \/ mpc = "stopping"

\* The ring, seen from outside: how many messages wait, and which.
Waiting == IF head <= tail THEN tail - head ELSE tail + QueueSize - head

Pending == [i \in 1 .. Waiting |-> msg_queue[(head + i - 1) % QueueSize]]

Mailbox == INSTANCE Mailbox WITH
    Capacity <- QueueSize - 1,
    pending <- Pending,
    inhand <- buf,
    answer <- rc,
    open <- pc # "exited"

\* Posting and processing messages implements the bounded mailbox: nothing
\* accepted is lost, duplicated or reordered before the thread has left its
\* loop, a post is refused only when QueueSize - 1 messages wait, and the
\* shutdown discards messages only after the loop has ended.
ImplementsMailbox == Mailbox!MSpec

\* No accepted message waits for ever: the head of a ring that is not empty
\* moves on, unless the thread leaves its loop.
QueueServed ==
    \A h \in 0 .. QueueSize - 1 :
        (head = h /\ ~RingEmpty) ~> (head # h \/ pc = "exited")

\* Posters that are all outside nos_transport_local_send.
Quiet == \A c \in Callers : cpc[c] = "idle"

\* Once the posters fall silent, a stop request ends the loop.  (While they
\* do not, process_thread_messages may never find the ring empty.)
StopHonoured == <>[]Quiet => (stop_requested = 1 ~> pc = "exited")

\* Once the posters fall silent, every expired timer is fired, unless the
\* thread leaves its loop.
TimersServed ==
    <>[]Quiet => \A t \in Timers : t \in expired ~> (t \notin expired \/ pc = "exited")
=============================================================================
