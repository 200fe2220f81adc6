# Gemini-NOS: a TLA+ model of the node platform

Gemini-NOS is a component platform in C for network operating systems. A *node*
is a process that loads components (`.so` files), spreads them over scheduler
threads, routes messages between services by number, inside the node through
rings of messages and between nodes of a host through Unix sockets and shared
memory, and offers them timers, a log and a key-value store.

This directory models the parts of the platform whose correctness depends on
who runs when: TLA+ modules, TLC configurations and TLAPS proofs. Paths below
are relative to the repository; `S` stands for `src/core/nos_scheduler.c`.

## 1. The system

| Component | State | Operations | Correct when |
|---|---|---|---|
| Scheduler thread (`S:303-451`, `nos_scheduler.h`) | ring `msg_queue`/`head`/`tail`, `is_sleeping`, `stop_requested`, eventfd | post, drain, sleep, wake, stop, tear down | no message and no stop request is slept through; a bounded FIFO |
| Timers (`S:48-109`, `453-498`) | heap of timer pointers, timer fields | create, start, stop, delete, fire | the heap holds the running timers, in order; nothing stays overdue |
| Descriptor table (`S:276-301`) | `fd_entries`, pointers to them in epoll | add, remove, dispatch | an event reaches the callback of its descriptor |
| Service registry (`S:27-45`, `217-274`) | array of routes | bind, register remote, unregister, find | a message goes to the provider that is loaded |
| Buffer pool (`nos_buffer.c`) | bins, free stacks, reference counts, layout | alloc, retain, release, push, pull, deinit | nothing freed in use, nothing lost, counters add up |
| Log (`nos_log.c`) | ring of entries, two indices, drop counter | log, print, shut down | slots not shared, nothing printed twice, losses counted |
| Key-value store (`nos_kv.c`) | buckets with a rwlock, entries, free stack, subscriptions | put, get, get_ptr/release, del, (un)subscribe | a bounded map; readers and subscribers see what is stored |
| IPC links (`nos_ipc_p2p.c`) | transmit ring, congestion mark, connection | send, drain, reconnect, HELLO, receive | in order, back-pressure released, peers named |
| Shared memory (`nos_shm.c`) | free list of blocks, counts, a receive queue per node | alloc, retain, release, enqueue, dequeue | counts exact, blocks conserved, queue FIFO |
| Node registration (`nos_shm.c:51-123`, daemon) | table of names in the segment | create, wait, claim, find again, look up | a name leads to the queue its node receives from, across deaths and restarts |
| Node manager (`nos_node_mgr.c`) | loaded components, routes | load, unload, reload | nothing unloaded is run or routed to |
| Node main, CLI (`nos_node_main.c`, `nos_cli.c`) | `keep_running`, the reading loop | start, command, quit, signal, join, clean up | a node told to end does |
| Manifests, embedded-service table, examples | constant tables, callers | | |

**Interactions.** A component calls `nos_service_msg_send`; the registry names a
local thread (the buffer goes into its ring, with a reference of its own) or a
remote node (the buffer goes to the IPC link, or, when it is a shared-memory
block, into the receiver's queue with an `SHM_EVENT` packet over the link). A
scheduler thread hands each message to its component and drops the ring's
reference. Timer and descriptor callbacks run on the same thread. The management
thread serves links and listening sockets; the CLI loads and unloads from its
own thread. The main thread stops and joins the others. The log's consumer is a
thread of its own.

**What is hard.** The thread that goes to sleep while another posts; reference
counts dropped by several threads or processes at once; lock-free structures in
memory shared by processes (a stale read, a reused head, a producer that stops in
the middle); locks per bucket around a resource of the whole table; callbacks
that change the structure that called them; a full ring, bin, heap or queue;
shutdown with work in flight; links that break and are edge-triggered.
`PROJECT.json` lists each hazard at its line, with the properties that cover it.

## 2. Modules

| Module | Models | Proofs |
|---|---|---|
| `Mailbox` | abstract: what a scheduler thread promises its posters | |
| `Scheduler` | one thread's ring, loop, sleep, wake-up, stop; posters; main thread | `SchedulerProofs` |
| `TimerHeap` | the heap, the component calls, `process_timers` | `SchedulerProofs` |
| `FdTable` | operators: the descriptor table and what epoll keeps of it | |
| `IpcLink` | a link to a peer: transmit ring, sockets, management thread, senders, peer; on `FdTable` | `IpcLinkProofs` |
| `NodeMgr` | loading, routing, start, dispatch, unload, reload, end of a node | `NodeMgrProofs` |
| `BufferPool` | the message buffer pool | `BufferPoolProofs` |
| `LogRing` | the log's ring, writers, consumer, shutdown | `LogRingProofs` |
| `KvMap` | abstract: a map of at most `Capacity` keys | |
| `KvTable` | a table with bucket locks, chains, free stack, subscriptions | `KvTableProofs` |
| `ShmTransport` | block pool and receive queue of the shared segment, event, hand-over | `ShmTransportProofs` |
| `ShmNodes` | registration, lookup, deaths and restarts of nodes, the daemon | `ShmNodesProofs` |

`MC*.tla` give the constants their small values; each `.cfg` is one run.
Definitions carry the names of the code's functions and fields. An operator
marked "faulty variant" is not part of any specification: it is what a plausible
slip in the definition after it would look like, and each property is shown to
fail when its variant is put in place.

### Scheduler
An action is one critical section of `queue_lock` (`PostEnqueue`, `Dequeue`) or one
access to what threads share: `is_sleeping` (`PostCheck`, `Announce`, `Cancel`,
`Awake`), `stop_requested` (`LoopCheck`, `Recheck`), the eventfd (`PostWake`,
`StopNotify`, `EpollReturn`). `path` tells the pass without sleeping
(S:397-406) from the one after `epoll_wait`. A handler's post to its own thread
(`OwnPost`) is part of the action that runs the handler.

* Shared variables are read and written in program order. The sleeper's side has it
  from the code: a sequentially consistent fence (S:416) stands between the store of
  `is_sleeping = 1` and the second look at `head`, `tail` and `stop_requested`. The
  poster has no fence between its enqueue and its load of `is_sleeping` (S:311-315):
  the order rests on the unlock of `queue_lock`, a locked instruction on x86. C11
  alone would let that load move before the unlock; the model is of the x86 build.
* The second look at `stop_requested` (S:419) is not what `NoLostStop` rests on:
  `nos_scheduler_stop` always writes the eventfd.
* `Expire` lets a timer expire only between passes that fire it: intervals longer
  than a pass, as in the components (10 s).

### TimerHeap
Sequential: all calls come from the thread that owns the heap. `Push` and `Remove`
contain the sifting that follows them: `UpBody` and `DownBody` are one pass of the loops
of `heapify_up` and `heapify_down`, and `Loop` goes through as many passes as there are
slots, more than either can take. Its `Spec`, `Init`, `Next`, `TypeOK` and `pc` are called
`TimerSpec`, `TimerInit`, `TimerNext`, `TimerTypeOK` and `place`, so that one module can extend both
it and `Scheduler`. What the code reads after a callback
(`is_periodic`, S:101) makes some calls unsafe in a timer's own callback: deleting
it, stopping a periodic one (refused, then pushed back), restarting it as periodic
(pushed twice). Nothing in the code or in `nos_timer_api.h` forbids them; `MayTouch` and
`Start` exclude them all the same, because what follows a use of a freed timer is
undefined, and without the guard `HeapHoldsRunning` fails at the first such call.
`misplaced` is history: `Remove` sets it when the timer that takes the hole is earlier
than its new parent, and it is forgotten when the heap is empty.

### FdTable and IpcLink
`FdTable` keeps both sides of a registration: the entries, and for each descriptor the
slot whose address epoll holds. `RemoveFd` moves the last entry and leaves the slots
epoll holds alone, as the code does.

`IpcLink` is one `nos_ipc_conn_t` with everything that touches it. A worker sends under
the link's lock (`Enqueue`, `Reconnect`, `Connected`, `Register`, `WorkerTx`). It sets
`conn->fd` in one step and the marks in the next, because `ForgetLink` stores to both
without the lock; and it registers the new socket in the management thread's table from
its own thread, so the step that reads `fd_count` and the one that writes it are apart. The management thread takes
events, looks up the entry epoll names and runs that entry's callback: accept, the
handler of a socket without a name, the link's handler, which sends and then receives
ONE packet. The socket is the kernel's: its state, packets each way, and the edges that
were not reported yet. The peer reads, sends, connects, dies and starts again.
Messages are numbers, HELLO is 0.

### NodeMgr
Worker, CLI, main and posters over the same tables, none of them locked. `find_service`
is a step per entry, because an unregistration moves the last entry under it. An
instance is one load of a component; its number stands for its address, so a stale
pointer stays recognisable. `NodeMgr` has the operator's commands and the signal as
choices of the environment, and whether a `start()` succeeds: one that fails, or is NULL,
leaves the component as it was (`"refused"`, to tell it from one whose turn has not come).

### BufferPool
`g_buffer_lock` sections are single actions; the count that reaches zero outside
the lock (`Release`) and the push under it (`Return`) are two, with the chunk in
`limbo` between them. `holders` is the history of who holds a reference.

### LogRing
A message is the number its writer took from `write_idx`. `Claim`, `Swap`,
`Write`, `Publish` are the writer's accesses in order; the consumer looks, prints,
advances. `overrun` records whether a writer ever was a ring ahead.

### KvTable
Everything under a bucket's lock that touches that bucket only is one action. The
free stack and `used_count` have no lock, so `free_stack[free_top--]`,
`free_stack[++free_top] = i`, `used_count++` and `--` are a read and a write each.
Notifications are sent one by one after the lock is released. The bucket's chain
is a sequence and the hash a constant (`Bucket`), chosen so that keys collide.
Wrong arguments and calls that find nothing and change nothing are left out.

### ShmTransport
One access to a shared word per action, from a sender's first read of
`free_list_head` to the worker's last release: the swap of a pop (138), its
`total_allocated` (140) and its `ref_count` (141) are three, the swap of a push (169)
and its `total_allocated` (171) two. The free list is kept as the code
keeps it (`free_list_head`, `next_free`). `accepted` is the history of the blocks
whose slot was claimed, in the order of the claims. The node's descriptor is
edge-triggered and receives one packet per event; as every packet on the modelled
link is an `SHM_EVENT` and the handler drains the whole queue, one flag (`edge`)
stands for any number of packets. A sender refused by the queue drops the queue's
reference and its own (`again`). Nothing keeps a block from leaving the list and coming
back while an allocator sits between its reads and its swap; `mishaps` records "torn" when
such a swap puts an outdated link at the head, and "overrun" when a sender claims a slot
of a full queue after an old look at the head.

### ShmNodes
Every access of `nos_shm_init` to the table is a step, and a process may end after any of
them; nothing is cleaned up, so it starts again with what it left. An enqueue is a
claim and a store, a dequeue a clearing and a move of `head`, since those are the places
where a death hurts. Three things the queues do not survive are recorded in `mishaps`,
and the properties say what holds without them: a queue that is reset after a
sender has found it (`early`), a process that dies inside an enqueue or a dequeue
(`torn`), a daemon started again over a segment in use (`cleared`). All three are
reached. An event rung at a node that is not serving is lost: what waits for a
restarted node waits for the next event.

## 3. Runs

| Run | Instance | Shows |
|---|---|---|
| `scheduler` | 1 poster and the handlers' own posts, ring of 3 slots, a periodic timer, fairness | `TypeOK`, `NoLostWakeup`, `NoLostStop`, `QueueServed`, `StopHonoured`, `TimersServed`; `Scheduler` implements `Mailbox` |
| `timers` | 6 timers, two of them periodic at a time, intervals 1 and 2, two ticks | `TimerTypeOK`, `HeapHoldsRunning`, `NoneOverdue` |
| `buffer_pool` | bins of 2 and 1 chunks, 3 holders | `NoUseAfterFree`, `NoDoubleFree`, `NothingLost`, `LayoutFillsChunk` |
| `log_ring` | 2 writers, 2 slots, 5 messages, fairness | `SlotExclusive`, `PrintedOnce`, `PrintedUnlessOverrun` |
| `kv_table` | 1 writer, 1 reader and subscriber, 3 keys in 2 buckets, 2 entries | `EntryInOnePlace`, `PointerStable`, `ToldLatest`; `KvTable` implements `KvMap` |
| `kv_writers` | 2 writers | **violated**: `NoEntryTakenTwice` |
| `shm_path` | 2 senders, 2 blocks, queue of 3 slots, up to the first torn list | `RefsCounted`, `BlockInOnePlace`, `QueueIsFifo`, `NoneStranded` |
| `shm_nodes` | 2 nodes, 3 entries, queues of 2 slots, 2 messages, 2 deaths, 1 restart of the daemon, fairness | `NameIsQueue`, `RungIsServed` |
| `ipc_link` | 1 worker, 2 sockets, ring of 4, congestion above 1, socket buffers of 1, 2 messages, 1 death, 1 connection by the peer, fairness | `RingInOrder`, `CongestedHasBacklog`, `BacklogDrained` |
| `fd_stale` | as `ipc_link` | **violated**: `EntriesStay` |
| `node_mgr` | 2 components, 2 local services and a remote one between them, 3 instances, 2 messages, fairness | `RoutesMatchLoaded`, `FreedOnce`, `ShutdownCompletes` |
| `reload_start` | as `node_mgr` | **violated**: `ReloadedIsStarted` |

Every passing run also checks its module's `TypeOK`.

### Bounds
* Ring of 3 slots (the code has 1024): the smallest that can be empty,
  partly full and full. The one poster meets the handlers' and callbacks' posts, so that
  a post falls between another one and its look at `is_sleeping`; any number of
  posters is the proofs' matter (section 5).
* Six timers, the fewest with which a removal can break the heap's order (section 4); the
  run reaches such a heap, and a timer that is overdue in it. Two intervals, of which one
  expires a tick before the other; `MaxTime` is where the clock stops. `FewPeriodic` keeps the
  periodic timers to two at a time, so that one can be pushed back while another waits.
  `VIEW UpToNames` takes states for one that differ by a permutation of the timers: the
  timers are interchangeable, and it costs far less than sorting 720 permutations
  would. With one periodic timer, where both are affordable, the view and TLC's own
  symmetry give the same number of states.
* Three holders: two can release while a third allocates. Two bins: the first can
  be empty or too small while the second fits.
* `MaxLogs = 5` in 2 slots: two laps and a half, so that two writers meet on a slot
  a lap apart, with a third message behind them.
* Two entries for three keys: the table fills, refuses, and reuses entries.
  Two of the keys share a bucket.
* Two blocks in a queue of three slots: indices wrap, the free list runs empty, pushes
  race with pops, and a head is reused. More slots than blocks (`ShmAssumption`) is the code's
  own arithmetic: a 16 MB segment holds 3962 blocks of 4168 bytes, the queue 4096
  offsets. A component sends a block once. `CONSTRAINT Whole` checks the states in which
  the list has just been torn and does not go on from them: from there the blocks'
  counts mean nothing and grow.
* Three entries for two nodes and two deaths: a death between claim and name costs an
  entry, a second one fills the table and leaves a node without a queue. Two
  messages in a queue of two slots wrap it, fill it and are refused.
* `ipc_link`: a socket that takes one packet, with HELLO before the first message, makes
  every send of a second packet wait for an edge; a high-water mark of 1 is crossed by the
  second message. Two sockets are enough for the old and the new one, a table of
  four entries for a leaked one and for what moves when one is removed. `MaxMsgs`,
  `MaxDeaths` and `MaxConnects` bound what the environment does.
* `node_mgr`: two components on one thread so that removing one moves the other's route
  and place; three services so that an unregistration has an entry to move past a searching
  poster. `MaxInst = 3` is the two loaded at start-up and one reload; `MaxPosts` bounds
  the messages.

`CHECK_DEADLOCK FALSE` stands where the system may really stop: a link whose bounds are
used up, a node that has ended, nodes that are idle or gone for good.

### Fairness
Weak fairness of the scheduler thread (`Worker`), of a poster that has enqueued and
has to look and write, of the main thread's steps after a stop request, of the
log's consumer and of a writer that has a number: each is a runnable thread that
the kernel runs and that holds locks for a few instructions. In `IpcLink`: of the
management thread, of a worker that is in the middle of a send, and of a live peer that
reads its socket. In `NodeMgr`: of the worker, of the CLI with a command in hand, or with
the read of a line that `keep_running` may end, and of main. In `ShmNodes`: of the
sending and the receiving thread of a process while it lives. Nothing makes a
thread post, a descriptor become ready, a timer be started, a peer connect, the operator
type or a shutdown be asked for. `StopHonoured` and `TimersServed` say "once the posters
fall silent", for `process_thread_messages` returns only when it finds the ring empty.

## 4. What the code does otherwise

The violated runs, each against a line of the repository (`findings` quotes it):

* `reload_start`: `nos_node_mgr.c:179` leaves the start of a reloaded component to "the next
  iteration of run_loop"; `run_loop` starts components before its first iteration only
  (S:374). A reloaded component handles messages without having been started.
* `fd_stale`: removing a descriptor moves the last entry (S:296), epoll still holds the
  address it had (S:283). The next event of the moved descriptor runs whatever has been put
  there since.
* `kv_writers`: two puts of different buckets pop the same entry. For the same
  reason `used_count` drifts, and with two writers `ToldLatest` fails as well
  (notifications of two puts overtake each other outside the lock): `kv_table` is
  about one writer at a time.

Seen while modelling, and kept as an assumption, a bound or a hazard, not as a run:

* Timers: `nos_timer_stop` and `nos_timer_delete` put the last timer in the
  removed one's place and only sift it down (S:478, 491). With six timers or more it can
  be earlier than its new parent and fire late. The model does as the code and records it
  (`misplaced`): `NoneOverdue` is about the time before. Without that condition it fails in
  run `timers`, in a trace of twenty states: six timers are started, the clock ticks, three
  are stopped and one is started again, and `process_timers` ends with a due timer below one
  that is not.
* Log: a dropped message has used up its number. The consumer waits at that
  empty slot, and a shutdown leaves the loop there: ready messages behind it are
  neither printed nor counted.
* Shared free list: a pop compares offsets only (138); a head that was taken and given
  back is taken for unchanged, and a block in use becomes the head. The model does as
  the code and records it (mishap "torn", reached in 26 steps): `RefsCounted`, which
  is what `nos_shm.h:29` says of the count, holds until then. Without that condition
  it fails five steps after the swap, when the block that waits in the queue is
  handed out again and its count starts at one.
* `total_allocated` is written apart from the list (140, 171): a block popped between the
  swap of a push and its subtraction is counted twice, and the counter then exceeds the pool.
* Shared queue: the tail is read before the head. One message accepted and received in
  between makes old tail + 1 = head, and the sender is refused by an empty queue.
* Registration: a node is found by its name (`nos_shm.c:94`) before its queue is reset
  (96-97): what an early sender put there is lost, and its offset stays in a slot the
  queue takes for empty, against the comment at 198. A daemon that was killed and is
  started again zeroes the table and the pool under running nodes (62).
* Link: a failed send closes the descriptor and leaves its table entry, one of 32, for
  ever; `ForgetFd` and `ForgetLink`, without the link's lock, can leave a socket open on
  a link marked as not connected.
* Node manager: `load` is `node_reload_component` and cannot load what is not loaded; an unload
  while the thread starts its components makes it skip one; a lookup and the call that
  follows can straddle a swap in the registry and reach the wrong component; an
  unload can free a component that its thread is running.

## 5. Proofs

TLAPS proves, for all values of the constants that satisfy the modules'
assumptions and for runs of any length, every safety property that a passing run checks.
Two have a hypothesis besides, which the theorems state in front: `OneWriter` in
`KvTableProofs`, and `OnlyFired` in the last theorem about the timers. The instance of
run `kv_table` satisfies the first.

Each proof has the same shape. `IInv` is the inductive invariant: the properties, and
what is needed besides to see that a step keeps them. One lemma shows that `Init` gives
it, one per action (or group of actions) that the action keeps it, `NextKeeps` or its
like puts them together, and each theorem draws its property from it. TLC has checked
every `IInv` on small instances before.

* `SchedulerProofs`: `TypeCorrect`, `WakeupNeverLost`, `StopNeverLost`
  (`Spec => []TypeOK`, `[]NoLostWakeup`, `[]NoLostStop`). The inductive invariant is
  `TypeOK /\ SleepFlag /\ NoLostWakeup /\ NoLostStop`. `SleepFlag` says that
  `is_sleeping` is 1 exactly from the announcement to the wake-up; without it the step
  in which a poster reads 0 and goes home (`PostCheck`) could leave a sleeping thread
  with a message. One lemma per group of actions shows what the group leaves alone.
* In the same module the refinement: `ThreadIsMailbox`, `Spec => ImplementsMailbox`. To
  that invariant it adds that what waits is messages and that one is in hand exactly in its handler
  (`RInv`). The lemmas `EnqueueAppends` and `DequeueTakes` carry the arithmetic: what the ring
  holds from `head` to `tail`, wrapped or not, is a sequence that a post extends at its
  end and a delivery shortens at its front. `StepKinds` sorts the actions into eight
  kinds, and each kind is a step of the mailbox or a stutter. Safety only: the
  mailbox states no fairness.
* In the same module the timers: `TimersTypeCorrect`, `HeapExact`
  (`TimerSpec => []HeapHoldsRunning`), for any number of timers and any capacity that holds
  them all. The lemma `LoopKeeps` says that what each pass of a loop hands on
  holds after it, by a least pass that would not; with it `UpKeeps` and `DownKeeps` show that
  sifting moves timers and neither loses nor doubles one. The invariant adds
  `CallbackTimer` (the timer of a callback exists, and does not run if it is periodic), from
  which `RoomToReturn` counts that the unchecked push of a periodic timer (S:104) has room.
* And their order: `NeverOverdue`, `TimerSpec => NoneOverdue`, for any number of timers,
  whatever is stopped or deleted. The invariant is `InOrder`, no timer before its parent,
  while `misplaced` is false. `UpOrders` and `DownOrders` show that a sift restores it
  when only one slot is out of order (`Rising`, `Sinking`), and `RootEarliest` that the root is
  then the earliest of all. What can lose it is a removal from the middle, where the last
  timer may be earlier than its new parent (`Fits`, section 4). `FiredNeverMisplaced` says
  that nothing else can: `misplaced` stays false as long as no running timer is
  stopped or deleted (`OnlyFired`).
* `BufferPoolProofs`: `PoolTypeCorrect`, `HeldIsNeverFree`, `NeverFreedTwice`,
  `PoolConserves`, `LayoutAlwaysFills`. The inductive invariant joins the properties
  with `Counted` (a reference count is the number of holders), `FreeUnheld`
  (what is free or in limbo has none) and `UsedCounted` (`used_count` is the number
  of chunks out of their bin): `Release` needs the former to know that it is
  the last, `Alloc` the latter to know that what it pops is nobody's.
* `LogRingProofs`: `LogTypeCorrect`, `SlotsNeverShared`, `NeverPrintedTwice`. The invariant
  adds `Printing` (the slot being printed is ready till the consumer is done),
  `Numbered` (the numbers of active writers and ready slots differ, are taken
  and belong to their slots), `PrintedBefore` (a printed number is with no writer and in no
  ready slot) and `FirstFirst`, which covers the state before the first number is
  taken. No assumption on the writers' speed enters: overruns are included.
* `KvTableProofs`, under `OneWriter` (at most one thread puts and deletes):
  `TypesHold`, `EntriesConserved`, `PointersStable`, `SubscribersUpToDate`, and
  `TableIsMap`, `Spec => ImplementsMap`. The hypothesis is what the code needs: the free
  stack has no lock of its own, and run `kv_writers` shows two writers of different
  buckets taking the same entry. Any number of readers, keys, buckets and entries is
  covered. The invariant says what each access of a put or a del still knows of the
  words it read before (`Progress`), that whoever changes a chain holds its bucket alone
  (`Locked`), that a chain has its bucket's keys, one entry each (`ChainKeys`), and that
  `used_count` and `free_top` add up to the capacity but for the entry in hand (`Counted`):
  that sum is why a free entry is there when the count says so. For the refinement a key
  is mapped to the value of the entry its walk finds. Without `OneWriter` one thing
  is left, `BucketsExclusive`: for any number of writers a put or a delete in
  progress is alone in its bucket. So the buckets' locks do their part, and what
  `kv_writers` shows comes from the free stack, which they do not cover.
* `ShmTransportProofs`: `TypesHold`, `RefCountsExact`, `BlocksConserved`, `QueueInOrder`,
  `NobodyStranded`, for any number of senders, blocks and slots (more slots than blocks,
  as in the code) and with no assumption on when blocks come back to the list. The
  invariant has two halves. `Core`, the threads' places and the queue, is kept by every step
  from itself alone, so the queue's order survives a torn list. `Pool` is kept by
  every step that does not tear the list. It names the three references a block can have, the
  sender's, the travelling one and the mailbox's (`ref_count` is how many there are), and
  exhibits the free list as a sequence (`ListIs`), so that a pop or a push is a step of
  that sequence; `total_allocated` is tied to its length by counting the threads between a
  swap and its count. A queue never fills while the list is whole, since its messages
  are different blocks.
* `ShmNodesProofs`: `NodesTypeCorrect` and `NamesResolve` (`Spec => []NameIsQueue`). The
  invariant says that entries are taken from the first one on (`Prefix`), that a scan
  leaves behind used entries of other names (`Scanned`), and that a claimed entry has no
  name and its node no other one (`Claimed`): a node that claims an entry therefore has
  none further on.
* `IpcLinkProofs`: `TypesHold`, `RingKeepsOrder`, `CongestionHasCause`, for any number of
  workers, sockets, packets and entries of the table. The invariant joins the types, the
  two properties, `RegisterAlone` (a worker that sets up a new socket, with its read
  and its write of `fd_count`, holds the link's lock) and what `FdTable` keeps of the table (`TableOk`). The lemma the
  proof turns on is `PrefixCounts`: in an increasing ring that holds exactly the
  numbers after `sent`, what a partial write takes from the front is the next
  numbers, HELLOs between them or not; `RingAfterTaking` and `RingAppends` carry it through
  sends and enqueues. The types of the table survive the unlocked registration of a
  worker, though its content does not (`fd_stale`).
* `NodeMgrProofs`: `TypesHold`, `TablesAgree`, `MemoryFreedOnce`, for any manifest, any
  number of reloads and posts. `RoutesMatchLoaded` speaks of rest only, so the invariant
  says what each step of a command has done so far: the instance in hand is loaded,
  and its thread lists it before the removal and after the return (`Hosting`); a service is
  bound to its provider unless the command has taken it away and not given it back
  (`Routed`, with `Hole`). From them follow that a rebind finds no entry and that there is
  room for a new one (`RoomLeft`: the services fit the registry). `Freeing` says that
  exactly the instances that are no longer loaded, or that main's clean-up has passed,
  were given back; `MainType` that main comes there after the CLI has ended. The lemmas
  `UnbindIs` and `SwapRemoveIs` are about the two removals by a swap with the last.

Assumptions used are the `ASSUME`s of the modules; TLC evaluates each in some run.

Only model-checked: liveness (`QueueServed`, `StopHonoured`, `TimersServed`,
`PrintedUnlessOverrun`, `RungIsServed`, `BacklogDrained`, `ShutdownCompletes`), which the
provers cannot express.

## 6. Not modelled

* Composition of `ShmTransport`, `IpcLink` and `ShmNodes`: each takes from the others what
  its interface promises. `ShmTransport` starts from registered nodes and a link that
  carries every event; `ShmNodes` has one word for an event.
* Several links and the pool of 16 of them, a connect that blocks, statistics, the
  content of packets. The management thread's own changes of the descriptor table are one
  step each.
* Some steps stand for more than one access. `IpcLink.Drain` is all the sends of a call of
  `nos_ipc_process_tx` (`nos_ipc_p2p.c:55-82`): a peer that dies between two of them is
  found by the next call. `NodeMgr.Post` looks its service up in one step, where the worker's
  `Find` takes one per entry: a poster that misses an entry an unregistration moves is one
  that did not post. `KvTable.Notify` calls a callback that does not put again; one that did
  could tell a later subscriber the older value last. A thread of `KvTable` has one
  handle at a time.
* Component timers across an unload, several worker threads (their lists of components
  are separate), reuse of an address by `malloc`. The management thread hosts no
  component.
* Calls of timer operations from other threads (the CLI's unload).
* Table creation, tear-down and dumps of the key-value store; memory that a freed
  subscription has become when a notification still calls it.
* Blocks that a dead process held. The orderly end of the daemon, which unlinks the
  segment: nodes started after it meet in another one.
* The table of embedded services (filled once, before any thread runs), log levels and
  formats, the terminal, the manifest generator, example and performance components
  (they give the callers' behaviour).

## 7. Plan

1. The message path: `Scheduler` and `BufferPool` composed, every accepted buffer
   released exactly once, including what the shutdown discards; then `IpcLink` under
   `ShmTransport`, so that a lost event shows.
2. Two links of a node over one descriptor table, and the pool of links.
3. Proofs of the compositions of 1 and 2, from the invariants of their parts.
