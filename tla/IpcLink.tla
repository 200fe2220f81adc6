------------------------------ MODULE IpcLink ------------------------------
(***************************************************************************)
(* The link of a node to one peer node (nos_ipc_p2p.c): worker threads put *)
(* packets into the link's transmit ring and try to send them; the node's  *)
(* management thread serves the sockets, its own and those the peer opens, *)
(* through the descriptor table of its scheduler (module FdTable).         *)
(*                                                                         *)
(* Either side may connect: the two nodes run the same code.  A socket the *)
(* peer opened is served by nos_ipc_passive_handler until HELLO names the  *)
(* peer; then it becomes the link's socket.  The peer, its sockets and the *)
(* kernel are the environment: it reads, writes, connects, dies, restarts. *)
(*                                                                         *)
(* A step is a critical section of the link's lock, one system call, or a  *)
(* group of accesses that no other thread can tell apart.                  *)
(***************************************************************************)
EXTENDS Integers, Sequences, FiniteSets

CONSTANTS
    Workers,       \* threads that send to the peer
    MaxFds,        \* sockets this process may have open
    TableSize,     \* 32: entries of the descriptor table
    RingSize,      \* TX_QUEUE_SIZE: slots of the transmit ring
    HighMark,      \* TX_HIGH_WATERMARK
    SockBuf,       \* packets a socket takes before send returns EAGAIN
    RxBuf,         \* packets of the peer a socket holds
    MaxMsgs,       \* bound: messages accepted
    MaxDeaths,     \* bound: times the peer dies
    MaxConnects    \* bound: times the peer connects

ASSUME RingAssumption ==
    /\ RingSize \in Nat /\ HighMark \in Nat /\ HighMark + 1 < RingSize
ASSUME KernelAssumption ==
    /\ MaxFds \in Nat \ {0} /\ TableSize \in Nat \ {0}
    /\ SockBuf \in Nat \ {0} /\ RxBuf \in Nat \ {0}
ASSUME BoundAssumption == MaxMsgs \in Nat

NoFd == -1
ListenFd == 0
Sockets == 1 .. MaxFds
Hello == 0               \* the HELLO packet; messages are 1, 2, ...

Callbacks == {"accept", "passive", "event"}

Fd == INSTANCE FdTable WITH Fds <- {ListenFd} \cup Sockets

VARIABLES
    fd, is_connected, is_congested,  \* nos_ipc_conn_t
    tx_queue,      \* its ring, oldest packet first
    table,         \* the management thread's descriptor table
    sock,          \* the open sockets, as the kernel knows them
    edge,          \* sockets with an edge epoll has not reported yet
    backlog,       \* a connection of the peer not accepted yet
    peer,          \* "up" or "down"
    wpc, seen,     \* where each worker is in nos_ipc_send_enqueue_ex
    mpc, cur,      \* where the management thread is, and the entry it serves
    events,        \* descriptors and entries epoll_wait returned
    accepted, sent,   \* messages the ring has taken, and the kernel
    deaths, connects  \* what the bounds bound

conn == <<fd, is_connected, is_congested, tx_queue>>
kernel == <<sock, edge>>
environment == <<backlog, peer, deaths, connects>>
workers == <<wpc, seen>>
mgmt == <<mpc, cur, events>>
counts == <<accepted, sent>>
vars == <<conn, table, kernel, environment, workers, mgmt, counts>>

Closed == [state |-> "closed", tx |-> 0, rx |-> <<>>]
Opened(s, rx) == [state |-> s, tx |-> 0, rx |-> rx]

NoEntry == [fd |-> ListenFd, callback |-> "accept"]

NothingSeen == [fd |-> NoFd, count |-> 0]

\* node_init_mgmt: the listening socket is registered and its handler will
\* accept.  The link's record is made at its first use, with these values.
Init ==
    /\ fd = NoFd /\ is_connected = FALSE /\ is_congested = FALSE
    /\ tx_queue = <<>>
    /\ table = Fd!AddFd([entries |-> [i \in 1 .. TableSize |-> NoEntry], count |-> 0,
                         watch |-> [f \in {ListenFd} \cup Sockets |-> Fd!NotWatched]],
                        ListenFd, "accept", FALSE)
    /\ sock = [s \in Sockets |-> Closed] /\ edge = {}
    /\ backlog = "none" /\ peer = "up" /\ deaths = 0 /\ connects = 0
    /\ wpc = [w \in Workers |-> "idle"] /\ seen = [w \in Workers |-> NothingSeen]
    /\ mpc = "wait" /\ cur = NoEntry /\ events = {}
    /\ accepted = 0 /\ sent = 0
-----------------------------------------------------------------------------
(* The kernel's part of the calls. *)

IsOpen(s) == s \in Sockets /\ sock[s].state # "closed"
IsLive(s) == s \in Sockets /\ sock[s].state = "live"
Writable(s) == IsLive(s) /\ sock[s].tx < SockBuf
Readable(s) == IsOpen(s) /\ (sock[s].rx # <<>> \/ sock[s].state = "dead")

FreeFds == {s \in Sockets : sock[s].state = "closed"}
LowestFree == CHOOSE s \in FreeFds : \A r \in FreeFds : s <= r

\* close(s): the number is free again, and epoll forgets it.
CloseFd(T, s) ==
    /\ sock' = IF IsOpen(s) THEN [sock EXCEPT ![s] = Closed] ELSE sock
    /\ edge' = edge \ {s}
    /\ table' = IF IsOpen(s) THEN Fd!Unwatch(T, s) ELSE T

\* Entering a critical section of conn->lock; a worker that is setting up a new
\* socket holds it.
SettingUp == {w \in Workers : wpc[w] \in {"connected", "register"}}
LockFree == SettingUp = {}

Least(a, b) == IF a <= b THEN a ELSE b

\* Where messages are among the packets of q, and how many there are.
MessagesAt(q) == {i \in DOMAIN q : q[i] # Hello}
MessagesIn(q) == Cardinality(MessagesAt(q))
-----------------------------------------------------------------------------
(* nos_ipc_process_tx, under the lock. *)

DrainUnrelieved ==   \* faulty variant: the congestion mark is left
    LET n == IF tx_queue = <<>> THEN 0 ELSE Least(Len(tx_queue), SockBuf - sock[fd].tx)
    IN  /\ tx_queue # <<>> => IsLive(fd)
        /\ tx_queue' = SubSeq(tx_queue, n + 1, Len(tx_queue))
        /\ sock' = IF n = 0 THEN sock ELSE [sock EXCEPT ![fd].tx = @ + n]
        /\ sent' = sent + MessagesIn(SubSeq(tx_queue, 1, n))
        /\ UNCHANGED <<fd, is_connected, is_congested, table, edge, accepted>>

\* The kernel takes what it has room for.  Only when the loop has emptied the
\* ring is the low mark looked at, so congestion ends with an empty ring.
Drain ==
    LET n == IF tx_queue = <<>> THEN 0 ELSE Least(Len(tx_queue), SockBuf - sock[fd].tx)
    IN  /\ tx_queue # <<>> => IsLive(fd)
        /\ tx_queue' = SubSeq(tx_queue, n + 1, Len(tx_queue))
        /\ sock' = IF n = 0 THEN sock ELSE [sock EXCEPT ![fd].tx = @ + n]
        /\ sent' = sent + MessagesIn(SubSeq(tx_queue, 1, n))
        /\ is_congested' = (is_congested /\ tx_queue' # <<>>)
        /\ UNCHANGED <<fd, is_connected, table, edge, accepted>>

SendFailsSkips ==   \* faulty variant: the packet that failed is given up
    /\ tx_queue # <<>> /\ ~IsLive(fd)
    /\ CloseFd(table, fd)
    /\ tx_queue' = Tail(tx_queue)
    /\ fd' = NoFd /\ is_connected' = FALSE /\ is_congested' = FALSE
    /\ UNCHANGED counts

\* send fails: the socket is closed, the packets stay for the next one.  The
\* entry in the descriptor table stays too.
SendFails ==
    /\ tx_queue # <<>> /\ ~IsLive(fd)
    /\ CloseFd(table, fd)
    /\ fd' = NoFd /\ is_connected' = FALSE /\ is_congested' = FALSE
    /\ UNCHANGED <<tx_queue, counts>>

ProcessTx == LockFree /\ (Drain \/ SendFails)
-----------------------------------------------------------------------------
(* A worker: nos_ipc_send_enqueue_ex. *)

RoomForAll(q) == Len(q) < RingSize   \* faulty variant: no slot is kept free

RoomFor(q) == Len(q) + 1 < RingSize

Refuse(w, q) ==
    /\ tx_queue' = q /\ wpc' = [wpc EXCEPT ![w] = "idle"]
    /\ UNCHANGED accepted

OfferQuietly(w, q) ==   \* faulty variant: no attempt to send follows
    \/ /\ ~is_connected /\ Refuse(w, q) /\ UNCHANGED is_congested
    \/ /\ is_connected /\ Len(q) > HighMark
       /\ Refuse(w, q) /\ is_congested' = TRUE
    \/ /\ is_connected /\ Len(q) <= HighMark /\ RoomFor(q)
       /\ tx_queue' = Append(q, accepted + 1) /\ accepted' = accepted + 1
       /\ wpc' = [wpc EXCEPT ![w] = "idle"] /\ UNCHANGED is_congested

\* The tail of the function: a link that is down refuses, then backpressure,
\* then the ring, q.
Offer(w, q) ==
    \/ /\ ~is_connected /\ Refuse(w, q) /\ UNCHANGED is_congested
    \/ /\ is_connected /\ Len(q) > HighMark
       /\ Refuse(w, q) /\ is_congested' = TRUE
    \/ /\ is_connected /\ Len(q) <= HighMark /\ RoomFor(q)
       /\ tx_queue' = Append(q, accepted + 1) /\ accepted' = accepted + 1
       /\ wpc' = [wpc EXCEPT ![w] = "tx"] /\ UNCHANGED is_congested

CanConnect == peer = "up" /\ FreeFds # {}

Enqueue(w) ==
    /\ wpc[w] = "idle" /\ LockFree /\ accepted < MaxMsgs
    /\ fd # NoFd \/ ~CanConnect
    /\ Offer(w, tx_queue)
    /\ UNCHANGED <<fd, is_connected, table, kernel, environment, seen, mgmt, sent>>

\* The link has no socket: it connects one, ...
Reconnect(w) ==
    /\ wpc[w] = "idle" /\ LockFree /\ accepted < MaxMsgs
    /\ fd = NoFd /\ CanConnect
    /\ fd' = LowestFree
    /\ sock' = [sock EXCEPT ![LowestFree] = Opened("live", <<>>)]
    /\ wpc' = [wpc EXCEPT ![w] = "connected"]
    /\ seen' = [seen EXCEPT ![w].fd = LowestFree]
    /\ UNCHANGED <<is_connected, is_congested, tx_queue, table, edge, environment, mgmt, counts>>

\* ... is marked, and reads fd_count to add an entry.
Connected(w) ==
    /\ wpc[w] = "connected" /\ wpc' = [wpc EXCEPT ![w] = "register"]
    /\ is_connected' = TRUE /\ is_congested' = FALSE
    /\ seen' = [seen EXCEPT ![w].count = table.count]
    /\ UNCHANGED <<fd, tx_queue, table, kernel, environment, mgmt, counts>>

\* The entry is made, HELLO is queued, then the message.
Register(w) ==
    LET s == seen[w].fd
        hello == IF RoomFor(tx_queue) THEN Append(tx_queue, Hello) ELSE tx_queue
    IN  /\ wpc[w] = "register"
        /\ table' = Fd!AddFdAt(table, seen[w].count, s, "event", TRUE, IsOpen(s))
        /\ edge' = IF Fd!Watched(table', s) THEN edge \cup {s} ELSE edge
        /\ seen' = [seen EXCEPT ![w] = NothingSeen]
        /\ Offer(w, hello)
        /\ UNCHANGED <<fd, is_connected, sock, environment, mgmt, sent>>

WorkerTx(w) ==
    /\ wpc[w] = "tx" /\ ProcessTx
    /\ wpc' = [wpc EXCEPT ![w] = "idle"]
    /\ UNCHANGED <<environment, seen, mgmt>>
-----------------------------------------------------------------------------
(* The management thread: epoll_wait, then the callback of each entry. *)

Ready(f) ==
    /\ Fd!Watched(table, f)
    /\ IF f = ListenFd THEN backlog # "none"
       ELSE IF table.watch[f].et THEN f \in edge /\ (Readable(f) \/ Writable(f))
       ELSE Readable(f)

EpollWait ==
    /\ mpc = "wait" /\ mpc' = "dispatch"
    /\ events' = {<<f, table.watch[f].slot>> : f \in {g \in DOMAIN table.watch : Ready(g)}}
    /\ events' # {}
    /\ edge' = edge \ {e[1] : e \in events'}
    /\ UNCHANGED <<conn, table, sock, environment, workers, cur, counts>>

DispatchEnd ==
    /\ mpc = "dispatch" /\ events = {} /\ mpc' = "wait"
    /\ UNCHANGED <<conn, table, kernel, environment, workers, cur, events, counts>>

\* The callback is that of the entry epoll points to.
Dispatch ==
    /\ mpc = "dispatch"
    /\ \E e \in events :
          /\ events' = events \ {e}
          /\ cur' = table.entries[e[2]]
    /\ mpc' = IF cur'.callback = "event" THEN "tx"
              ELSE IF cur'.callback = "passive" THEN "recv" ELSE "accept"
    /\ UNCHANGED <<conn, table, kernel, environment, workers, counts>>

\* nos_ipc_accept_handler.  (The peer sends HELLO right after it connected.)
Accept ==
    /\ mpc = "accept" /\ mpc' = "dispatch"
    /\ backlog # "none" /\ backlog' = "none" /\ FreeFds # {}
    /\ sock' = [sock EXCEPT ![LowestFree] = Opened(backlog, <<"hello">>)]
    /\ table' = Fd!AddFd(table, LowestFree, "passive", FALSE)
    /\ UNCHANGED <<conn, edge, peer, deaths, connects, workers, cur, events, counts>>

\* accept fails when the process has no descriptor left.
AcceptFails ==
    /\ mpc = "accept" /\ mpc' = "dispatch" /\ FreeFds = {}
    /\ UNCHANGED <<conn, table, kernel, environment, workers, cur, events, counts>>

MgmtTx ==
    /\ mpc = "tx" /\ mpc' = "recv" /\ ProcessTx
    /\ UNCHANGED <<environment, workers, cur, events>>

\* ... then one packet is received: nos_ipc_recv_handler.
NothingToRecv ==
    /\ mpc = "recv" /\ mpc' = "dispatch"
    /\ IsOpen(cur.fd) /\ ~Readable(cur.fd)
    /\ UNCHANGED <<conn, table, kernel, environment, workers, cur, events, counts>>

TakePacket == sock' = [sock EXCEPT ![cur.fd].rx = Tail(@)]

\* A message goes to its service, a HELLO names a link that has its name: the
\* link does not change.  Without a buffer any packet is thrown away.
RecvPacket ==
    /\ mpc = "recv" /\ mpc' = "dispatch"
    /\ IsOpen(cur.fd) /\ sock[cur.fd].rx # <<>>
    /\ TakePacket
    /\ UNCHANGED <<conn, table, edge, environment, workers, cur, events, counts>>

\* HELLO on a socket the peer opened makes it the link's socket.
Promote ==
    /\ mpc = "recv" /\ mpc' = "dispatch"
    /\ cur.callback = "passive" /\ IsOpen(cur.fd) /\ LockFree
    /\ sock[cur.fd].rx # <<>> /\ Head(sock[cur.fd].rx) = "hello"
    /\ TakePacket
    /\ fd' = cur.fd /\ is_connected' = TRUE
    /\ table' = Fd!AddFd(Fd!RemoveFd(table, cur.fd), cur.fd, "event", TRUE)
    /\ edge' = edge \cup {cur.fd}
    /\ UNCHANGED <<is_congested, tx_queue, environment, workers, cur, events, counts>>

\* The end of the connection, or a descriptor that is closed already: it is
\* removed and closed ...
DropSocket ==
    /\ mpc = "recv"
    /\ ~IsOpen(cur.fd) \/ (sock[cur.fd].rx = <<>> /\ ~IsLive(cur.fd))
    /\ mpc' = "drop"
    /\ UNCHANGED <<conn, table, kernel, environment, workers, cur, events, counts>>

CloseSocket ==
    /\ mpc = "drop"
    /\ CloseFd(Fd!RemoveFd(table, cur.fd), cur.fd)
    /\ mpc' = IF cur.callback = "event" THEN "forget_fd" ELSE "dispatch"
    /\ UNCHANGED <<conn, environment, workers, cur, events, counts>>

\* ... and, without the lock, the link loses its socket.
ForgetFd ==
    /\ mpc = "forget_fd" /\ mpc' = "forget_link"
    /\ fd' = NoFd
    /\ UNCHANGED <<is_connected, is_congested, tx_queue, table, kernel, environment,
                   workers, cur, events, counts>>

ForgetLink ==
    /\ mpc = "forget_link" /\ mpc' = "dispatch"
    /\ is_connected' = FALSE
    /\ UNCHANGED <<fd, is_congested, tx_queue, table, kernel, environment,
                   workers, cur, events, counts>>
-----------------------------------------------------------------------------
(* The peer. *)

PeerReads(s) ==
    /\ IsLive(s) /\ sock[s].tx > 0
    /\ sock' = [sock EXCEPT ![s].tx = @ - 1]
    /\ edge' = IF table.watch[s].et THEN edge \cup {s} ELSE edge
    /\ UNCHANGED <<conn, table, environment, workers, mgmt, counts>>

PeerSends(s) ==
    /\ IsLive(s) /\ Len(sock[s].rx) < RxBuf
    /\ sock' = [sock EXCEPT ![s].rx = Append(@, "data")]
    /\ edge' = IF table.watch[s].et THEN edge \cup {s} ELSE edge
    /\ UNCHANGED <<conn, table, environment, workers, mgmt, counts>>

PeerConnects ==
    /\ peer = "up" /\ backlog = "none" /\ connects < MaxConnects
    /\ backlog' = "live" /\ connects' = connects + 1
    /\ UNCHANGED <<conn, table, kernel, peer, deaths, workers, mgmt, counts>>

\* Its sockets are closed; what it had not read resets the connection.
PeerDies ==
    /\ peer = "up" /\ deaths < MaxDeaths
    /\ peer' = "down" /\ deaths' = deaths + 1
    /\ backlog' = IF backlog = "none" THEN "none" ELSE "dead"
    /\ sock' = [s \in Sockets |->
                   IF IsLive(s)
                   THEN Opened("dead", IF sock[s].tx > 0 THEN <<>> ELSE sock[s].rx)
                   ELSE sock[s]]
    /\ edge' = edge \cup {s \in Sockets : IsLive(s) /\ table.watch[s].et}
    /\ UNCHANGED <<conn, table, connects, workers, mgmt, counts>>

PeerRestarts ==
    /\ peer = "down" /\ peer' = "up"
    /\ UNCHANGED <<conn, table, kernel, backlog, deaths, connects, workers, mgmt, counts>>
-----------------------------------------------------------------------------
Worker(w) == Enqueue(w) \/ Reconnect(w) \/ Connected(w) \/ Register(w) \/ WorkerTx(w)

Mgmt == \/ EpollWait \/ DispatchEnd \/ Dispatch \/ Accept \/ AcceptFails
        \/ MgmtTx \/ NothingToRecv \/ RecvPacket \/ Promote
        \/ DropSocket \/ CloseSocket \/ ForgetFd \/ ForgetLink

Peer == \/ \E s \in Sockets : PeerReads(s) \/ PeerSends(s)
        \/ PeerConnects \/ PeerDies \/ PeerRestarts

Next == (\E w \in Workers : Worker(w)) \/ Mgmt \/ Peer

Fairness ==
    /\ WF_vars(Mgmt)
    /\ \A w \in Workers : WF_vars(Connected(w) \/ Register(w) \/ WorkerTx(w))
    /\ \A s \in Sockets : WF_vars(PeerReads(s))

Spec == Init /\ [][Next]_vars /\ Fairness
-----------------------------------------------------------------------------
(* Properties. *)

TypeOK ==
    /\ fd \in {NoFd} \cup Sockets
    /\ is_connected \in BOOLEAN /\ is_congested \in BOOLEAN
    /\ tx_queue \in Seq(0 .. MaxMsgs) /\ Len(tx_queue) < RingSize
    /\ table.entries \in [1 .. TableSize -> [fd : {ListenFd} \cup Sockets, callback : Callbacks]]
    /\ table.count \in 0 .. TableSize
    /\ sock \in [Sockets -> [state : {"closed", "live", "dead"}, tx : 0 .. SockBuf,
                             rx : Seq({"hello", "data"})]]
    /\ edge \subseteq Sockets
    /\ backlog \in {"none", "live", "dead"} /\ peer \in {"up", "down"}
    /\ wpc \in [Workers -> {"idle", "connected", "register", "tx"}]
    /\ seen \in [Workers -> [fd : {NoFd} \cup Sockets, count : 0 .. TableSize]]
    /\ mpc \in {"wait", "dispatch", "accept", "tx", "recv", "drop", "forget_fd", "forget_link"}
    /\ cur \in [fd : {ListenFd} \cup Sockets, callback : Callbacks]
    /\ events \subseteq ({ListenFd} \cup Sockets) \X (1 .. TableSize)
    /\ accepted \in 0 .. MaxMsgs /\ sent \in 0 .. MaxMsgs

\* What nos_ipc_send_enqueue_ex has accepted and the kernel has not taken is in
\* the ring, in order and once each, whatever failed and reconnected meanwhile
\* (nos_ipc_process_tx keeps its place when send fails or would block).
RingInOrder ==
    /\ sent <= accepted
    /\ {tx_queue[i] : i \in MessagesAt(tx_queue)} = sent + 1 .. accepted
    /\ \A i, j \in MessagesAt(tx_queue) : i < j => tx_queue[i] < tx_queue[j]

\* A link marked congested has packets in its ring: the mark cannot stay on a
\* link that has nothing left to send, where nothing would take it back
\* (nos_ipc_process_tx clears it, nos_ipc_send_enqueue_ex sets it).
CongestedHasBacklog == is_congested => tx_queue # <<>>

\* the epoll entry of socket s is its own, as event_handler's registration
\* made it
WellWatched(s) ==
    /\ Fd!Watched(table, s) /\ table.watch[s].et
    /\ table.entries[table.watch[s].slot] = [fd |-> s, callback |-> "event"]

\* What waits in the ring of a link that stays up is sent: the management
\* thread serves each reported edge, and the peer reads on.
BacklogDrained ==
    (tx_queue # <<>> /\ IsLive(fd) /\ WellWatched(fd)) ~>
        (tx_queue = <<>> \/ ~IsLive(fd) \/ ~WellWatched(fd))

\* the entry epoll points to for socket s is an entry of s
OwnEntry(s) == Fd!Watched(table, s) /\ table.entries[table.watch[s].slot].fd = s

\* An event is dispatched to the component that registered the descriptor: no
\* step of the management thread on one socket makes the events of another
\* run a different entry (nos_scheduler_remove_fd moves the last entry).
EntriesStay ==
    [][Mgmt => \A s \in Sockets :
          OwnEntry(s) /\ IsOpen(s) /\ IsOpen(s)' /\ Fd!Watched(table, s)' => OwnEntry(s)']_vars
=============================================================================
