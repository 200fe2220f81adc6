------------------------------ MODULE ShmNodes ------------------------------
(***************************************************************************)
(* How the processes of a host find each other in the shared segment       *)
(* (nos_shm_init, nos_shm_get_remote_queue, the daemon's                   *)
(* _nos_shm_create_and_init): a table of names, one receive queue per      *)
(* entry, and processes that die at any point and come back.               *)
(*                                                                         *)
(* An entry is never given back: a node that starts again finds its name   *)
(* and goes on with the queue as its predecessor left it.  What the queues *)
(* do word by word is in ShmTransport; here an enqueue is the claim of a   *)
(* slot and the store into it, and a dequeue the clearing of a slot and    *)
(* the move of head, for a process can die between the two.                *)
(***************************************************************************)
EXTENDS Integers

CONSTANTS
    Nodes,        \* the names in the manifests, one process each
    Entries,      \* how many entries the table has, 16 in the code
    QueueSize,    \* NOS_SHM_QUEUE_SIZE
    MaxMsgs,      \* bounds: messages sent, ...
    MaxCrashes,   \* ... processes that end, ...
    MaxRestarts,  \* ... restarts of the daemon
    None

ASSUME NodesAssumption ==
    /\ Entries \in Nat \ {0} /\ QueueSize \in Nat /\ QueueSize >= 2
    /\ MaxMsgs \in Nat /\ MaxCrashes \in Nat /\ MaxRestarts \in Nat
    /\ None \notin Nodes

Slots == 0 .. Entries - 1
Places == 0 .. QueueSize - 1
Msgs == 1 .. MaxMsgs

VARIABLES
    daemon,                 \* "absent", "init" (magic not set yet) or "up"
    in_use, node_name,      \* the table
    head, tail, offsets,    \* the receive queues; 0 is an empty place
    pc, idx,                \* where each node is, and its i or g_local_queue_idx
    bell,                   \* an SHM_EVENT waits at the node
    call,                   \* the enqueue a thread of each node is in
    sent, crashes, restarts,
    waiting,                \* history: accepted for a node and not received
    mishaps                 \* history: what the queues do not survive

table == <<in_use, node_name>>
queues == <<head, tail, offsets>>
nodes == <<pc, idx, bell>>
counts == <<sent, crashes, restarts>>
vars == <<daemon, table, queues, nodes, call, counts, waiting, mishaps>>

NoCall == [step |-> "none", to |-> None, slot |-> 0, place |-> 0, msg |-> 0]

EmptyTable ==
    /\ in_use' = [i \in Slots |-> 0] /\ node_name' = [i \in Slots |-> None]
    /\ head' = [i \in Slots |-> 0] /\ tail' = [i \in Slots |-> 0]
    /\ offsets' = [i \in Slots |-> [p \in Places |-> 0]]

Init ==
    /\ daemon = "absent"
    /\ in_use = [i \in Slots |-> 0] /\ node_name = [i \in Slots |-> None]
    /\ head = [i \in Slots |-> 0] /\ tail = [i \in Slots |-> 0]
    /\ offsets = [i \in Slots |-> [p \in Places |-> 0]]
    /\ pc = [n \in Nodes |-> "down"] /\ idx = [n \in Nodes |-> 0]
    /\ bell = [n \in Nodes |-> FALSE]
    /\ call = [n \in Nodes |-> NoCall]
    /\ sent = 0 /\ crashes = 0 /\ restarts = 0
    /\ waiting = [n \in Nodes |-> {}] /\ mishaps = {}

Goto(n, from, to) == pc[n] = from /\ pc' = [pc EXCEPT ![n] = to]
After(i) == (i + 1) % QueueSize

\* the node is registered and its threads run
Serves(n) == pc[n] \in {"up", "drain", "advance"}
-----------------------------------------------------------------------------
(* The daemon: _nos_shm_create_and_init *)

\* shm_open, ftruncate and memset: a new segment is all zero, and so is one
\* that is left from a daemon that was killed, whoever uses it.
DaemonCreate ==
    /\ daemon # "init" /\ daemon' = "init"
    /\ EmptyTable
    /\ IF daemon = "up"
       THEN /\ restarts < MaxRestarts /\ restarts' = restarts + 1
            /\ mishaps' = IF \E i \in Slots : in_use[i] = 1
                          THEN mishaps \cup {"cleared"} ELSE mishaps
       ELSE UNCHANGED <<restarts, mishaps>>
    /\ UNCHANGED <<nodes, call, sent, crashes, waiting>>

DaemonReady ==
    /\ daemon = "init" /\ daemon' = "up"
    /\ UNCHANGED <<table, queues, nodes, call, counts, waiting, mishaps>>
-----------------------------------------------------------------------------
(* A node's process: nos_shm_init *)

\* Without a segment nos_shm_init fails, and main goes on without it.
Start(n) ==
    /\ Goto(n, "down", IF daemon = "absent" THEN "without" ELSE "wait")
    /\ UNCHANGED <<daemon, table, queues, idx, bell, call, counts, waiting, mishaps>>

SeeMagic(n) ==
    /\ Goto(n, "wait", "scan")
    /\ daemon = "up"
    /\ UNCHANGED <<daemon, table, queues, idx, bell, call, counts, waiting, mishaps>>

\* After 50 looks it gives up: a node that can send and has no queue.
GiveUp(n) ==
    /\ Goto(n, "wait", "deaf")
    /\ daemon # "up"
    /\ UNCHANGED <<daemon, table, queues, idx, bell, call, counts, waiting, mishaps>>

Claim(n) ==
    /\ Goto(n, "scan", "name")
    /\ in_use[idx[n]] = 0
    /\ in_use' = [in_use EXCEPT ![idx[n]] = 1]
    /\ UNCHANGED <<daemon, node_name, queues, idx, bell, call, counts, waiting, mishaps>>

MatchAndRewind(n) ==   \* faulty variant: the old queue's head is reset
    /\ Goto(n, "scan", "up")
    /\ in_use[idx[n]] = 1 /\ node_name[idx[n]] = n
    /\ head' = [head EXCEPT ![idx[n]] = 0]
    /\ UNCHANGED <<daemon, table, tail, offsets, idx, bell, call, counts, waiting, mishaps>>

\* "Possibly an abnormal restart, reuse the old slot": queue and all.
Match(n) ==
    /\ Goto(n, "scan", "up")
    /\ in_use[idx[n]] = 1 /\ node_name[idx[n]] = n
    /\ UNCHANGED <<daemon, table, queues, idx, bell, call, counts, waiting, mishaps>>

SkipUsed(n) ==   \* faulty variant: the entry's name is not compared
    /\ pc[n] = "scan"
    /\ in_use[idx[n]] = 1
    /\ IF idx[n] < Entries - 1
       THEN idx' = [idx EXCEPT ![n] = @ + 1] /\ UNCHANGED pc
       ELSE pc' = [pc EXCEPT ![n] = "deaf"] /\ UNCHANGED idx
    /\ UNCHANGED <<daemon, table, queues, bell, call, counts, waiting, mishaps>>

Skip(n) ==
    /\ pc[n] = "scan"
    /\ in_use[idx[n]] = 1 /\ node_name[idx[n]] # n
    /\ IF idx[n] < Entries - 1
       THEN idx' = [idx EXCEPT ![n] = @ + 1] /\ UNCHANGED pc
       ELSE pc' = [pc EXCEPT ![n] = "deaf"] /\ UNCHANGED idx
    /\ UNCHANGED <<daemon, table, queues, bell, call, counts, waiting, mishaps>>

\* From here on senders find the queue, ...
Name(n) ==
    /\ Goto(n, "name", "reset")
    /\ node_name' = [node_name EXCEPT ![idx[n]] = n]
    /\ UNCHANGED <<daemon, in_use, queues, idx, bell, call, counts, waiting, mishaps>>

\* ... and what one of them has put there before it is reset is lost.
Reset(n) ==
    /\ Goto(n, "reset", "up")
    /\ head' = [head EXCEPT ![idx[n]] = 0] /\ tail' = [tail EXCEPT ![idx[n]] = 0]
    /\ mishaps' = IF tail[idx[n]] # 0 THEN mishaps \cup {"early"} ELSE mishaps
    /\ UNCHANGED <<daemon, table, offsets, idx, bell, call, counts, waiting>>
-----------------------------------------------------------------------------
(* A thread of a node that sends: nos_ipc_send_enqueue_shm *)

Named(n) == {i \in Slots : in_use[i] = 1 /\ node_name[i] = n}

\* nos_shm_get_remote_queue finds the first entry with the name.
First(S) == CHOOSE i \in S : \A j \in S : i <= j

Lookup(p, n) ==
    /\ Serves(p) \/ pc[p] = "deaf"
    /\ p # n /\ call[p] = NoCall /\ sent < MaxMsgs
    /\ Named(n) # {}
    /\ sent' = sent + 1
    /\ call' = [call EXCEPT ![p] = [NoCall EXCEPT !.step = "claim", !.to = n,
                                        !.slot = First(Named(n)), !.msg = sent + 1]]
    /\ UNCHANGED <<daemon, table, queues, nodes, crashes, restarts, waiting, mishaps>>

EnqueueBusy(p) ==
    /\ call[p].step = "claim"
    /\ After(tail[call[p].slot]) = head[call[p].slot]
    /\ call' = [call EXCEPT ![p] = NoCall]
    /\ UNCHANGED <<daemon, table, queues, nodes, counts, waiting, mishaps>>

EnqueueUnwrapped(p) ==   \* faulty variant: the tail does not wrap
    LET i == call[p].slot IN
    /\ call[p].step = "claim"
    /\ After(tail[i]) # head[i]
    /\ tail' = [tail EXCEPT ![i] = @ + 1]
    /\ call' = [call EXCEPT ![p].step = "store", ![p].place = tail[i]]
    /\ waiting' = [waiting EXCEPT ![call[p].to] = @ \cup {call[p].msg}]
    /\ UNCHANGED <<daemon, table, head, offsets, nodes, counts, mishaps>>

EnqueueClaim(p) ==
    LET i == call[p].slot IN
    /\ call[p].step = "claim"
    /\ After(tail[i]) # head[i]
    /\ tail' = [tail EXCEPT ![i] = After(@)]
    /\ call' = [call EXCEPT ![p].step = "store", ![p].place = tail[i]]
    /\ waiting' = [waiting EXCEPT ![call[p].to] = @ \cup {call[p].msg}]
    /\ UNCHANGED <<daemon, table, head, offsets, nodes, counts, mishaps>>

EnqueueStore(p) ==
    /\ call[p].step = "store"
    /\ offsets' = [offsets EXCEPT ![call[p].slot][call[p].place] = call[p].msg]
    /\ call' = [call EXCEPT ![p].step = "ring"]
    /\ UNCHANGED <<daemon, table, head, tail, nodes, counts, waiting, mishaps>>

\* The SHM_EVENT packet.  A node listens to others only when it has registered
\* (nos_node_main.c:39, 55); one that has no queue of its own ignores it.
Ring(p) ==
    /\ call[p].step = "ring"
    /\ bell' = [bell EXCEPT ![call[p].to] = @ \/ Serves(call[p].to)]
    /\ call' = [call EXCEPT ![p] = NoCall]
    /\ UNCHANGED <<daemon, table, queues, pc, idx, counts, waiting, mishaps>>
-----------------------------------------------------------------------------
(* The thread of a node that serves its links: nos_shm_mpsc_dequeue *)

Event(n) ==
    /\ Goto(n, "up", "drain")
    /\ bell[n] /\ bell' = [bell EXCEPT ![n] = FALSE]
    /\ UNCHANGED <<daemon, table, queues, idx, call, counts, waiting, mishaps>>

DequeueEmpty(n) ==
    /\ Goto(n, "drain", "up")
    /\ head[idx[n]] = tail[idx[n]]
    /\ UNCHANGED <<daemon, table, queues, idx, bell, call, counts, waiting, mishaps>>

\* It spins on a place that is claimed and not stored.
Dequeue(n) ==
    LET i == idx[n] IN
    /\ Goto(n, "drain", "advance")
    /\ head[i] # tail[i] /\ offsets[i][head[i]] # 0
    /\ waiting' = [waiting EXCEPT ![n] = @ \ {offsets[i][head[i]]}]
    /\ offsets' = [offsets EXCEPT ![i][head[i]] = 0]
    /\ UNCHANGED <<daemon, table, head, tail, idx, bell, call, counts, mishaps>>

Advance(n) ==
    /\ Goto(n, "advance", "drain")
    /\ head' = [head EXCEPT ![idx[n]] = After(@)]
    /\ UNCHANGED <<daemon, table, tail, offsets, idx, bell, call, counts, waiting, mishaps>>
-----------------------------------------------------------------------------
\* A process ends, at any point; nothing takes its entry back.  A place that
\* it has claimed and not stored, or cleared and not passed, stays that way.
Crash(n) ==
    /\ pc[n] # "down" /\ pc' = [pc EXCEPT ![n] = "down"]
    /\ crashes < MaxCrashes /\ crashes' = crashes + 1
    /\ idx' = [idx EXCEPT ![n] = 0] /\ bell' = [bell EXCEPT ![n] = FALSE]
    /\ call' = [call EXCEPT ![n] = NoCall]
    /\ mishaps' = IF pc[n] = "advance" \/ call[n].step = "store"
                  THEN mishaps \cup {"torn"} ELSE mishaps
    /\ UNCHANGED <<daemon, table, queues, sent, restarts, waiting>>

Register(n) == SeeMagic(n) \/ Claim(n) \/ Match(n) \/ Skip(n) \/ Name(n) \/ Reset(n)
Send(p) == EnqueueBusy(p) \/ EnqueueClaim(p) \/ EnqueueStore(p) \/ Ring(p)
Receive(n) == Event(n) \/ DequeueEmpty(n) \/ Dequeue(n) \/ Advance(n)

Next ==
    \/ DaemonCreate \/ DaemonReady
    \/ \E n \in Nodes :
          \/ Start(n) \/ GiveUp(n) \/ Register(n) \/ Send(n) \/ Receive(n) \/ Crash(n)
          \/ \E m \in Nodes : Lookup(n, m)

\* The threads of a process that lives go on; nobody has to start a process,
\* to send or to die.
Fairness == \A n \in Nodes : WF_vars(Send(n)) /\ WF_vars(Receive(n))

Spec == Init /\ [][Next]_vars /\ Fairness
-----------------------------------------------------------------------------
(* Properties. *)

\* Types of the segment's table and queues and of the nodes' locals.
TypeOK ==
    /\ daemon \in {"absent", "init", "up"}
    /\ in_use \in [Slots -> {0, 1}] /\ node_name \in [Slots -> Nodes \cup {None}]
    /\ head \in [Slots -> Places] /\ tail \in [Slots -> Places]
    /\ offsets \in [Slots -> [Places -> Msgs \cup {0}]]
    /\ pc \in [Nodes -> {"down", "without", "wait", "deaf", "scan", "name", "reset",
                         "up", "drain", "advance"}]
    /\ idx \in [Nodes -> Slots] /\ bell \in [Nodes -> BOOLEAN]
    /\ \A n \in Nodes :
          /\ call[n].step \in {"none", "claim", "store", "ring"}
          /\ call[n].to \in Nodes \cup {None} /\ call[n].msg \in Msgs \cup {0}
          /\ call[n].slot \in Slots /\ call[n].place \in Places
    /\ waiting \in [Nodes -> SUBSET Msgs] /\ mishaps \subseteq {"cleared", "early", "torn"}

\* the node has an entry
Holds(n) == pc[n] \in {"name", "reset"} \/ Serves(n)

\* However often nodes die and start again, and wherever they die, no two use
\* the same queue, a name is in one entry at most, and a sender that looks a
\* serving node up finds the queue that node receives from (nos_shm.c:90-104),
\* as long as no daemon clears the table under them.
NameIsQueue ==
    "cleared" \notin mishaps =>
        /\ \A n, m \in Nodes : n # m /\ Holds(n) /\ Holds(m) => idx[n] # idx[m]
        /\ \A n \in Nodes : \A i, j \in Named(n) : i = j
        /\ \A n \in Nodes : Serves(n) => Named(n) = {idx[n]}

\* "Possibly an abnormal restart, reuse the old slot" (nos_shm.c:101): a node
\* that is rung receives everything that was accepted for it, before it died or
\* since, unless it ends first or one of the mishaps has befallen a queue.
RungIsServed ==
    \A n \in Nodes, m \in Msgs :
        (Serves(n) /\ bell[n] /\ m \in waiting[n] /\ mishaps = {}) ~>
            (m \notin waiting[n] \/ ~Serves(n) \/ mishaps # {})
=============================================================================
