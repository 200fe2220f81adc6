--------------------------- MODULE ShmNodesProofs ---------------------------
(***************************************************************************)
(* For every set of nodes, any table and however many processes die: as    *)
(* long as the table is not cleared under them, a name leads to the queue  *)
(* that its node receives from, and to no other node's.                    *)
(***************************************************************************)
EXTENDS ShmNodes, NaturalsInduction, WellFoundedInduction, TLAPS

\* The variables of the table and its protocol.
protocol == <<daemon, in_use, node_name, pc, idx, mishaps>>

\* Types of what the protocol reads and writes.
TableType ==
    /\ daemon \in {"absent", "init", "up"}
    /\ in_use \in [Slots -> {0, 1}] /\ node_name \in [Slots -> Nodes \cup {None}]
    /\ pc \in [Nodes -> {"down", "without", "wait", "deaf", "scan", "name", "reset",
                         "up", "drain", "advance"}]
    /\ idx \in [Nodes -> Slots]

\* Entries are taken from the first one on, named by who took them and once.
Prefix == \A i, j \in Slots : i < j /\ in_use[j] = 1 => in_use[i] = 1
NamedInUse == \A i \in Slots : node_name[i] # None => in_use[i] = 1
NameOnce == \A i, j \in Slots : node_name[i] # None /\ node_name[i] = node_name[j] => i = j

\* A node before its scan is at the first entry; one that scans has seen used
\* entries with other names behind it.
Before == \A n \in Nodes : pc[n] \in {"down", "without", "wait"} => idx[n] = 0
Scanned == \A n \in Nodes : pc[n] = "scan" =>
              \A j \in Slots : j < idx[n] => in_use[j] = 1 /\ node_name[j] # n

\* An entry that was claimed has no name yet, and its node none elsewhere;
\* from then on it has its node's name.
Claimed == \A n \in Nodes : pc[n] = "name" =>
              /\ in_use[idx[n]] = 1 /\ node_name[idx[n]] = None
              /\ \A j \in Slots : node_name[j] # n
Owned == \A n \in Nodes : Holds(n) /\ pc[n] # "name" => node_name[idx[n]] = n
Apart == \A n, m \in Nodes : n # m /\ pc[n] = "name" /\ pc[m] = "name" => idx[n] # idx[m]

\* Without a segment there is neither entry nor process attached.
Absent == daemon = "absent" =>
             /\ \A i \in Slots : in_use[i] = 0
             /\ \A n \in Nodes : pc[n] \in {"down", "without"}

Ordered == Prefix /\ NamedInUse /\ NameOnce /\ Scanned /\ Claimed /\ Owned /\ Apart

NInv == TableType /\ Before /\ Absent /\ ("cleared" \notin mishaps => Ordered)

\* A table that follows the protocol resolves names.
LEMMA OrderedResolves == ASSUME TableType, Ordered, NodesAssumption
                         PROVE  /\ \A n, m \in Nodes : n # m /\ Holds(n) /\ Holds(m) => idx[n] # idx[m]
                                /\ \A n \in Nodes : \A i, j \in Named(n) : i = j
                                /\ \A n \in Nodes : Serves(n) => Named(n) = {idx[n]}
<1>1. None \notin Nodes
    BY NodesAssumption
<1>2. ASSUME NEW n \in Nodes, NEW m \in Nodes, n # m, Holds(n), Holds(m)
      PROVE  idx[n] # idx[m]
    BY <1>1, <1>2 DEF Ordered, Claimed, Owned, Apart
<1>3. \A n \in Nodes : \A i, j \in Named(n) : i = j
    BY <1>1 DEF Ordered, NameOnce, Named
<1>4. ASSUME NEW n \in Nodes, Serves(n)
      PROVE  Named(n) = {idx[n]}
  <2>1. idx[n] \in Slots /\ node_name[idx[n]] = n
    BY <1>4 DEF Ordered, Owned, Holds, Serves, TableType
  <2>2. idx[n] \in Named(n)
    BY <1>1, <2>1 DEF Ordered, NamedInUse, Named
  <2> QED
    BY <1>3, <2>2
<1> QED
    BY <1>2, <1>3, <1>4

\* At the start there is no segment and no process.
LEMMA InitNInv == Init => NInv
BY NodesAssumption DEF Init, NInv, TableType, Before, Absent, Ordered, Prefix, NamedInUse,
   NameOnce, Scanned, Claimed, Owned, Apart, Holds, Serves, Slots

\* A node that goes from one place of its program to another, by a step that
\* leaves the table and its entry alone.
Moves(n, from, to) ==
    /\ pc[n] \in from /\ \E x \in to : pc' = [pc EXCEPT ![n] = x]
    /\ UNCHANGED <<daemon, in_use, node_name, idx, mishaps>>

\* Steps of the daemon and of a registered node that the table does not see.
LEMMA StepKinds ==
    ASSUME Next
    PROVE  \/ UNCHANGED <<in_use, node_name, pc, idx, mishaps>> /\ daemon = "init" /\ daemon' = "up"
           \/ UNCHANGED protocol
           \/ DaemonCreate
           \/ \E n \in Nodes :
                 \/ Start(n) \/ SeeMagic(n) \/ GiveUp(n) \/ Claim(n) \/ Match(n) \/ Skip(n)
                 \/ Name(n) \/ Reset(n) \/ Crash(n)
                 \/ Moves(n, {"up", "drain", "advance"}, {"up", "drain", "advance"})
<1>1. CASE DaemonReady
    BY <1>1 DEF DaemonReady, table, nodes
<1>2. ASSUME NEW p \in Nodes, Send(p)
      PROVE  UNCHANGED protocol
    BY <1>2 DEF Send, EnqueueBusy, EnqueueClaim, EnqueueStore, Ring, table, nodes, protocol
<1>3. ASSUME NEW p \in Nodes, NEW n \in Nodes, Lookup(p, n)
      PROVE  UNCHANGED protocol
    BY <1>3 DEF Lookup, table, nodes, protocol
<1>4. ASSUME NEW n \in Nodes, Receive(n)
      PROVE  Moves(n, {"up", "drain", "advance"}, {"up", "drain", "advance"})
    BY <1>4 DEF Receive, Event, DequeueEmpty, Dequeue, Advance, Goto, Moves, table
<1> QED
    BY <1>1, <1>2, <1>3, <1>4 DEF Next, Register

\* No step of the daemon, of a registration or of a crash leaves the invariant.
LEMMA NInvStep ==
    ASSUME NInv, [Next]_vars
    PROVE  NInv'
<1> USE NodesAssumption DEF NInv, TableType, Before, Absent
<1>1. ASSUME UNCHANGED <<in_use, node_name, pc, idx, mishaps>>,
             daemon' = daemon \/ (daemon = "init" /\ daemon' = "up")
      PROVE  NInv'
    BY <1>1 DEF Ordered, Prefix, NamedInUse, NameOnce, Scanned, Claimed, Owned, Apart,
                Holds, Serves
<1>2. CASE UNCHANGED vars
  <2>1. UNCHANGED <<in_use, node_name, pc, idx, mishaps, daemon>>
    BY <1>2 DEF vars, table, nodes
  <2> QED
    BY <1>1, <2>1
<1>3. CASE DaemonCreate
  <2>1. /\ in_use' = [i \in Slots |-> 0] /\ node_name' = [i \in Slots |-> None]
        /\ pc' = pc /\ idx' = idx /\ daemon' = "init"
    BY <1>3 DEF DaemonCreate, EmptyTable, nodes
  <2>2. TableType' /\ Before' /\ Absent'
    BY <2>1
  <2>3. ASSUME "cleared" \notin mishaps'
        PROVE  Ordered'
    <3>1. "cleared" \notin mishaps /\ \A i \in Slots : in_use[i] = 0
      BY <1>3, <2>3 DEF DaemonCreate
    <3>2. \A n \in Nodes : ~Holds(n) /\ (pc[n] = "scan" => \A j \in Slots : ~(j < idx[n]))
      BY <3>1 DEF Ordered, NamedInUse, Scanned, Claimed, Owned, Holds, Serves
    <3> QED
      BY <2>1, <3>2 DEF Ordered, Prefix, NamedInUse, NameOnce, Scanned, Claimed, Owned,
                        Apart, Holds, Serves
  <2> QED
    BY <2>2, <2>3
<1>4. ASSUME NEW n \in Nodes, NEW x \in {"down", "without", "wait", "deaf", "scan"},
             pc[n] \in {"down", "without", "wait"}, pc' = [pc EXCEPT ![n] = x],
             daemon # "absent" \/ x = "without",
             UNCHANGED <<daemon, in_use, node_name, idx, mishaps>>
      PROVE  NInv'
  <2>1. TableType' /\ Before' /\ Absent'
    BY <1>4
  <2>2. idx[n] = 0
    BY <1>4
  <2> QED
    BY <1>4, <2>1, <2>2 DEF Slots, Ordered, Prefix, NamedInUse, NameOnce, Scanned, Claimed,
                            Owned, Apart, Holds, Serves
<1>5. ASSUME NEW n \in Nodes, Start(n) \/ SeeMagic(n) \/ GiveUp(n)
      PROVE  NInv'
    BY <1>4, <1>5 DEF Start, SeeMagic, GiveUp, Goto, table
<1>6. ASSUME NEW n \in Nodes, Claim(n)
      PROVE  NInv'
  <2> DEFINE i == idx[n]
  <2>1. /\ i \in Slots /\ pc[n] = "scan" /\ pc' = [pc EXCEPT ![n] = "name"]
        /\ in_use[i] = 0 /\ in_use' = [in_use EXCEPT ![i] = 1]
        /\ UNCHANGED <<daemon, node_name, idx, mishaps>>
    BY <1>6 DEF Claim, Goto
  <2> HIDE DEF i
  <2>2. TableType' /\ Before' /\ Absent'
    BY <2>1
  <2>3. ASSUME Ordered
        PROVE  Ordered'
    <3>1. \A j \in Slots : j < i => in_use[j] = 1 /\ node_name[j] # n
      BY <2>1, <2>3 DEF i, Ordered, Scanned
    <3>2. \A j \in Slots : j >= i => in_use[j] = 0 /\ node_name[j] = None
      BY <2>1, <2>3 DEF Ordered, Prefix, NamedInUse, Slots
    <3>3. /\ node_name[i] = None /\ \A j \in Slots : node_name[j] # n
      BY <2>1, <3>1, <3>2 DEF Slots
    <3>4. Prefix' /\ NamedInUse' /\ NameOnce'
      BY <2>1, <2>3, <3>1, <3>2 DEF Ordered, Prefix, NamedInUse, NameOnce, Slots
    <3>5. Scanned'
      BY <2>1, <2>3 DEF Ordered, Scanned
    <3>6. Claimed' /\ Apart'
      BY <2>1, <2>3, <3>3 DEF i, Ordered, Claimed, Apart
    <3>7. Owned'
      BY <2>1, <2>3 DEF Ordered, Owned, Holds, Serves
    <3> QED
      BY <3>4, <3>5, <3>6, <3>7 DEF Ordered
  <2> QED
    BY <2>1, <2>2, <2>3
<1>7. ASSUME NEW n \in Nodes, Match(n)
      PROVE  NInv'
  <2>1. /\ pc[n] = "scan" /\ pc' = [pc EXCEPT ![n] = "up"] /\ node_name[idx[n]] = n
        /\ UNCHANGED <<daemon, in_use, node_name, idx, mishaps>>
    BY <1>7 DEF Match, Goto, table
  <2> QED
    BY <2>1 DEF Ordered, Prefix, NamedInUse, NameOnce, Scanned, Claimed, Owned, Apart,
                Holds, Serves
<1>8. ASSUME NEW n \in Nodes, Skip(n)
      PROVE  NInv'
  <2>1. /\ pc[n] = "scan" /\ in_use[idx[n]] = 1 /\ node_name[idx[n]] # n
        /\ UNCHANGED <<daemon, in_use, node_name, mishaps>>
    BY <1>8 DEF Skip, table
  <2>2. CASE pc' = [pc EXCEPT ![n] = "deaf"] /\ UNCHANGED idx
    BY <2>1, <2>2 DEF Ordered, Prefix, NamedInUse, NameOnce, Scanned, Claimed, Owned, Apart,
                      Holds, Serves
  <2>3. CASE idx[n] < Entries - 1 /\ idx' = [idx EXCEPT ![n] = @ + 1] /\ UNCHANGED pc
    <3>1. TableType' /\ Before' /\ Absent'
      BY <2>1, <2>3 DEF Slots
    <3>2. ASSUME Ordered
          PROVE  Scanned'
      BY <2>1, <2>3, <3>2 DEF Ordered, Scanned, Slots
    <3>3. ASSUME Ordered
          PROVE  Prefix' /\ NamedInUse' /\ NameOnce' /\ Claimed' /\ Owned' /\ Apart'
      BY <2>1, <2>3, <3>3 DEF Ordered, Prefix, NamedInUse, NameOnce, Claimed, Owned, Apart,
                              Holds, Serves
    <3> QED
      BY <2>1, <3>1, <3>2, <3>3 DEF Ordered
  <2> QED
    BY <1>8, <2>2, <2>3 DEF Skip
<1>9. ASSUME NEW n \in Nodes, Name(n)
      PROVE  NInv'
  <2>1. /\ pc[n] = "name" /\ pc' = [pc EXCEPT ![n] = "reset"]
        /\ node_name' = [node_name EXCEPT ![idx[n]] = n] /\ idx[n] \in Slots
        /\ UNCHANGED <<daemon, in_use, idx, mishaps>>
    BY <1>9 DEF Name, Goto
  <2>2. TableType' /\ Before' /\ Absent'
    BY <2>1
  <2>3. ASSUME Ordered
        PROVE  Ordered'
    <3>1. Prefix' /\ NamedInUse' /\ NameOnce'
      BY <2>1, <2>3 DEF Ordered, Prefix, NamedInUse, NameOnce, Claimed
    <3>2. Scanned' /\ Claimed' /\ Apart'
      BY <2>1, <2>3 DEF Ordered, Scanned, Claimed, Apart
    <3>3. Owned'
      BY <2>1, <2>3 DEF Ordered, Owned, Claimed, Holds, Serves
    <3> QED
      BY <3>1, <3>2, <3>3 DEF Ordered
  <2> QED
    BY <2>1, <2>2, <2>3
<1>10. ASSUME NEW n \in Nodes, Reset(n)
       PROVE  NInv'
  <2>1. /\ pc[n] = "reset" /\ pc' = [pc EXCEPT ![n] = "up"]
        /\ UNCHANGED <<daemon, in_use, node_name, idx>>
        /\ "cleared" \in mishaps' <=> "cleared" \in mishaps
    BY <1>10 DEF Reset, Goto, table
  <2> QED
    BY <2>1 DEF Ordered, Prefix, NamedInUse, NameOnce, Scanned, Claimed, Owned, Apart,
                Holds, Serves
<1>11. ASSUME NEW n \in Nodes, Crash(n)
       PROVE  NInv'
  <2>1. /\ pc' = [pc EXCEPT ![n] = "down"] /\ idx' = [idx EXCEPT ![n] = 0]
        /\ UNCHANGED <<daemon, in_use, node_name>>
        /\ "cleared" \in mishaps' <=> "cleared" \in mishaps
        /\ 0 \in Slots
    BY <1>11 DEF Crash, table, Slots
  <2> QED
    BY <2>1 DEF Ordered, Prefix, NamedInUse, NameOnce, Scanned, Claimed, Owned, Apart,
                Holds, Serves
<1>12. ASSUME NEW n \in Nodes, Moves(n, {"up", "drain", "advance"}, {"up", "drain", "advance"})
       PROVE  NInv'
    BY <1>12 DEF Moves, Ordered, Prefix, NamedInUse, NameOnce, Scanned, Claimed, Owned,
                 Apart, Holds, Serves
<1>13. CASE UNCHANGED protocol
    BY <1>1, <1>13 DEF protocol
<1> QED
    BY <1>1, <1>2, <1>3, <1>5, <1>6, <1>7, <1>8, <1>9, <1>10, <1>11, <1>12, <1>13, StepKinds

\* Nodes that look each other up in the shared segment meet at the right
\* queue, however many they are and however often they die while they
\* register (nos_shm_init, nos_shm_get_remote_queue).
THEOREM NamesResolve == Spec => []NameIsQueue
<1>1. NInv /\ [Next]_vars => NInv'
    BY NInvStep
<1>2. NInv => NameIsQueue
    BY OrderedResolves, NodesAssumption DEF NInv, NameIsQueue
<1> QED
    BY InitNInv, <1>1, <1>2, PTL DEF Spec
-----------------------------------------------------------------------------
(* The types of everything else: what a send carries from step to step. *)

Calls == [step : {"none", "claim", "store", "ring"}, to : Nodes \cup {None}, slot : Slots,
          place : Places, msg : Msgs \cup {0}]

CallType ==
    /\ call \in [Nodes -> Calls]
    /\ \A n \in Nodes : call[n].step # "none" => call[n].to \in Nodes /\ call[n].msg \in Msgs
    /\ sent \in 0 .. MaxMsgs

QueueType ==
    /\ head \in [Slots -> Places] /\ tail \in [Slots -> Places]
    /\ offsets \in [Slots -> [Places -> Msgs \cup {0}]]

NodeType ==
    /\ bell \in [Nodes -> BOOLEAN] /\ waiting \in [Nodes -> SUBSET Msgs]
    /\ mishaps \subseteq {"cleared", "early", "torn"}

TInv == NInv /\ CallType /\ QueueType /\ NodeType

\* A set of naturals has a least element.
LEMMA LeastNatural ==
    ASSUME NEW T, T \subseteq Nat, T # {}
    PROVE  \E m \in T : \A l \in T : m <= l
<1>1. PICK m \in T : \A l \in T : ~(<<l, m>> \in OpToRel(<, Nat))
    BY NatLessThanWellFounded, WFMin, Zenon
<1>2. \A l \in T : ~(<<l, m>> \in {ss \in Nat \X Nat : ss[1] < ss[2]})
    BY <1>1, Zenon DEF OpToRel
<1>3. \A l \in T : ~(l < m)
    BY <1>2
<1> QED
    BY <1>3

\* nos_shm_get_remote_queue finds an entry of the table, if there is one.
LEMMA FirstIsEntry ==
    ASSUME NEW n \in Nodes, Named(n) # {}
    PROVE  First(Named(n)) \in Slots
<1>1. Named(n) \subseteq Slots /\ Named(n) \subseteq Nat
    BY NodesAssumption DEF Named, Slots
<1>2. \E i \in Named(n) : \A j \in Named(n) : i <= j
    BY <1>1, LeastNatural
<1> QED
    BY <1>1, <1>2 DEF First

\* The place after a place is a place.
LEMMA AfterType == ASSUME NEW p \in Places PROVE After(p) \in Places
BY NodesAssumption DEF After, Places

LEMMA InitTInv == Init => TInv
<1> SUFFICES ASSUME Init PROVE TInv
    OBVIOUS
<1>1. 0 \in Slots /\ 0 \in Places /\ 0 \in 0 .. MaxMsgs
    BY NodesAssumption DEF Slots, Places
<1>2. NoCall \in Calls /\ NoCall.step = "none"
    BY <1>1 DEF NoCall, Calls
<1>3. CallType
    BY <1>1, <1>2 DEF Init, CallType
<1>4. QueueType
    BY <1>1 DEF Init, QueueType
<1>5. NodeType
    BY DEF Init, NodeType
<1> QED
    BY InitNInv, <1>3, <1>4, <1>5 DEF TInv

\* A node's call changes to another one that is well formed.
LEMMA CallChanges ==
    ASSUME CallType, NEW p \in Nodes, NEW c \in Calls, call' = [call EXCEPT ![p] = c],
           c.step # "none" => c.to \in Nodes /\ c.msg \in Msgs, sent' \in 0 .. MaxMsgs
    PROVE  CallType'
BY DEF CallType

LEMMA TInvStep ==
    ASSUME TInv, [Next]_vars
    PROVE  TInv'
<1>0. CallType /\ QueueType /\ NodeType /\ TableType
    BY DEF TInv, NInv
<1>1. NInv'
    BY NInvStep DEF TInv
<1>2. 0 \in Slots /\ 0 \in Places /\ NoCall \in Calls /\ NoCall.step = "none"
    BY NodesAssumption DEF Slots, Places, NoCall, Calls
<1>3. ASSUME NEW p \in Nodes
      PROVE  /\ call[p] \in Calls /\ idx[p] \in Slots
             /\ call[p].step # "none" => call[p].to \in Nodes /\ call[p].msg \in Msgs
    BY <1>0 DEF CallType, TableType
<1>4. ASSUME UNCHANGED <<call, sent>> PROVE CallType'
    BY <1>0, <1>4 DEF CallType
<1>5. ASSUME UNCHANGED <<head, tail, offsets>> PROVE QueueType'
    BY <1>0, <1>5 DEF QueueType
<1>6. ASSUME UNCHANGED <<bell, waiting, mishaps>> PROVE NodeType'
    BY <1>0, <1>6 DEF NodeType
<1>7. ASSUME UNCHANGED <<bell, waiting>>, \E x \in {"cleared", "early", "torn"} : mishaps' \in {mishaps, mishaps \cup {x}}
      PROVE  NodeType'
    BY <1>0, <1>7 DEF NodeType
<1>8. CASE UNCHANGED vars
  <2>1. UNCHANGED <<call, sent, head, tail, offsets, bell, waiting, mishaps>>
    BY <1>8 DEF vars, queues, nodes, counts
  <2> QED
    BY <1>1, <1>4, <1>5, <1>6, <2>1 DEF TInv
<1>9. CASE DaemonCreate
  <2>1. CallType'
    BY <1>4, <1>9 DEF DaemonCreate
  <2>2. QueueType'
    BY <1>2, <1>9 DEF DaemonCreate, EmptyTable, QueueType
  <2>3. NodeType'
    BY <1>7, <1>9 DEF DaemonCreate, nodes
  <2> QED
    BY <1>1, <2>1, <2>2, <2>3 DEF TInv
<1>10. CASE DaemonReady
    BY <1>1, <1>4, <1>5, <1>6, <1>10 DEF DaemonReady, queues, nodes, counts, TInv
<1>11. ASSUME NEW n \in Nodes, Start(n) \/ GiveUp(n) \/ SeeMagic(n) \/ Claim(n) \/ Match(n) \/ Skip(n) \/ Name(n)
       PROVE  TInv'
    BY <1>1, <1>4, <1>5, <1>6, <1>11
       DEF Start, GiveUp, SeeMagic, Claim, Match, Skip, Name, queues, counts, TInv
<1>12. ASSUME NEW n \in Nodes, Reset(n) PROVE TInv'
  <2>1. CallType'
    BY <1>4, <1>12 DEF Reset, counts
  <2>2. QueueType'
    BY <1>0, <1>2, <1>3, <1>12 DEF Reset, QueueType
  <2>3. NodeType'
    BY <1>7, <1>12 DEF Reset
  <2> QED
    BY <1>1, <2>1, <2>2, <2>3 DEF TInv
<1>13. ASSUME NEW p \in Nodes, NEW n \in Nodes, Lookup(p, n) PROVE TInv'
  <2>1. First(Named(n)) \in Slots /\ sent + 1 \in Msgs /\ sent + 1 \in 0 .. MaxMsgs
    BY <1>0, <1>13, FirstIsEntry, NodesAssumption DEF Lookup, CallType, Msgs
  <2> DEFINE c == [NoCall EXCEPT !.step = "claim", !.to = n, !.slot = First(Named(n)), !.msg = sent + 1]
  <2>2. c \in Calls /\ c.to \in Nodes /\ c.msg \in Msgs
    BY <1>2, <2>1 DEF NoCall, Calls
  <2>3. call' = [call EXCEPT ![p] = c] /\ sent' = sent + 1
    BY <1>13 DEF Lookup
  <2> HIDE DEF c
  <2>4. CallType'
    BY <1>0, <2>1, <2>2, <2>3, CallChanges
  <2> QED
    BY <1>1, <1>5, <1>6, <1>13, <2>4 DEF Lookup, queues, nodes, TInv
<1>14. ASSUME NEW p \in Nodes, EnqueueBusy(p) PROVE TInv'
  <2>1. CallType'
    BY <1>0, <1>2, <1>14, CallChanges DEF EnqueueBusy, counts, CallType
  <2> QED
    BY <1>1, <1>5, <1>6, <1>14, <2>1 DEF EnqueueBusy, queues, nodes, TInv
<1>15. ASSUME NEW p \in Nodes, EnqueueClaim(p) PROVE TInv'
  <2>1. PICK i \in Slots : i = call[p].slot
    BY <1>3 DEF Calls
  <2>2. tail[i] \in Places /\ After(tail[i]) \in Places
    BY <1>0, AfterType DEF QueueType
  <2> DEFINE c == [call[p] EXCEPT !.step = "store", !.place = tail[i]]
  <2>3. /\ tail' = [tail EXCEPT ![i] = After(tail[i])] /\ call' = [call EXCEPT ![p] = c]
        /\ waiting' = [waiting EXCEPT ![call[p].to] = @ \cup {call[p].msg}]
        /\ UNCHANGED <<head, offsets, bell, mishaps, sent>>
        /\ call[p].step = "claim"
    BY <1>0, <1>15, <2>1 DEF EnqueueClaim, nodes, counts, CallType, QueueType
  <2>4. call[p].to \in Nodes /\ call[p].msg \in Msgs
    BY <1>3, <2>3
  <2>5. c \in Calls /\ c.to \in Nodes /\ c.msg \in Msgs
    <3>1. PICK r \in Calls : r = call[p]
      BY <1>3
    <3>2. PICK t \in Places : t = tail[i]
      BY <2>2
    <3>3. c = [r EXCEPT !.step = "store", !.place = t]
      BY <3>1, <3>2
    <3> HIDE DEF c
    <3>4. r.to \in Nodes /\ r.msg \in Msgs
      BY <2>4, <3>1
    <3> QED
      BY <3>3, <3>4 DEF Calls
  <2> HIDE DEF c
  <2>6. CallType'
    BY <1>0, <2>3, <2>5, CallChanges DEF CallType
  <2>7. QueueType'
    BY <1>0, <2>2, <2>3 DEF QueueType
  <2>8. NodeType'
    BY <1>0, <2>3, <2>4 DEF NodeType
  <2> QED
    BY <1>1, <2>6, <2>7, <2>8 DEF TInv
<1>16. ASSUME NEW p \in Nodes, EnqueueStore(p) PROVE TInv'
  <2> DEFINE c == [call[p] EXCEPT !.step = "ring"]
  <2>1. call[p].step = "store" /\ call' = [call EXCEPT ![p] = c] /\ sent' = sent
    BY <1>0, <1>16 DEF EnqueueStore, counts, CallType
  <2>2. c \in Calls /\ c.to \in Nodes /\ c.msg \in Msgs
    BY <1>3, <2>1 DEF Calls
  <2> HIDE DEF c
  <2>3. CallType'
    BY <1>0, <2>1, <2>2, CallChanges DEF CallType
  <2>4. call[p].slot \in Slots /\ call[p].place \in Places /\ call[p].msg \in Msgs
    BY <1>3, <2>1 DEF Calls
  <2>5. QueueType'
    BY <1>0, <1>16, <2>4 DEF EnqueueStore, QueueType
  <2> QED
    BY <1>1, <1>6, <1>16, <2>3, <2>5 DEF EnqueueStore, nodes, TInv
<1>17. ASSUME NEW p \in Nodes, Ring(p) PROVE TInv'
  <2>1. CallType'
    BY <1>0, <1>2, <1>17, CallChanges DEF Ring, counts, CallType
  <2>2. call[p].to \in Nodes
    BY <1>3, <1>17 DEF Ring
  <2>3. NodeType'
    BY <1>0, <1>17, <2>2 DEF Ring, NodeType
  <2> QED
    BY <1>1, <1>5, <1>17, <2>1, <2>3 DEF Ring, queues, TInv
<1>18. ASSUME NEW n \in Nodes, Event(n) \/ DequeueEmpty(n) PROVE TInv'
  <2>1. NodeType'
    BY <1>0, <1>18 DEF Event, DequeueEmpty, NodeType
  <2> QED
    BY <1>1, <1>4, <1>5, <1>18, <2>1 DEF Event, DequeueEmpty, queues, counts, TInv
<1>19. ASSUME NEW n \in Nodes, Dequeue(n) PROVE TInv'
  <2>1. QueueType'
    BY <1>0, <1>3, <1>19 DEF Dequeue, QueueType
  <2>2. NodeType'
    BY <1>0, <1>19 DEF Dequeue, NodeType
  <2> QED
    BY <1>1, <1>4, <1>19, <2>1, <2>2 DEF Dequeue, counts, TInv
<1>20. ASSUME NEW n \in Nodes, Advance(n) PROVE TInv'
  <2>1. head[idx[n]] \in Places /\ After(head[idx[n]]) \in Places
    BY <1>0, <1>3, AfterType DEF QueueType
  <2>2. QueueType'
    BY <1>0, <1>3, <1>20, <2>1 DEF Advance, QueueType
  <2> QED
    BY <1>1, <1>4, <1>6, <1>20, <2>2 DEF Advance, counts, TInv
<1>21. ASSUME NEW n \in Nodes, Crash(n) PROVE TInv'
  <2>1. CallType'
    BY <1>0, <1>2, <1>21, CallChanges DEF Crash, CallType
  <2>2. NodeType'
    BY <1>0, <1>21 DEF Crash, NodeType
  <2> QED
    BY <1>1, <1>5, <1>21, <2>1, <2>2 DEF Crash, queues, TInv
<1> QED
    BY <1>8, <1>9, <1>10, <1>11, <1>12, <1>13, <1>14, <1>15, <1>16, <1>17, <1>18, <1>19, <1>20, <1>21
       DEF Next, Register, Send, Receive

\* The words of the segment and the nodes' locals are of their types, whoever
\* dies: heads and tails stay within the queues, and what waits was sent.
THEOREM NodesTypeCorrect == Spec => []TypeOK
<1>1. TInv /\ [Next]_vars => TInv'
    BY TInvStep
<1>2. TInv => TypeOK
    BY DEF TInv, NInv, TableType, CallType, QueueType, NodeType, Calls, TypeOK
<1> QED
    BY InitTInv, <1>1, <1>2, PTL DEF Spec
=============================================================================
