-------------------------- MODULE ShmTransportProofs --------------------------
(***************************************************************************)
(* What holds of ShmTransport for any number of senders, blocks and slots. *)
(* Until the free list is torn, reference counts are exact and no block is *)
(* lost; the receive queue is first-in first-out and nothing in it waits   *)
(* unannounced whatever becomes of the list, until a full queue is         *)
(* overrun, which takes a torn list.                                       *)
(*                                                                         *)
(* The invariant has two halves.  Core, about the threads' places and the  *)
(* queue, is kept by every step from itself alone; Pool, about the list    *)
(* and the references, is kept by every step that does not tear the list.  *)
(***************************************************************************)
EXTENDS ShmTransport, FiniteSetTheorems, SequenceTheorems, TLAPS

N == Cardinality(Blocks)

\* the places where a thread has a reference to its block, where a sender also
\* has the queue's, and where the block is on its way from or to the list
Holding == {"retain", "enqueue", "look", "claim", "store", "signal", "release", "deliver"}
Lending == {"enqueue", "look", "claim"}
Carrying == {"push", "swap", "count", "fresh"}

Holds(p, b) == blk[p] = b /\ pc[p] \in Holding
Lends(p, b) == blk[p] = b /\ (pc[p] \in Lending \/ p \in again)
Carries(p, b) == blk[p] = b /\ pc[p] \in Carrying

InQueue(b) == \E i \in DOMAIN accepted : accepted[i] = b

\* The three references a block may have at a time: its sender's, the one that
\* travels through the queue to the link thread, and the mailbox's.
Sent(b) == \E p \in Senders : Holds(p, b)
Underway(b) == (\E p \in Senders : Lends(p, b)) \/ InQueue(b) \/ Holds(Link, b)
Boxed(b) == inbox[b] # 0 \/ Holds(Worker, b)

One(x) == IF x THEN 1 ELSE 0

\* A block that nobody has.
Unused(b) == ref_count[b] = 0 /\ \A p \in Procs : ~Carries(p, b)

\* The position in the queue of the i-th message, counted from the head h.
At(h, i) == IF h + i - 1 < QueueSize THEN h + i - 1 ELSE h + i - 1 - QueueSize

Labels == {"idle", "next", "pop", "count", "fresh", "retain", "enqueue", "look", "claim",
           "store", "signal", "release", "push", "swap", "discount", "drain", "advance",
           "deliver"}

PoolTypes ==
    /\ free_list_head \in Blocks \cup {None}
    /\ next_free \in [Blocks -> Blocks \cup {None}]
    /\ ref_count \in [Blocks -> Int] /\ total_allocated \in Int
    /\ edge \in BOOLEAN /\ inbox \in [Blocks -> Nat]
    /\ mishaps \subseteq {"torn", "overrun"}

QueueTypes ==
    /\ head \in 0 .. QueueSize - 1 /\ tail \in 0 .. QueueSize - 1
    /\ offsets \in [0 .. QueueSize - 1 -> Blocks \cup {None}]
    /\ accepted \in Seq(Blocks)

LocalTypes ==
    /\ pc \in [Procs -> Labels]
    /\ blk \in [Procs -> Blocks \cup {None}]
    /\ seen \in [Procs -> Blocks \cup (0 .. QueueSize - 1) \cup {None}]
    /\ next \in [Procs -> Blocks \cup {None}]
    /\ again \subseteq Senders

Types == PoolTypes /\ QueueTypes /\ LocalTypes

\* Which thread may be where.
Placed(p) ==
    /\ p \in Senders => pc[p] \notin {"drain", "advance", "deliver"}
    /\ p = Link => pc[p] \in {"idle", "drain", "advance", "deliver", "release", "push",
                              "swap", "discount"}
    /\ p = Worker => pc[p] \in {"idle", "release", "push", "swap", "discount"}

\* What a thread has in its locals.
LocalOk(p) ==
    /\ Placed(p)
    /\ pc[p] \in Holding \cup Carrying \cup {"advance", "discount"} => blk[p] \in Blocks
    /\ pc[p] \in {"next", "pop"} => seen[p] \in Blocks
    /\ pc[p] \in {"look", "claim", "store"} => seen[p] \in 0 .. QueueSize - 1
    /\ p \in again => pc[p] \in {"release", "push", "swap", "discount"}
Locals == \A p \in Procs : LocalOk(p)

\* QueueIsFifo by positions, and with whose block a clear slot waits for.
QueueOk ==
    /\ Len(accepted) < QueueSize
    /\ tail = At(head, Len(accepted) + 1)
    /\ \A i \in DOMAIN accepted :
          \/ offsets[At(head, i)] = accepted[i]
          \/ /\ offsets[At(head, i)] = None
             /\ \E p \in Senders : pc[p] = "store" /\ seen[p] = At(head, i) /\ blk[p] = accepted[i]
          \/ i = 1 /\ pc[Link] = "advance"
    /\ \A i \in Len(accepted) + 1 .. QueueSize : offsets[At(head, i)] = None
    /\ \A p \in Senders : pc[p] = "store" =>
          \E i \in DOMAIN accepted :
              /\ accepted[i] = blk[p] /\ seen[p] = At(head, i) /\ offsets[At(head, i)] = None
              /\ i = 1 => pc[Link] # "advance"
    /\ \A p, q \in Senders :
          pc[p] = "store" /\ pc[q] = "store" /\ seen[p] = seen[q] => p = q
    /\ pc[Link] = "advance" =>
          accepted # <<>> /\ blk[Link] = accepted[1] /\ offsets[head] = None

Core ==
    /\ Types /\ Locals /\ NoneStranded
    /\ "overrun" \notin mishaps => QueueOk

\* ref_count says which of the three references there are.
Counts ==
    \A b \in Blocks : ref_count[b] = One(Sent(b)) + One(Underway(b)) + One(Boxed(b))

\* Each of the three references is in one place.
Once ==
    /\ \A p, q \in Senders : \A b \in Blocks : Holds(p, b) /\ Holds(q, b) => p = q
    /\ \A i, j \in DOMAIN accepted : accepted[i] = accepted[j] => i = j
    /\ \A b \in Blocks :
          /\ InQueue(b) => ~Holds(Link, b) /\ \A p \in Senders : ~Lends(p, b)
          /\ Holds(Link, b) => \A p \in Senders : ~Lends(p, b)
          /\ inbox[b] # 0 => inbox[b] = 1 /\ ~Holds(Worker, b)

\* A block on its way is in the hands of one thread, and has no reference.
CarriedOnce ==
    \A b \in Blocks, p \in Procs : Carries(p, b) =>
        ref_count[b] = 0 /\ \A q \in Procs : Carries(q, b) => p = q

\* The references appear in the order of the code, and the last one is never
\* the queue's while its sender has it.
Stages ==
    /\ \A p \in Senders : pc[p] = "retain" => ref_count[blk[p]] = 1
    /\ \A p \in again : pc[p] = "release"
    /\ \A b \in Blocks :
          (\E p \in Senders : Lends(p, b)) \/ InQueue(b) \/ (pc[Link] = "deliver" /\ blk[Link] = b)
              => ~Boxed(b)

\* A block is linked to the head that its pusher has read.
Linkage == \A p \in Procs : pc[p] = "swap" => seen[p] = next_free[blk[p]]

\* The free list is f[1] .. f[n].
ListIs(n, f) ==
    /\ n \in Nat /\ f \in [1 .. n -> Blocks]
    /\ \A i, j \in 1 .. n : f[i] = f[j] => i = j
    /\ free_list_head = IF n = 0 THEN None ELSE f[1]
    /\ \A i \in 1 .. n : next_free[f[i]] = IF i = n THEN None ELSE f[i + 1]

\* The free list has the blocks that nobody has.
FreeList ==
    \E n \in 0 .. N : \E f \in [1 .. n -> Blocks] :
        /\ ListIs(n, f)
        /\ \A b \in Blocks : Unused(b) <=> \E i \in 1 .. n : f[i] = b

\* total_allocated counts the others, but for the threads between the list and
\* the counter.
Taken == {b \in Blocks : ~Unused(b)}
Tally == total_allocated = Cardinality(Taken) - Cardinality(Popped) + Cardinality(Pushed)

Pool ==
    /\ "overrun" \notin mishaps
    /\ Counts /\ Once /\ CarriedOnce /\ Stages /\ Linkage /\ FreeList /\ Tally

IInv == Core /\ ("torn" \notin mishaps => Pool)
-----------------------------------------------------------------------------
(* Lemmas about slots and counters. *)

\* The queue has more slots than there are blocks.
LEMMA Sizes ==
    /\ N \in Nat /\ N > 0 /\ QueueSize \in Nat /\ N < QueueSize
    /\ IsFiniteSet(Blocks)
BY FS_CardinalityType, FS_EmptySet, ShmAssumption DEF N

\* A slot index wraps at most once, in either direction.
LEMMA ModIs ==
    ASSUME NEW x \in Int, 0 - QueueSize <= x, x < 2 * QueueSize
    PROVE  x % QueueSize = IF x < 0 THEN x + QueueSize
                           ELSE IF x < QueueSize THEN x ELSE x - QueueSize
<1>1. CASE x < 0
  <2> DEFINE y == x + QueueSize
  <2>1. y \in 0 .. QueueSize - 1 /\ x = QueueSize * (-1) + y
    BY <1>1, Sizes
  <2> HIDE DEF y
  <2>2. (QueueSize * (-1) + y) % QueueSize = y
    BY <2>1, Sizes
  <2> QED
    BY <1>1, <2>1, <2>2 DEF y
<1>2. CASE 0 <= x /\ x < QueueSize
    BY <1>2, Sizes
<1>3. CASE QueueSize <= x
  <2> DEFINE y == x - QueueSize
  <2>1. y \in 0 .. QueueSize - 1 /\ x = QueueSize * 1 + y
    BY <1>3, Sizes
  <2> HIDE DEF y
  <2>2. (QueueSize * 1 + y) % QueueSize = y
    BY <2>1, Sizes
  <2> QED
    BY <1>3, <2>1, <2>2, Sizes DEF y
<1> QED
    BY <1>1, <1>2, <1>3, Sizes

\* The slot after a slot.
LEMMA AfterIs ==
    ASSUME NEW h \in 0 .. QueueSize - 1
    PROVE  After(h) = (IF h + 1 = QueueSize THEN 0 ELSE h + 1) /\ After(h) \in 0 .. QueueSize - 1
<1>1. (h + 1) % QueueSize = IF h + 1 < 0 THEN h + 1 + QueueSize
                            ELSE IF h + 1 < QueueSize THEN h + 1 ELSE h + 1 - QueueSize
    BY ModIs, Sizes
<1> QED
    BY <1>1, Sizes DEF After

\* Positions in the queue and slots correspond.
LEMMA AtFacts ==
    ASSUME NEW h \in 0 .. QueueSize - 1
    PROVE  /\ \A i \in 1 .. QueueSize : At(h, i) \in 0 .. QueueSize - 1
           /\ \A i, j \in 1 .. QueueSize : At(h, i) = At(h, j) => i = j
           /\ At(h, 1) = h
           /\ \A i \in 1 .. QueueSize - 1 : At(After(h), i) = At(h, i + 1)
           /\ At(After(h), QueueSize) = h
           /\ \A i \in 1 .. QueueSize - 1 : After(At(h, i)) = At(h, i + 1)
<1>1. \A i \in 1 .. QueueSize : At(h, i) \in 0 .. QueueSize - 1
    BY Sizes DEF At
<1>2. \A i, j \in 1 .. QueueSize : At(h, i) = At(h, j) => i = j
    BY Sizes DEF At
<1>3. At(h, 1) = h
    BY Sizes DEF At
<1>4. \A i \in 1 .. QueueSize - 1 : At(After(h), i) = At(h, i + 1)
    BY Sizes, AfterIs DEF At
<1>5. At(After(h), QueueSize) = h
    BY Sizes, AfterIs DEF At
<1>6. ASSUME NEW i \in 1 .. QueueSize - 1
      PROVE  After(At(h, i)) = At(h, i + 1)
  <2>1. At(h, i) \in 0 .. QueueSize - 1
    BY <1>1, Sizes
  <2>2. After(At(h, i)) = IF At(h, i) + 1 = QueueSize THEN 0 ELSE At(h, i) + 1
    BY <2>1, AfterIs
  <2> QED
    BY <2>2, Sizes DEF At
<1> QED
    BY <1>1, <1>2, <1>3, <1>4, <1>5, <1>6
-----------------------------------------------------------------------------
(* The recursive walk of the free list. *)

\* A set of naturals has a least element.
LEMMA LeastNatural ==
    ASSUME NEW T, T \subseteq Nat, T # {}
    PROVE  \E m \in T : \A l \in T : m <= l
<1>1. PICK m \in T : \A l \in T : ~(<<l, m>> \in OpToRel(<, Nat))
    BY NatLessThanWellFounded, WFMin, Zenon
<1>2. \A l \in T : ~(<<l, m>> \in {ss \in Nat \X Nat : ss[1] < ss[2]})
    BY <1>1, Zenon DEF OpToRel
<1>3. \A l \in T : ~(l < m)
    BY <1>2
<1> QED
    BY <1>3

\* A function on 0 .. m that is defined by recursion has the value its
\* equation gives it, as soon as some function satisfies the equation.
LEMMA ReachedIs ==
    ASSUME NEW n, NEW f, ListIs(n, f)
    PROVE  Free = {f[i] : i \in 1 .. n}
<1> DEFINE Step(g) == [m \in 0 .. N |->
              IF m = 0 THEN {free_list_head} \ {None}
              ELSE (g[m - 1] \cup {next_free[b] : b \in g[m - 1]}) \ {None}]
           W == [m \in 0 .. N |-> {f[i] : i \in {j \in 1 .. n : j <= m + 1}}]
<1>0. /\ n \in Nat /\ f \in [1 .. n -> Blocks] /\ None \notin Blocks
      /\ free_list_head = IF n = 0 THEN None ELSE f[1]
      /\ \A i \in 1 .. n : next_free[f[i]] = IF i = n THEN None ELSE f[i + 1]
    BY ShmAssumption DEF ListIs
<1>1. W = Step(W)
  <2>1. W[0] = {free_list_head} \ {None} /\ 0 \in 0 .. N
    <3>1. 0 \in 0 .. N
      BY Sizes
    <3>2. W[0] = {f[i] : i \in {j \in 1 .. n : j <= 0 + 1}}
      BY <3>1
    <3> HIDE DEF W
    <3>3. CASE n = 0
      <4>1. {j \in 1 .. n : j <= 0 + 1} = {}
        BY <3>3
      <4> QED
        BY <1>0, <3>1, <3>2, <3>3, <4>1
    <3>4. CASE n # 0
      <4>1. {j \in 1 .. n : j <= 0 + 1} = {1}
        BY <1>0, <3>4
      <4>2. free_list_head = f[1] /\ f[1] # None
        BY <1>0, <3>4
      <4>3. W[0] = {f[1]}
        BY <3>2, <4>1
      <4> QED
        BY <3>1, <4>2, <4>3
    <3> QED
      BY <3>3, <3>4
  <2>2. ASSUME NEW m \in 0 .. N, m # 0
        PROVE  W[m] = (W[m - 1] \cup {next_free[b] : b \in W[m - 1]}) \ {None}
    <3>1. /\ W[m] = {f[i] : i \in {j \in 1 .. n : j <= m + 1}}
          /\ W[m - 1] = {f[i] : i \in {j \in 1 .. n : j <= m}}
      BY <2>2, Sizes
    <3> HIDE DEF W
    <3>2. ASSUME NEW x \in W[m]
          PROVE  x \in (W[m - 1] \cup {next_free[b] : b \in W[m - 1]}) \ {None}
      <4>1. PICK i \in 1 .. n : i <= m + 1 /\ x = f[i]
        BY <3>1
      <4>2. x # None
        BY <1>0, <4>1
      <4>3. CASE i <= m
        BY <3>1, <4>1, <4>2, <4>3
      <4>4. CASE i = m + 1
        <5>1. i - 1 \in 1 .. n /\ i - 1 <= m /\ (i - 1) + 1 = i /\ i - 1 # n
          BY <1>0, <2>2, <4>1, <4>4, Sizes
        <5>2. f[i - 1] \in W[m - 1] /\ next_free[f[i - 1]] = x
          BY <1>0, <3>1, <4>1, <5>1
        <5> QED
          BY <4>2, <5>2
      <4> QED
        BY <4>1, <4>3, <4>4, Sizes
    <3>3. ASSUME NEW x \in (W[m - 1] \cup {next_free[b] : b \in W[m - 1]}) \ {None}
          PROVE  x \in W[m]
      <4>1. CASE x \in W[m - 1]
        BY <3>1, <4>1, Sizes
      <4>2. CASE x \in {next_free[b] : b \in W[m - 1]} /\ x # None
        <5>1. PICK i \in 1 .. n : i <= m /\ x = next_free[f[i]]
          BY <3>1, <4>2
        <5>2. i # n /\ x = f[i + 1]
          BY <1>0, <4>2, <5>1
        <5>3. i + 1 \in 1 .. n /\ i + 1 <= m + 1
          BY <1>0, <5>1, <5>2, Sizes
        <5> QED
          BY <3>1, <5>2, <5>3
      <4> QED
        BY <3>3, <4>1, <4>2
    <3> QED
      BY <3>2, <3>3
  <2> HIDE DEF W
  <2>3. W = [m \in 0 .. N |-> W[m]]
    BY DEF W
  <2> QED
    BY <2>1, <2>2, <2>3
<1>2. Reached = Step(Reached)
  <2>1. Reached = CHOOSE g : g = Step(g)
    BY DEF Reached, N
  <2> HIDE DEF W, Step
  <2> QED
    BY <1>1, <2>1
<1>3. \A m \in 0 .. N : Reached[m] = W[m]
  <2> SUFFICES ASSUME NEW k \in 0 .. N, Reached[k] # W[k] PROVE FALSE
    OBVIOUS
  <2> DEFINE Bad == {m \in 0 .. N : Reached[m] # W[m]}
  <2>1. Bad \subseteq Nat /\ k \in Bad
    <3>1. \A m \in Bad : m \in 0 .. N
      OBVIOUS
    <3>2. k \in Bad
      OBVIOUS
    <3> QED
      BY <3>1, <3>2, Sizes
  <2>2. PICK m \in 0 .. N : Reached[m] # W[m] /\ \A l \in 0 .. N : l < m => Reached[l] = W[l]
    <3> HIDE DEF W
    <3>1. PICK m \in Bad : \A l \in Bad : m <= l
      <4> HIDE DEF Bad
      <4> QED
        BY <2>1, LeastNatural
    <3>2. \A l \in 0 .. N : l < m => l \notin Bad
      BY <3>1, Sizes
    <3> QED
      BY <3>1, <3>2
  <2> HIDE DEF W, Bad
  <2>3. m # 0
    <3>1. 0 \in 0 .. N
      BY Sizes
    <3>2. Reached[0] = {free_list_head} \ {None}
      BY <1>2, <3>1
    <3>3. W[0] = {free_list_head} \ {None}
      BY <1>1, <3>1
    <3> QED
      BY <2>2, <3>2, <3>3
  <2>4. m - 1 \in 0 .. N /\ m - 1 < m
    BY <2>2, <2>3, Sizes
  <2>5. Reached[m - 1] = W[m - 1]
    BY <2>2, <2>4
  <2>6. /\ Reached[m] = (Reached[m - 1] \cup {next_free[b] : b \in Reached[m - 1]}) \ {None}
        /\ W[m] = (W[m - 1] \cup {next_free[b] : b \in W[m - 1]}) \ {None}
    BY <1>1, <1>2, <2>2, <2>3
  <2> QED
    BY <2>2, <2>5, <2>6
<1>4. n <= N
  <2>1. f \in Injection(1 .. n, Blocks)
    BY <1>0 DEF ListIs, Injection, IsInjective
  <2>2. Cardinality(1 .. n) <= N /\ Cardinality(1 .. n) = n
    BY <1>0, <2>1, Sizes, FS_Injection, FS_Interval DEF N
  <2> QED
    BY <2>2
<1>5. W[N] = {f[i] : i \in 1 .. n}
  <2>1. {j \in 1 .. n : j <= N + 1} = 1 .. n
    BY <1>0, <1>4, Sizes
  <2> QED
    BY <2>1, Sizes
<1>6. N \in 0 .. N
    BY Sizes
<1> HIDE DEF W
<1>7. Reached[N] = {f[i] : i \in 1 .. n}
    BY <1>3, <1>5, <1>6
<1> QED
    BY <1>7 DEF Free, N
-----------------------------------------------------------------------------
(* What a step of one thread changes. *)

\* The threads are distinct.
LEMMA Threads ==
    /\ Link \in Procs /\ Worker \in Procs /\ Link # Worker
    /\ Senders \subseteq Procs /\ Link \notin Senders /\ Worker \notin Senders
    /\ None \notin Blocks
BY ShmAssumption DEF Procs

\* A thread goes to a label and changes its own locals only.
Moves(p, to) ==
    /\ pc' = [pc EXCEPT ![p] = to]
    /\ blk' = blk \/ \E x \in Blocks \cup {None} : blk' = [blk EXCEPT ![p] = x]
    /\ \/ seen' = seen
       \/ \E x \in Blocks \cup (0 .. QueueSize - 1) \cup {None} : seen' = [seen EXCEPT ![p] = x]
    /\ next' = next \/ \E x \in Blocks \cup {None} : next' = [next EXCEPT ![p] = x]
    /\ again' = again \/ again' = again \ {p} \/ (p \in Senders /\ again' = again \cup {p})

\* The other threads stay where they are.
Others(p) ==
    \A q \in Procs : q # p =>
        /\ pc'[q] = pc[q] /\ blk'[q] = blk[q] /\ seen'[q] = seen[q] /\ next'[q] = next[q]
        /\ q \in again' <=> q \in again

LEMMA MoveFacts ==
    ASSUME LocalTypes, NEW p \in Procs, NEW to \in Labels, Moves(p, to)
    PROVE  LocalTypes' /\ pc'[p] = to /\ Others(p)
<1>1. /\ pc' \in [Procs -> Labels] /\ pc'[p] = to
      /\ \A q \in Procs : q # p => pc'[q] = pc[q]
    BY DEF LocalTypes, Moves
<1>2. blk' \in [Procs -> Blocks \cup {None}] /\ \A q \in Procs : q # p => blk'[q] = blk[q]
    BY DEF LocalTypes, Moves
<1>3. /\ seen' \in [Procs -> Blocks \cup (0 .. QueueSize - 1) \cup {None}]
      /\ \A q \in Procs : q # p => seen'[q] = seen[q]
  <2>1. seen \in [Procs -> Blocks \cup (0 .. QueueSize - 1) \cup {None}]
    BY DEF LocalTypes
  <2>2. CASE seen' = seen
    BY <2>1, <2>2
  <2>3. CASE \E x \in Blocks \cup (0 .. QueueSize - 1) \cup {None} : seen' = [seen EXCEPT ![p] = x]
    BY <2>1, <2>3
  <2> QED
    BY <2>2, <2>3 DEF Moves
<1>4. next' \in [Procs -> Blocks \cup {None}] /\ \A q \in Procs : q # p => next'[q] = next[q]
    BY DEF LocalTypes, Moves
<1>5. again' \subseteq Senders /\ \A q \in Procs : q # p => (q \in again' <=> q \in again)
    BY DEF LocalTypes, Moves
<1> QED
    BY <1>1, <1>2, <1>3, <1>4, <1>5 DEF Others, LocalTypes

\* nos_shm_buffer_release's end, for a thread with nothing more to drop and for
\* a sender that drops its own reference next.
LEMMA LeaveFacts ==
    ASSUME LocalTypes, NEW p \in Procs, Leave(p), UNCHANGED <<seen, next>>
    PROVE  \E to \in Labels :
               /\ Moves(p, to) /\ again' = again \ {p}
               /\ p \in again => to = "release" /\ blk' = blk
               /\ p \notin again => to = Rest(p) /\ blk' = [blk EXCEPT ![p] = None]
<1>1. Rest(p) \in Labels /\ "release" \in Labels
    BY DEF Rest, Labels
<1>2. CASE p \in again
  <2>1. pc' = [pc EXCEPT ![p] = "release"] /\ again' = again \ {p}
    BY <1>2 DEF Leave
  <2>2. blk' = blk
    BY <1>2 DEF Leave, LocalTypes
  <2>3. Moves(p, "release")
    BY <2>1, <2>2 DEF Moves
  <2> QED
    BY <1>1, <1>2, <2>1, <2>2, <2>3
<1>3. CASE p \notin again
  <2>1. /\ pc' = [pc EXCEPT ![p] = Rest(p)] /\ again' = again \ {p}
        /\ blk' = [blk EXCEPT ![p] = None]
    BY <1>3 DEF Leave
  <2>2. Moves(p, Rest(p))
    BY <2>1 DEF Moves
  <2> QED
    BY <1>1, <1>3, <2>1, <2>2
<1> QED
    BY <1>2, <1>3

\* A step that leaves the queue to itself.
LEMMA QueueFrame ==
    ASSUME QueueOk, UNCHANGED <<head, tail, offsets>>, UNCHANGED accepted,
           \A p \in Senders : pc[p] = "store" \/ pc'[p] = "store" =>
               pc'[p] = pc[p] /\ blk'[p] = blk[p] /\ seen'[p] = seen[p],
           pc'[Link] = "advance" <=> pc[Link] = "advance",
           pc[Link] = "advance" => blk'[Link] = blk[Link]
    PROVE  QueueOk'
<1>1. /\ Len(accepted') < QueueSize /\ tail' = At(head', Len(accepted') + 1)
      /\ \A i \in Len(accepted') + 1 .. QueueSize : offsets'[At(head', i)] = None
    BY DEF QueueOk
<1>2. \A i \in DOMAIN accepted' :
          \/ offsets'[At(head', i)] = accepted'[i]
          \/ /\ offsets'[At(head', i)] = None
             /\ \E p \in Senders :
                   pc'[p] = "store" /\ seen'[p] = At(head', i) /\ blk'[p] = accepted'[i]
          \/ i = 1 /\ pc'[Link] = "advance"
    BY DEF QueueOk
<1>3. \A p \in Senders : pc'[p] = "store" =>
          \E i \in DOMAIN accepted' :
              /\ accepted'[i] = blk'[p] /\ seen'[p] = At(head', i) /\ offsets'[At(head', i)] = None
              /\ i = 1 => pc'[Link] # "advance"
    BY DEF QueueOk
<1>4. pc'[Link] = "advance" =>
          accepted' # <<>> /\ blk'[Link] = accepted'[1] /\ offsets'[head'] = None
    BY DEF QueueOk
<1>5. \A p, q \in Senders :
          pc'[p] = "store" /\ pc'[q] = "store" /\ seen'[p] = seen'[q] => p = q
    BY DEF QueueOk
<1> QED
    BY <1>1, <1>2, <1>3, <1>4, <1>5 DEF QueueOk, At

\* What a step must not do for the link thread to sleep only when it may.
Announces(p, to) ==
    \/ /\ edge => edge'
       /\ pc[p] = "signal" => edge'
       /\ p = Link => to # "idle"
    \/ p = Link /\ to # "idle"
    \/ "overrun" \notin mishaps => accepted = <<>>

\* A step that takes no part in the queue.
LEMMA QuietCore ==
    ASSUME Core, NEW p \in Procs, NEW to \in Labels, Moves(p, to), PoolTypes', LocalOk(p)',
           "overrun" \in mishaps => "overrun" \in mishaps',
           UNCHANGED <<head, tail, offsets>>, UNCHANGED accepted, Announces(p, to),
           {pc[p], to} \cap {"store", "advance"} = {}
    PROVE  Core'
<1> USE Threads DEF Core
<1>1. LocalTypes' /\ pc'[p] = to /\ Others(p)
    BY MoveFacts DEF Types
<1>2. Types'
    BY <1>1 DEF Types, QueueTypes
<1>3. Locals'
  <2>1. SUFFICES ASSUME NEW q \in Procs, q # p PROVE LocalOk(q)'
    BY DEF Locals
  <2>2. LocalOk(q)
    BY DEF Locals
  <2> QED
    BY <1>1, <2>1, <2>2 DEF Others, LocalOk, Placed
<1>4. NoneStranded'
  <2>1. CASE /\ edge => edge'
             /\ pc[p] = "signal" => edge'
             /\ p = Link => to # "idle"
    <3>1. pc'[Link] = "idle" => pc[Link] = "idle"
      BY <1>1, <2>1 DEF Others
    <3>2. \A q \in Senders :
             pc[q] \in {"store", "signal"} => pc'[q] \in {"store", "signal"} \/ edge'
      BY <1>1, <2>1 DEF Others
    <3> QED
      BY <2>1, <3>1, <3>2 DEF NoneStranded
  <2>2. CASE p = Link /\ to # "idle"
    BY <1>1, <2>2 DEF NoneStranded
  <2>3. CASE "overrun" \notin mishaps => accepted = <<>>
    BY <2>3 DEF NoneStranded
  <2> QED
    BY <2>1, <2>2, <2>3 DEF Announces
<1>5. "overrun" \notin mishaps' => QueueOk'
  <2>1. \A q \in Senders : pc[q] = "store" \/ pc'[q] = "store" =>
            pc'[q] = pc[q] /\ blk'[q] = blk[q] /\ seen'[q] = seen[q]
    BY <1>1 DEF Others
  <2>2. /\ pc'[Link] = "advance" <=> pc[Link] = "advance"
        /\ pc[Link] = "advance" => blk'[Link] = blk[Link]
    BY <1>1 DEF Others
  <2> QED
    BY <2>1, <2>2, QueueFrame
<1> QED
    BY <1>2, <1>3, <1>4, <1>5
-----------------------------------------------------------------------------
(* Core: the steps that take no part in the queue. *)

\* nos_shm_buffer_alloc.
LEMMA AllocCore ==
    ASSUME Core, NEW p \in Senders,
           \/ AllocRead(p) \/ AllocNext(p) \/ AllocSwap(p) \/ AllocRetry(p)
           \/ AllocCount(p) \/ AllocFresh(p)
    PROVE  Core'
<1> USE Threads DEF Labels, Holding, Carrying
<1>1. Types /\ LocalTypes /\ PoolTypes /\ LocalOk(p) /\ p \in Procs /\ p # Link /\ p # Worker
    BY DEF Core, Types, Locals
<1>2. CASE AllocRead(p)
  <2>1. /\ pc[p] = "idle" /\ Moves(p, "next") /\ PoolTypes'
        /\ UNCHANGED <<head, tail, offsets, accepted, mishaps, edge, again>>
        /\ free_list_head \in Blocks /\ seen' = [seen EXCEPT ![p] = free_list_head]
    BY <1>1, <1>2 DEF AllocRead, Goto, Moves, PoolTypes, pool, queue, history
  <2>2. pc'[p] = "next" /\ seen'[p] = free_list_head
    BY <1>1, <2>1, MoveFacts DEF LocalTypes
  <2>3. LocalOk(p)'
    BY <1>1, <2>1, <2>2 DEF LocalOk, Placed
  <2> QED
    BY <1>1, <2>1, <2>3, QuietCore DEF Announces
<1>3. CASE AllocNext(p)
  <2>1. /\ pc[p] = "next" /\ Moves(p, "pop") /\ PoolTypes'
        /\ UNCHANGED <<head, tail, offsets, accepted, mishaps, edge, again, seen>>
    <3>1. next_free[seen[p]] \in Blocks \cup {None}
      BY <1>1, <1>3 DEF AllocNext, Goto, LocalOk, PoolTypes
    <3> QED
      BY <1>1, <1>3, <3>1 DEF AllocNext, Goto, Moves, PoolTypes, pool, queue, history
  <2>2. pc'[p] = "pop"
    BY <1>1, <2>1, MoveFacts
  <2>3. LocalOk(p)'
    BY <1>1, <2>1, <2>2 DEF LocalOk, Placed
  <2> QED
    BY <1>1, <2>1, <2>3, QuietCore DEF Announces
<1>4. CASE AllocSwap(p)
  <2>1. /\ pc[p] = "pop" /\ Moves(p, "count")
        /\ UNCHANGED <<head, tail, offsets, accepted, edge, again>>
        /\ seen[p] \in Blocks /\ blk' = [blk EXCEPT ![p] = seen[p]]
    BY <1>1, <1>4 DEF AllocSwap, Goto, Moves, LocalOk, queue
  <2>2. PoolTypes' /\ mishaps \subseteq mishaps'
    <3>1. next[p] \in Blocks \cup {None}
      BY <1>1 DEF LocalTypes
    <3> QED
      BY <1>1, <1>4, <3>1 DEF AllocSwap, PoolTypes
  <2>3. pc'[p] = "count" /\ blk'[p] \in Blocks
    BY <1>1, <2>1, MoveFacts DEF LocalTypes
  <2>4. LocalOk(p)'
    BY <1>1, <2>1, <2>3 DEF LocalOk, Placed
  <2> QED
    BY <1>1, <2>1, <2>2, <2>4, QuietCore DEF Announces
<1>5. CASE AllocRetry(p)
  <2>1. /\ pc[p] = "pop" /\ Moves(p, "idle") /\ PoolTypes'
        /\ UNCHANGED <<head, tail, offsets, accepted, mishaps, edge, again>>
    BY <1>1, <1>5 DEF AllocRetry, Goto, Moves, PoolTypes, pool, queue, history
  <2>2. pc'[p] = "idle"
    BY <1>1, <2>1, MoveFacts
  <2>3. LocalOk(p)'
    BY <1>1, <2>1, <2>2 DEF LocalOk, Placed
  <2> QED
    BY <1>1, <2>1, <2>3, QuietCore DEF Announces
<1>6. CASE AllocCount(p)
  <2>1. /\ pc[p] = "count" /\ Moves(p, "fresh") /\ PoolTypes'
        /\ UNCHANGED <<head, tail, offsets, accepted, mishaps, edge, again, blk>>
    BY <1>1, <1>6 DEF AllocCount, Goto, Moves, PoolTypes, queue, history
  <2>2. pc'[p] = "fresh"
    BY <1>1, <2>1, MoveFacts
  <2>3. LocalOk(p)'
    BY <1>1, <2>1, <2>2 DEF LocalOk, Placed
  <2> QED
    BY <1>1, <2>1, <2>3, QuietCore DEF Announces
<1>7. CASE AllocFresh(p)
  <2>0. PICK b \in Blocks : b = blk[p]
    BY <1>1, <1>7 DEF AllocFresh, Goto, LocalOk
  <2>1. /\ pc[p] = "fresh" /\ Moves(p, "retain") /\ PoolTypes'
        /\ UNCHANGED <<head, tail, offsets, accepted, mishaps, edge, again, blk>>
    <3>1. ref_count' = [ref_count EXCEPT ![b] = 1]
      BY <1>7, <2>0 DEF AllocFresh
    <3>2. ref_count' \in [Blocks -> Int]
      BY <1>1, <3>1 DEF PoolTypes
    <3> QED
      BY <1>1, <1>7, <3>2 DEF AllocFresh, Goto, Moves, PoolTypes, queue, history
  <2>2. pc'[p] = "retain"
    BY <1>1, <2>1, MoveFacts
  <2>3. LocalOk(p)'
    BY <1>1, <2>1, <2>2 DEF LocalOk, Placed
  <2> QED
    BY <1>1, <2>1, <2>3, QuietCore DEF Announces
<1> QED
    BY <1>2, <1>3, <1>4, <1>5, <1>6, <1>7

\* A count up or down.
LEMMA CountTypes ==
    ASSUME PoolTypes, NEW b \in Blocks, NEW n \in Int, Count(b, n)
    PROVE  ref_count' = [ref_count EXCEPT ![b] = ref_count[b] + n] /\ ref_count' \in [Blocks -> Int]
<1>1. ref_count[b] \in Int
    BY DEF PoolTypes
<1> QED
    BY <1>1 DEF Count, PoolTypes

\* nos_ipc_send_enqueue_shm and nos_shm_mpsc_enqueue but for its swap and its
\* store.
LEMMA EnqueueCore ==
    ASSUME Core, NEW p \in Senders,
           \/ Retain(p) \/ EnqueueRead(p) \/ EnqueueBusy(p) \/ EnqueueLook(p)
           \/ EnqueueRetry(p) \/ Signal(p)
    PROVE  Core'
<1> USE Threads DEF Labels, Holding, Carrying
<1>1. /\ Types /\ LocalTypes /\ PoolTypes /\ LocalOk(p) /\ p \in Procs /\ p # Link /\ p # Worker
      /\ tail \in 0 .. QueueSize - 1
    BY DEF Core, Types, Locals, QueueTypes
<1>2. CASE Retain(p)
  <2>1. /\ pc[p] = "retain" /\ Moves(p, "enqueue") /\ Count(blk[p], 1)
        /\ UNCHANGED <<head, tail, offsets, accepted, mishaps, edge, again, blk>>
        /\ UNCHANGED <<free_list_head, next_free, total_allocated, inbox>>
    BY <1>2 DEF Retain, Goto, Moves, queue, history
  <2>2. blk[p] \in Blocks
    BY <1>1, <2>1 DEF LocalOk
  <2>3. PoolTypes'
    BY <1>1, <2>1, <2>2, CountTypes DEF PoolTypes
  <2>4. pc'[p] = "enqueue"
    BY <1>1, <2>1, MoveFacts
  <2>5. LocalOk(p)'
    BY <1>1, <2>1, <2>4 DEF LocalOk, Placed
  <2> QED
    BY <1>1, <2>1, <2>3, <2>5, QuietCore DEF Announces
<1>3. CASE EnqueueRead(p)
  <2>1. /\ pc[p] = "enqueue" /\ Moves(p, "look") /\ PoolTypes' /\ seen' = [seen EXCEPT ![p] = tail]
        /\ UNCHANGED <<head, tail, offsets, accepted, mishaps, edge, again, blk>>
    BY <1>1, <1>3 DEF EnqueueRead, Goto, Moves, PoolTypes, pool, queue, history
  <2>2. pc'[p] = "look" /\ seen'[p] = tail
    BY <1>1, <2>1, MoveFacts DEF LocalTypes
  <2>3. LocalOk(p)'
    BY <1>1, <2>1, <2>2 DEF LocalOk, Placed
  <2> QED
    BY <1>1, <2>1, <2>3, QuietCore DEF Announces
<1>4. CASE EnqueueBusy(p)
  <2>1. /\ pc[p] = "look" /\ Moves(p, "release") /\ PoolTypes'
        /\ UNCHANGED <<head, tail, offsets, accepted, mishaps, edge, blk>>
    BY <1>1, <1>4 DEF EnqueueBusy, Goto, Moves, PoolTypes, pool, queue, history
  <2>2. pc'[p] = "release"
    BY <1>1, <2>1, MoveFacts
  <2>3. LocalOk(p)'
    BY <1>1, <2>1, <2>2 DEF LocalOk, Placed
  <2> QED
    BY <1>1, <2>1, <2>3, QuietCore DEF Announces
<1>5. CASE EnqueueLook(p)
  <2>1. /\ pc[p] = "look" /\ Moves(p, "claim") /\ PoolTypes'
        /\ UNCHANGED <<head, tail, offsets, accepted, mishaps, edge, again, blk, seen>>
    BY <1>1, <1>5 DEF EnqueueLook, Goto, Moves, PoolTypes, pool, queue, history
  <2>2. pc'[p] = "claim"
    BY <1>1, <2>1, MoveFacts
  <2>3. LocalOk(p)'
    BY <1>1, <2>1, <2>2 DEF LocalOk, Placed
  <2> QED
    BY <1>1, <2>1, <2>3, QuietCore DEF Announces
<1>6. CASE EnqueueRetry(p)
  <2>1. /\ pc[p] = "claim" /\ Moves(p, "enqueue") /\ PoolTypes'
        /\ UNCHANGED <<head, tail, offsets, accepted, mishaps, edge, again, blk>>
    BY <1>1, <1>6 DEF EnqueueRetry, Goto, Moves, PoolTypes, pool, queue, history
  <2>2. pc'[p] = "enqueue"
    BY <1>1, <2>1, MoveFacts
  <2>3. LocalOk(p)'
    BY <1>1, <2>1, <2>2 DEF LocalOk, Placed
  <2> QED
    BY <1>1, <2>1, <2>3, QuietCore DEF Announces
<1>7. CASE Signal(p)
  <2>1. /\ pc[p] = "signal" /\ Moves(p, "release") /\ PoolTypes' /\ edge' = TRUE
        /\ UNCHANGED <<head, tail, offsets, accepted, mishaps, again, blk>>
    BY <1>1, <1>7 DEF Signal, Goto, Moves, PoolTypes, pool, queue, history
  <2>2. pc'[p] = "release"
    BY <1>1, <2>1, MoveFacts
  <2>3. LocalOk(p)'
    BY <1>1, <2>1, <2>2 DEF LocalOk, Placed
  <2> QED
    BY <1>1, <2>1, <2>3, QuietCore DEF Announces
<1> QED
    BY <1>2, <1>3, <1>4, <1>5, <1>6, <1>7

\* nos_shm_buffer_release.
LEMMA GiveBackCore ==
    ASSUME Core, NEW p \in Procs, GiveBack(p)
    PROVE  Core'
<1> USE Threads DEF Labels, Holding, Carrying
<1>1. Types /\ LocalTypes /\ PoolTypes /\ LocalOk(p)
    BY DEF Core, Types, Locals
<1>2. \* where a thread goes on when it leaves
      ASSUME Leave(p), UNCHANGED <<seen, next>>, pc[p] \in {"release", "discount"}, PoolTypes',
             UNCHANGED <<head, tail, offsets, accepted, mishaps, edge>>
      PROVE  Core'
  <2>1. PICK to \in Labels :
           /\ Moves(p, to) /\ again' = again \ {p}
           /\ p \in again => to = "release" /\ blk' = blk
           /\ p \notin again => to = Rest(p) /\ blk' = [blk EXCEPT ![p] = None]
    BY <1>1, <1>2, LeaveFacts, Zenon
  <2>2. pc'[p] = to
    BY <1>1, <2>1, MoveFacts
  <2>3. p \in again => p \in Senders
    BY <1>1 DEF LocalTypes
  <2>4. LocalOk(p)'
    BY <1>1, <1>2, <2>1, <2>2, <2>3 DEF LocalOk, Placed, Rest
  <2>5. Announces(p, to) /\ to \notin {"store", "advance"}
    BY <1>2, <2>1, <2>3 DEF Announces, Rest
  <2> QED
    BY <1>2, <2>1, <2>4, <2>5, QuietCore
<1>3. CASE Release(p)
  <2>1. /\ pc[p] = "release" /\ Count(blk[p], -1)
        /\ UNCHANGED <<head, tail, offsets, accepted, mishaps, edge, seen, next>>
        /\ UNCHANGED <<free_list_head, next_free, total_allocated, inbox>>
    BY <1>3 DEF Release, queue, history
  <2>2. blk[p] \in Blocks
    BY <1>1, <2>1 DEF LocalOk
  <2>3. PoolTypes'
    BY <1>1, <2>1, <2>2, CountTypes DEF PoolTypes
  <2>4. CASE ref_count[blk[p]] = 1
    <3>1. Moves(p, "push") /\ UNCHANGED <<blk, again>>
      BY <1>3, <2>1, <2>4 DEF Release, Moves
    <3>2. pc'[p] = "push"
      BY <1>1, <3>1, MoveFacts
    <3>3. LocalOk(p)'
      BY <1>1, <2>1, <3>1, <3>2 DEF LocalOk, Placed
    <3> QED
      BY <2>1, <2>3, <3>1, <3>3, QuietCore DEF Announces
  <2>5. CASE ref_count[blk[p]] # 1
    BY <1>2, <1>3, <2>1, <2>3, <2>5 DEF Release
  <2> QED
    BY <2>4, <2>5
<1>4. CASE PushRead(p)
  <2>1. /\ pc[p] = "push" /\ Moves(p, "swap") /\ free_list_head \in Blocks \cup {None}
        /\ UNCHANGED <<head, tail, offsets, accepted, mishaps, edge, again, blk>>
    BY <1>1, <1>4 DEF PushRead, Goto, Moves, PoolTypes, queue, history
  <2>2. PoolTypes'
    BY <1>1, <1>4 DEF PushRead, PoolTypes, history
  <2>3. pc'[p] = "swap"
    BY <1>1, <2>1, MoveFacts
  <2>4. LocalOk(p)'
    BY <1>1, <2>1, <2>3 DEF LocalOk, Placed
  <2> QED
    BY <1>1, <2>1, <2>2, <2>4, QuietCore DEF Announces
<1>5. CASE PushSwap(p)
  <2>1. /\ pc[p] = "swap" /\ Moves(p, "discount")
        /\ UNCHANGED <<head, tail, offsets, accepted, mishaps, edge, again, blk>>
    BY <1>5 DEF PushSwap, Goto, Moves, queue, history
  <2>2. PoolTypes'
    <3>1. blk[p] \in Blocks
      BY <1>1, <2>1 DEF LocalOk
    <3> QED
      BY <1>1, <1>5, <3>1 DEF PushSwap, PoolTypes, history
  <2>3. pc'[p] = "discount"
    BY <1>1, <2>1, MoveFacts
  <2>4. LocalOk(p)'
    BY <1>1, <2>1, <2>3 DEF LocalOk, Placed
  <2> QED
    BY <1>1, <2>1, <2>2, <2>4, QuietCore DEF Announces
<1>6. CASE PushRetry(p)
  <2>1. /\ pc[p] = "swap" /\ Moves(p, "push") /\ PoolTypes'
        /\ UNCHANGED <<head, tail, offsets, accepted, mishaps, edge, again, blk>>
    BY <1>1, <1>6 DEF PushRetry, Goto, Moves, PoolTypes, pool, queue, history
  <2>2. pc'[p] = "push"
    BY <1>1, <2>1, MoveFacts
  <2>3. LocalOk(p)'
    BY <1>1, <2>1, <2>2 DEF LocalOk, Placed
  <2> QED
    BY <1>1, <2>1, <2>3, QuietCore DEF Announces
<1>7. CASE PushCount(p)
  <2>1. /\ pc[p] = "discount" /\ Leave(p) /\ PoolTypes'
        /\ UNCHANGED <<head, tail, offsets, accepted, mishaps, edge, seen, next>>
    BY <1>1, <1>7 DEF PushCount, PoolTypes, queue, history
  <2> QED
    BY <1>2, <2>1
<1> QED
    BY <1>3, <1>4, <1>5, <1>6, <1>7 DEF GiveBack

\* The link thread wakes up for an event, finds the queue empty, or delivers a
\* message or not; the worker takes one out of its mailbox.
LEMMA ReceiveCore ==
    ASSUME Core,
           \/ Event \/ DequeueEmpty \/ Deliver \/ Undeliverable
           \/ \E b \in Blocks : Handle(b)
    PROVE  Core'
<1> USE Threads DEF Labels, Holding, Carrying
<1>1. /\ Types /\ LocalTypes /\ PoolTypes /\ LocalOk(Link) /\ LocalOk(Worker)
      /\ Link \notin again /\ Worker \notin again
    BY DEF Core, Types, Locals, LocalTypes
<1>2. CASE Event
  <2>1. /\ pc[Link] = "idle" /\ Moves(Link, "drain") /\ PoolTypes'
        /\ UNCHANGED <<head, tail, offsets, accepted, mishaps, again, blk>>
    BY <1>1, <1>2 DEF Event, Goto, Moves, PoolTypes, pool, queue, history
  <2>2. pc'[Link] = "drain"
    BY <1>1, <2>1, MoveFacts
  <2>3. LocalOk(Link)'
    BY <1>1, <2>1, <2>2 DEF LocalOk, Placed
  <2> QED
    BY <1>1, <2>1, <2>3, QuietCore DEF Announces
<1>3. CASE DequeueEmpty
  <2>1. /\ pc[Link] = "drain" /\ Moves(Link, "idle") /\ PoolTypes' /\ head = tail
        /\ UNCHANGED <<head, tail, offsets, accepted, mishaps, again, blk>>
    BY <1>1, <1>3 DEF DequeueEmpty, Goto, Moves, PoolTypes, pool, queue, history
  <2>2. pc'[Link] = "idle"
    BY <1>1, <2>1, MoveFacts
  <2>3. LocalOk(Link)'
    BY <1>1, <2>1, <2>2 DEF LocalOk, Placed
  <2>4. ASSUME "overrun" \notin mishaps PROVE accepted = <<>>
    <3>1. QueueOk /\ accepted \in Seq(Blocks) /\ head \in 0 .. QueueSize - 1
      BY <1>1, <2>4 DEF Core, Types, QueueTypes
    <3>2. Len(accepted) \in Nat /\ Len(accepted) < QueueSize
      BY <3>1, LenProperties DEF QueueOk
    <3>3. At(head, Len(accepted) + 1) = At(head, 1)
      BY <2>1, <3>1, AtFacts DEF QueueOk
    <3>4. Len(accepted) + 1 \in 1 .. QueueSize /\ 1 \in 1 .. QueueSize
      BY <3>2, Sizes
    <3>5. Len(accepted) + 1 = 1
      BY <3>1, <3>3, <3>4, AtFacts
    <3>6. Len(accepted) = 0
      BY <3>2, <3>5
    <3> QED
      BY <3>1, <3>6, EmptySeq
  <2>5. Announces(Link, "idle")
    BY <2>4 DEF Announces
  <2> QED
    BY <1>1, <2>1, <2>3, <2>5, QuietCore
<1>4. CASE Deliver
  <2>1. /\ pc[Link] = "deliver" /\ Moves(Link, "release") /\ Count(blk[Link], 1)
        /\ UNCHANGED <<head, tail, offsets, accepted, mishaps, edge, again, blk>>
        /\ UNCHANGED <<free_list_head, next_free, total_allocated>>
        /\ inbox' = [inbox EXCEPT ![blk[Link]] = @ + 1]
    BY <1>4 DEF Deliver, Goto, Moves, queue, history
  <2>2. PICK b \in Blocks : b = blk[Link]
    BY <1>1, <2>1 DEF LocalOk
  <2>3. inbox' \in [Blocks -> Nat]
    <3>1. inbox' = [inbox EXCEPT ![b] = inbox[b] + 1] /\ inbox[b] + 1 \in Nat
      BY <1>1, <2>1, <2>2 DEF PoolTypes
    <3> QED
      BY <1>1, <3>1 DEF PoolTypes
  <2>4. PoolTypes'
    BY <1>1, <2>1, <2>2, <2>3, CountTypes DEF PoolTypes
  <2>5. pc'[Link] = "release"
    BY <1>1, <2>1, MoveFacts
  <2>6. LocalOk(Link)'
    BY <1>1, <2>1, <2>5 DEF LocalOk, Placed
  <2> QED
    BY <1>1, <2>1, <2>4, <2>6, QuietCore DEF Announces
<1>5. CASE Undeliverable
  <2>1. /\ pc[Link] = "deliver" /\ Moves(Link, "release") /\ PoolTypes'
        /\ UNCHANGED <<head, tail, offsets, accepted, mishaps, edge, again, blk>>
    BY <1>1, <1>5 DEF Undeliverable, Goto, Moves, PoolTypes, pool, queue, history
  <2>2. pc'[Link] = "release"
    BY <1>1, <2>1, MoveFacts
  <2>3. LocalOk(Link)'
    BY <1>1, <2>1, <2>2 DEF LocalOk, Placed
  <2> QED
    BY <1>1, <2>1, <2>3, QuietCore DEF Announces
<1>6. ASSUME NEW b \in Blocks, Handle(b) PROVE Core'
  <2>1. /\ pc[Worker] = "idle" /\ Moves(Worker, "release")
        /\ UNCHANGED <<head, tail, offsets, accepted, mishaps, edge, again>>
        /\ UNCHANGED <<free_list_head, next_free, ref_count, total_allocated>>
        /\ inbox[b] > 0 /\ inbox' = [inbox EXCEPT ![b] = @ - 1]
        /\ blk' = [blk EXCEPT ![Worker] = b]
    BY <1>6 DEF Handle, Goto, Moves, pool, queue, history
  <2>2. inbox' \in [Blocks -> Nat]
    <3>1. inbox[b] - 1 \in Nat
      BY <1>1, <2>1 DEF PoolTypes
    <3> QED
      BY <1>1, <2>1, <3>1 DEF PoolTypes
  <2>3. PoolTypes'
    BY <1>1, <2>1, <2>2 DEF PoolTypes
  <2>4. pc'[Worker] = "release" /\ blk'[Worker] = b
    BY <1>1, <2>1, MoveFacts DEF LocalTypes
  <2>5. LocalOk(Worker)'
    BY <1>1, <2>1, <2>4 DEF LocalOk, Placed
  <2> QED
    BY <1>1, <2>1, <2>3, <2>5, QuietCore DEF Announces
<1> QED
    BY <1>2, <1>3, <1>4, <1>5, <1>6
-----------------------------------------------------------------------------
(* Core: the steps in the queue. *)

\* A step that ends elsewhere than in sleep, by its thread's own locals.
LEMMA QueueCore ==
    ASSUME Core, NEW p \in Procs, NEW to \in Labels, Moves(p, to), Types', LocalOk(p)',
           "overrun" \notin mishaps' => QueueOk', NoneStranded'
    PROVE  Core'
<1>1. Others(p)
    BY MoveFacts DEF Core, Types
<1>2. Locals'
  <2>1. SUFFICES ASSUME NEW q \in Procs, q # p PROVE LocalOk(q)'
    BY DEF Locals
  <2>2. LocalOk(q)
    BY DEF Core, Locals
  <2> QED
    BY <1>1, <2>1, <2>2 DEF Others, LocalOk, Placed
<1> QED
    BY <1>2 DEF Core

\* What the slots of the queue are numbered by.
LEMMA Positions ==
    ASSUME QueueTypes, QueueOk
    PROVE  /\ DOMAIN accepted = 1 .. Len(accepted) /\ Len(accepted) \in Nat
           /\ Len(accepted) < QueueSize /\ head \in 0 .. QueueSize - 1
           /\ \A i \in DOMAIN accepted : i \in 1 .. QueueSize
           /\ \A i \in 1 .. QueueSize : At(head, i) \in 0 .. QueueSize - 1
           /\ \A i, j \in 1 .. QueueSize : At(head, i) = At(head, j) => i = j
           /\ At(head, 1) = head /\ 1 \in 1 .. QueueSize
           /\ accepted = <<>> <=> Len(accepted) = 0
<1>1. accepted \in Seq(Blocks) /\ head \in 0 .. QueueSize - 1
    BY DEF QueueTypes
<1>2. DOMAIN accepted = 1 .. Len(accepted) /\ Len(accepted) \in Nat
    BY <1>1, LenProperties
<1>3. accepted = <<>> <=> Len(accepted) = 0
    BY <1>1, EmptySeq
<1>4. Len(accepted) < QueueSize
    BY DEF QueueOk
<1>5. (\A i \in DOMAIN accepted : i \in 1 .. QueueSize) /\ 1 \in 1 .. QueueSize
    BY <1>2, <1>4, Sizes
<1> QED
    BY <1>1, <1>2, <1>3, <1>4, <1>5, AtFacts

\* A sender claims the slot at the tail.
LEMMA ClaimCore ==
    ASSUME Core, NEW p \in Senders, EnqueueClaim(p)
    PROVE  Core'
<1> USE Threads
<1>0. Types /\ LocalTypes /\ PoolTypes /\ QueueTypes /\ LocalOk(p) /\ p \in Procs
    BY DEF Core, Types, Locals
<1>1. PICK b \in Blocks : b = blk[p]
    BY <1>0 DEF EnqueueClaim, Goto, LocalOk, Holding
<1>2. PICK a \in Seq(Blocks) : a = Append(accepted, b)
    BY <1>0, AppendProperties DEF QueueTypes
<1>3. /\ pc[p] = "claim" /\ Moves(p, "store") /\ "store" \in Labels
      /\ tail = seen[p] /\ tail' = After(tail) /\ accepted' = a
      /\ UNCHANGED <<free_list_head, next_free, ref_count, total_allocated>>
      /\ UNCHANGED <<head, offsets, edge, inbox, blk, seen, again>>
      /\ mishaps' = mishaps \cup IF After(tail) = head THEN {"overrun"} ELSE {}
    BY <1>1, <1>2 DEF EnqueueClaim, Goto, Moves, pool, Labels
<1>4. LocalTypes' /\ pc'[p] = "store" /\ Others(p)
    BY <1>0, <1>3, MoveFacts
<1>5. Types'
  <2>1. After(tail) \in 0 .. QueueSize - 1
    BY <1>0, AfterIs DEF QueueTypes
  <2> QED
    BY <1>0, <1>2, <1>3, <1>4, <2>1 DEF Types, PoolTypes, QueueTypes
<1>6. LocalOk(p)'
    BY <1>0, <1>1, <1>3, <1>4 DEF LocalOk, Placed, Holding, Carrying
<1>7. NoneStranded'
    BY <1>4 DEF NoneStranded
<1>8. ASSUME "overrun" \notin mishaps'
      PROVE  QueueOk'
  <2>0. QueueOk /\ After(tail) # head
    BY <1>3, <1>8 DEF Core
  <2>1. PICK l \in Nat : l = Len(accepted)
    BY <1>0, LenProperties DEF QueueTypes
  <2>2. /\ DOMAIN accepted = 1 .. l /\ DOMAIN a = 1 .. l + 1 /\ Len(a) = l + 1
        /\ \A i \in 1 .. l : a[i] = accepted[i]
        /\ a[l + 1] = b
    BY <1>0, <1>2, <2>1, LenProperties, AppendProperties DEF QueueTypes
  <2>3. head \in 0 .. QueueSize - 1 /\ tail = At(head, l + 1) /\ l < QueueSize
    BY <1>0, <2>0, <2>1 DEF QueueTypes, QueueOk
  <2>4. l + 1 < QueueSize
    <3>1. SUFFICES ASSUME l + 1 = QueueSize PROVE FALSE
      BY <2>3, Sizes
    <3>2. At(head, QueueSize) = IF head = 0 THEN QueueSize - 1 ELSE head - 1
      BY <2>3, Sizes DEF At
    <3>3. tail \in 0 .. QueueSize - 1
      BY <1>0 DEF QueueTypes
    <3>4. After(tail) = IF tail + 1 = QueueSize THEN 0 ELSE tail + 1
      BY <3>3, AfterIs
    <3>5. After(tail) = head
      BY <2>3, <3>1, <3>2, <3>4, Sizes
    <3> QED
      BY <2>0, <3>5
  <2>5. tail' = At(head, l + 2) /\ offsets[At(head, l + 1)] = None
    <3>1. l + 1 \in 1 .. QueueSize - 1 /\ (l + 1) + 1 = l + 2
      BY <2>4, Sizes
    <3>2. After(At(head, l + 1)) = At(head, (l + 1) + 1)
      BY <2>3, <3>1, AtFacts
    <3>3. l + 1 \in Len(accepted) + 1 .. QueueSize
      BY <2>1, <2>4, Sizes
    <3> QED
      BY <1>3, <2>0, <2>3, <3>1, <3>2, <3>3 DEF QueueOk
  <2>6. /\ pc'[Link] = pc[Link]
        /\ \A q \in Senders : pc[q] = "store" => pc'[q] = "store"
        /\ \A q \in Senders : q # p => pc'[q] = pc[q]
    BY <1>3, <1>4 DEF Others
  <2>7. ASSUME NEW i \in 1 .. l + 1
        PROVE  \/ offsets[At(head, i)] = a[i]
               \/ /\ offsets[At(head, i)] = None
                  /\ \E q \in Senders : pc'[q] = "store" /\ seen[q] = At(head, i) /\ blk[q] = a[i]
               \/ i = 1 /\ pc'[Link] = "advance"
    <3>1. CASE i = l + 1
      BY <1>1, <1>3, <1>4, <2>2, <2>3, <2>5, <3>1
    <3>2. CASE i # l + 1
      <4>1. i \in DOMAIN accepted /\ a[i] = accepted[i]
        BY <2>2, <3>2
      <4> QED
        BY <2>0, <2>6, <4>1 DEF QueueOk
    <3> QED
      BY <3>1, <3>2
  <2>8. ASSUME NEW i \in Len(a) + 1 .. QueueSize
        PROVE  offsets[At(head, i)] = None
    <3>1. i \in Len(accepted) + 1 .. QueueSize
      BY <2>1, <2>2, Sizes
    <3> QED
      BY <2>0, <3>1 DEF QueueOk
  <2>9. ASSUME NEW q \in Senders, pc'[q] = "store"
        PROVE  \E i \in 1 .. l + 1 :
                   /\ a[i] = blk[q] /\ seen[q] = At(head, i) /\ offsets[At(head, i)] = None
                   /\ i = 1 => pc'[Link] # "advance"
                   /\ i = l + 1 <=> q = p
    <3>1. CASE q = p
      <4>1. l + 1 \in 1 .. l + 1
        OBVIOUS
      <4>2. l + 1 = 1 => pc[Link] # "advance"
        <5>1. l = 0 => accepted = <<>>
          BY <1>0, <2>1, EmptySeq DEF QueueTypes
        <5> QED
          BY <2>0, <5>1 DEF QueueOk
      <4> QED
        BY <1>1, <1>3, <2>2, <2>3, <2>5, <2>6, <3>1, <4>1, <4>2
    <3>2. CASE q # p
      <4>1. pc[q] = "store"
        BY <2>6, <2>9, <3>2
      <4>2. PICK i \in DOMAIN accepted :
               /\ accepted[i] = blk[q] /\ seen[q] = At(head, i) /\ offsets[At(head, i)] = None
               /\ i = 1 => pc[Link] # "advance"
        BY <2>0, <4>1 DEF QueueOk
      <4>3. i \in 1 .. l + 1 /\ a[i] = accepted[i] /\ i # l + 1
        BY <2>2
      <4> QED
        BY <2>6, <3>2, <4>2, <4>3
    <3> QED
      BY <3>1, <3>2
  <2>10. ASSUME NEW q \in Senders, NEW r \in Senders,
                pc'[q] = "store", pc'[r] = "store", seen[q] = seen[r]
         PROVE  q = r
    <3>1. PICK i \in 1 .. l + 1 : seen[q] = At(head, i) /\ (i = l + 1 <=> q = p)
      BY <2>9, <2>10
    <3>2. PICK j \in 1 .. l + 1 : seen[r] = At(head, j) /\ (j = l + 1 <=> r = p)
      BY <2>9, <2>10
    <3>3. i = j
      <4>1. i \in 1 .. QueueSize /\ j \in 1 .. QueueSize
        BY <2>4, Sizes
      <4>2. At(head, i) = At(head, j)
        BY <2>10, <3>1, <3>2
      <4>3. \A x, y \in 1 .. QueueSize : At(head, x) = At(head, y) => x = y
        BY <2>3, AtFacts
      <4> QED
        BY <4>1, <4>2, <4>3, Zenon
    <3>4. CASE q # p /\ r # p
      BY <2>0, <2>6, <2>10, <3>4 DEF QueueOk
    <3> QED
      BY <3>1, <3>2, <3>3, <3>4
  <2>11. ASSUME pc'[Link] = "advance"
         PROVE  a # <<>> /\ blk[Link] = a[1] /\ offsets[head] = None
    <3>1. accepted # <<>> /\ blk[Link] = accepted[1] /\ offsets[head] = None
      BY <2>0, <2>6, <2>11 DEF QueueOk
    <3>2. l # 0
      BY <1>0, <2>1, <3>1, EmptySeq DEF QueueTypes
    <3>3. 1 \in 1 .. l
      BY <3>2
    <3>4. a # <<>>
      BY <2>2, <3>3
    <3> QED
      BY <2>2, <3>1, <3>3, <3>4
  <2>12. Len(a) < QueueSize /\ tail' = At(head, Len(a) + 1)
    BY <2>2, <2>4, <2>5
  <2>13. /\ DOMAIN a = 1 .. l + 1 /\ accepted' = a /\ head' = head /\ offsets' = offsets
         /\ blk' = blk /\ seen' = seen
    BY <1>3, <2>2
  <2> QED
    BY <2>7, <2>8, <2>9, <2>10, <2>11, <2>12, <2>13 DEF QueueOk, At
<1> QED
    BY <1>0, <1>3, <1>5, <1>6, <1>7, <1>8, QueueCore
-----------------------------------------------------------------------------
(* Core: the rest of the queue. *)

\* A sender stores its block into the slot that it has claimed.
LEMMA StoreCore ==
    ASSUME Core, NEW p \in Senders, EnqueueStore(p)
    PROVE  Core'
<1> USE Threads
<1>0. Types /\ LocalTypes /\ PoolTypes /\ QueueTypes /\ LocalOk(p) /\ p \in Procs /\ NoneStranded
    BY DEF Core, Types, Locals
<1>1. /\ pc[p] = "store" /\ Moves(p, "signal") /\ "signal" \in Labels
      /\ offsets' = [offsets EXCEPT ![seen[p]] = blk[p]]
      /\ seen' = [seen EXCEPT ![p] = None]
      /\ UNCHANGED <<free_list_head, next_free, ref_count, total_allocated>>
      /\ UNCHANGED <<head, tail, edge, inbox, blk, again, accepted, mishaps>>
    BY DEF EnqueueStore, Goto, Moves, pool, history, Labels
<1>2. PICK b \in Blocks : b = blk[p]
    BY <1>0, <1>1 DEF LocalOk, Holding
<1>3. PICK s \in 0 .. QueueSize - 1 : s = seen[p]
    BY <1>0, <1>1 DEF LocalOk
<1>4. LocalTypes' /\ pc'[p] = "signal" /\ Others(p)
    BY <1>0, <1>1, MoveFacts
<1>5. /\ offsets' \in [0 .. QueueSize - 1 -> Blocks \cup {None}] /\ offsets'[s] = b
      /\ \A t \in 0 .. QueueSize - 1 : t # s => offsets'[t] = offsets[t]
    BY <1>0, <1>1, <1>2, <1>3 DEF QueueTypes
<1>6. Types'
    BY <1>0, <1>1, <1>4, <1>5 DEF Types, PoolTypes, QueueTypes
<1>7. LocalOk(p)'
    BY <1>0, <1>1, <1>2, <1>4 DEF LocalOk, Placed, Holding, Carrying
<1>8. NoneStranded'
  <2>1. \A q \in Senders : pc[q] \in {"store", "signal"} => pc'[q] \in {"store", "signal"}
    BY <1>4 DEF Others
  <2>2. pc'[Link] = pc[Link]
    BY <1>4 DEF Others
  <2> QED
    BY <1>0, <1>1, <2>1, <2>2 DEF NoneStranded
<1>9. ASSUME "overrun" \notin mishaps'
      PROVE  QueueOk'
  <2>0. QueueOk
    BY <1>1, <1>9 DEF Core
  <2>1. /\ DOMAIN accepted = 1 .. Len(accepted) /\ Len(accepted) \in Nat
        /\ \A i \in DOMAIN accepted : i \in 1 .. QueueSize
        /\ \A i \in 1 .. QueueSize : At(head, i) \in 0 .. QueueSize - 1
        /\ \A i, j \in 1 .. QueueSize : At(head, i) = At(head, j) => i = j
        /\ At(head, 1) = head /\ 1 \in 1 .. QueueSize
    BY <1>0, <2>0, Positions
  <2>2. PICK k \in DOMAIN accepted :
           /\ accepted[k] = b /\ s = At(head, k) /\ offsets[At(head, k)] = None
           /\ k = 1 => pc[Link] # "advance"
    BY <1>1, <1>2, <1>3, <2>0 DEF QueueOk
  <2>3. \A i \in 1 .. QueueSize : i # k =>
            At(head, i) # s /\ offsets'[At(head, i)] = offsets[At(head, i)]
    BY <1>5, <2>1, <2>2
  <2>4. \A q \in Senders : q # p => pc'[q] = pc[q] /\ seen'[q] = seen[q] /\ blk'[q] = blk[q]
    BY <1>4 DEF Others
  <2>5. pc'[Link] = pc[Link] /\ blk'[Link] = blk[Link]
    BY <1>4 DEF Others
  <2>6. ASSUME NEW i \in DOMAIN accepted
        PROVE  \/ offsets'[At(head, i)] = accepted[i]
               \/ /\ offsets'[At(head, i)] = None
                  /\ \E q \in Senders :
                        pc'[q] = "store" /\ seen'[q] = At(head, i) /\ blk'[q] = accepted[i]
               \/ i = 1 /\ pc'[Link] = "advance"
    <3>1. CASE i = k
      BY <1>5, <2>2, <3>1
    <3>2. CASE i # k
      <4>1. offsets'[At(head, i)] = offsets[At(head, i)] /\ At(head, i) # s
        BY <2>1, <2>3, <3>2
      <4>2. ASSUME NEW q \in Senders, pc[q] = "store", seen[q] = At(head, i), blk[q] = accepted[i]
            PROVE  pc'[q] = "store" /\ seen'[q] = At(head, i) /\ blk'[q] = accepted[i]
        BY <1>3, <2>4, <4>1, <4>2
      <4> QED
        BY <2>0, <2>5, <4>1, <4>2 DEF QueueOk
    <3> QED
      BY <3>1, <3>2
  <2>7. ASSUME NEW i \in Len(accepted) + 1 .. QueueSize
        PROVE  offsets'[At(head, i)] = None
    <3>1. i \in 1 .. QueueSize /\ i # k
      BY <2>1, <2>2, Sizes
    <3> QED
      BY <2>0, <2>3, <3>1 DEF QueueOk
  <2>8. ASSUME NEW q \in Senders, pc'[q] = "store"
        PROVE  /\ q # p /\ pc[q] = "store"
               /\ \E i \in DOMAIN accepted :
                     /\ accepted[i] = blk'[q] /\ seen'[q] = At(head, i)
                     /\ offsets'[At(head, i)] = None
                     /\ i = 1 => pc'[Link] # "advance"
    <3>1. q # p /\ pc[q] = "store" /\ blk'[q] = blk[q] /\ seen'[q] = seen[q]
      BY <1>4, <2>4, <2>8
    <3>2. seen[q] # s
      BY <1>1, <1>3, <2>0, <3>1 DEF QueueOk
    <3>3. PICK i \in DOMAIN accepted :
             /\ accepted[i] = blk[q] /\ seen[q] = At(head, i) /\ offsets[At(head, i)] = None
             /\ i = 1 => pc[Link] # "advance"
      BY <2>0, <3>1 DEF QueueOk
    <3>4. offsets'[At(head, i)] = None
      BY <2>1, <2>2, <2>3, <3>2, <3>3
    <3> QED
      BY <2>5, <3>1, <3>3, <3>4
  <2>9. \A q, r \in Senders : pc'[q] = "store" /\ pc'[r] = "store" /\ seen'[q] = seen'[r] => q = r
    BY <2>0, <2>4, <2>8 DEF QueueOk
  <2>10. pc'[Link] = "advance" =>
             accepted # <<>> /\ blk'[Link] = accepted[1] /\ offsets'[head] = None
    <3>1. pc[Link] = "advance" => offsets'[head] = offsets[head]
      BY <2>1, <2>2, <2>3
    <3> QED
      BY <2>0, <2>5, <3>1 DEF QueueOk
  <2>11. /\ Len(accepted') < QueueSize /\ tail' = At(head', Len(accepted') + 1)
         /\ head' = head /\ accepted' = accepted
    BY <1>1, <2>0 DEF QueueOk
  <2>12. \A q \in Senders : pc'[q] = "store" =>
             \E i \in DOMAIN accepted :
                 /\ accepted[i] = blk'[q] /\ seen'[q] = At(head, i) /\ offsets'[At(head, i)] = None
                 /\ i = 1 => pc'[Link] # "advance"
    BY <2>8
  <2> QED
    BY <2>6, <2>7, <2>9, <2>10, <2>11, <2>12 DEF QueueOk, At
<1> QED
    BY <1>0, <1>1, <1>6, <1>7, <1>8, <1>9, QueueCore

\* The link thread takes the block out of the first slot, ...
LEMMA DequeueCore ==
    ASSUME Core, Dequeue
    PROVE  Core'
<1> USE Threads
<1>0. /\ Types /\ LocalTypes /\ PoolTypes /\ QueueTypes /\ LocalOk(Link)
      /\ head \in 0 .. QueueSize - 1 /\ Link \notin again
    BY DEF Core, Types, Locals, QueueTypes, LocalTypes
<1>1. PICK b \in Blocks : b = offsets[head]
    BY <1>0 DEF Dequeue, QueueTypes
<1>2. /\ pc[Link] = "drain" /\ Moves(Link, "advance") /\ "advance" \in Labels
      /\ blk' = [blk EXCEPT ![Link] = b] /\ offsets' = [offsets EXCEPT ![head] = None]
      /\ UNCHANGED <<free_list_head, next_free, ref_count, total_allocated>>
      /\ UNCHANGED <<head, tail, edge, inbox, seen, again, accepted, mishaps>>
      /\ head # tail
    BY <1>1 DEF Dequeue, Goto, Moves, pool, history, Labels
<1>3. LocalTypes' /\ pc'[Link] = "advance" /\ Others(Link) /\ blk'[Link] = b
    BY <1>0, <1>2, MoveFacts DEF LocalTypes
<1>4. /\ offsets' \in [0 .. QueueSize - 1 -> Blocks \cup {None}] /\ offsets'[head] = None
      /\ \A t \in 0 .. QueueSize - 1 : t # head => offsets'[t] = offsets[t]
    BY <1>0, <1>2 DEF QueueTypes
<1>5. Types'
    BY <1>0, <1>2, <1>3, <1>4 DEF Types, PoolTypes, QueueTypes
<1>6. LocalOk(Link)'
    BY <1>0, <1>2, <1>3 DEF LocalOk, Placed, Holding, Carrying
<1>7. NoneStranded'
    BY <1>3 DEF NoneStranded
<1>8. ASSUME "overrun" \notin mishaps'
      PROVE  QueueOk'
  <2>0. QueueOk
    BY <1>2, <1>8 DEF Core
  <2>1. /\ DOMAIN accepted = 1 .. Len(accepted) /\ Len(accepted) \in Nat
        /\ \A i \in DOMAIN accepted : i \in 1 .. QueueSize
        /\ \A i \in 1 .. QueueSize : At(head, i) \in 0 .. QueueSize - 1
        /\ \A i, j \in 1 .. QueueSize : At(head, i) = At(head, j) => i = j
        /\ At(head, 1) = head /\ 1 \in 1 .. QueueSize
    BY <1>0, <2>0, Positions
  <2>2. 1 \in DOMAIN accepted
    <3>1. Len(accepted) # 0
      BY <1>2, <2>0, <2>1 DEF QueueOk
    <3> QED
      BY <2>1, <3>1
  <2>3. accepted[1] = b
    BY <1>1, <1>2, <2>0, <2>1, <2>2 DEF QueueOk
  <2>4. \A i \in 1 .. QueueSize : i # 1 => offsets'[At(head, i)] = offsets[At(head, i)]
    BY <1>4, <2>1
  <2>5. \A q \in Senders : pc'[q] = pc[q] /\ seen'[q] = seen[q] /\ blk'[q] = blk[q]
    BY <1>3 DEF Others
  <2>6. ASSUME NEW i \in DOMAIN accepted
        PROVE  \/ offsets'[At(head, i)] = accepted[i]
               \/ /\ offsets'[At(head, i)] = None
                  /\ \E q \in Senders :
                        pc'[q] = "store" /\ seen'[q] = At(head, i) /\ blk'[q] = accepted[i]
               \/ i = 1 /\ pc'[Link] = "advance"
    <3>1. CASE i # 1
      <4>1. offsets'[At(head, i)] = offsets[At(head, i)]
        BY <2>1, <2>4, <3>1
      <4> QED
        BY <2>0, <2>5, <3>1, <4>1 DEF QueueOk
    <3> QED
      BY <1>3, <3>1
  <2>7. ASSUME NEW i \in Len(accepted) + 1 .. QueueSize
        PROVE  offsets'[At(head, i)] = None
    <3>1. i \in 1 .. QueueSize /\ i # 1
      BY <2>1, <2>2, Sizes
    <3> QED
      BY <2>0, <2>4, <3>1 DEF QueueOk
  <2>8. ASSUME NEW q \in Senders, pc'[q] = "store"
        PROVE  \E i \in DOMAIN accepted :
                   /\ accepted[i] = blk'[q] /\ seen'[q] = At(head, i)
                   /\ offsets'[At(head, i)] = None
                   /\ i = 1 => pc'[Link] # "advance"
    <3>1. pc[q] = "store"
      BY <2>5, <2>8
    <3>2. PICK i \in DOMAIN accepted :
             accepted[i] = blk[q] /\ seen[q] = At(head, i) /\ offsets[At(head, i)] = None
      BY <2>0, <3>1 DEF QueueOk
    <3>3. i # 1
      BY <1>1, <2>1, <3>2
    <3> QED
      BY <2>1, <2>4, <2>5, <3>2, <3>3
  <2>9. \A q, r \in Senders : pc'[q] = "store" /\ pc'[r] = "store" /\ seen'[q] = seen'[r] => q = r
    BY <2>0, <2>5 DEF QueueOk
  <2>10. /\ Len(accepted') < QueueSize /\ tail' = At(head', Len(accepted') + 1)
         /\ head' = head /\ accepted' = accepted /\ accepted # <<>>
    BY <1>2, <2>0, <2>2 DEF QueueOk
  <2> QED
    BY <1>3, <1>4, <2>3, <2>6, <2>7, <2>8, <2>9, <2>10 DEF QueueOk, At
<1> QED
    BY <1>0, <1>2, <1>5, <1>6, <1>7, <1>8, QueueCore
\* The queue without its first block.
LEMMA QueueRest ==
    ASSUME accepted \in Seq(Blocks)
    PROVE  LET a == SubSeq(accepted, 2, Len(accepted))
           IN  /\ a \in Seq(Blocks)
               /\ Len(a) = IF 2 <= Len(accepted) THEN Len(accepted) - 2 + 1 ELSE 0
               /\ \A i \in 1 .. Len(accepted) - 2 + 1 : a[i] = accepted[2 + i - 1]
<1> DEFINE a == SubSeq(accepted, 2, Len(accepted))
<1>1. Len(accepted) \in Nat /\ \A i \in 2 .. Len(accepted) : accepted[i] \in Blocks
  <2>1. Len(accepted) \in Nat /\ \A i \in 1 .. Len(accepted) : accepted[i] \in Blocks
      BY LenProperties, ElementOfSeq
  <2> QED
    BY <2>1
<1>2. 2 \in Int /\ Len(accepted) \in Int
    BY <1>1
<1> DEFINE l == Len(accepted)
<1>3. PICK m : m = 2
    OBVIOUS
<1>4. m \in Int /\ l \in Int /\ \A i \in m .. l : accepted[i] \in Blocks
    BY <1>1, <1>3
<1> HIDE DEF a, l
<1>5. /\ SubSeq(accepted, m, l) \in Seq(Blocks)
      /\ Len(SubSeq(accepted, m, l)) = IF m <= l THEN l - m + 1 ELSE 0
      /\ \A i \in 1 .. l - m + 1 : SubSeq(accepted, m, l)[i] = accepted[m + i - 1]
    BY <1>4, SubSeqProperties
<1>6. a = SubSeq(accepted, m, l)
    BY <1>3 DEF a, l
<1> QED
    BY <1>3, <1>5, <1>6, Zenon DEF l

\* ... and gives the slot back.
LEMMA AdvanceCore ==
    ASSUME Core, Advance
    PROVE  Core'
<1> USE Threads
<1>0. /\ Types /\ LocalTypes /\ PoolTypes /\ QueueTypes /\ LocalOk(Link)
      /\ head \in 0 .. QueueSize - 1 /\ accepted \in Seq(Blocks) /\ Link \notin again
    BY DEF Core, Types, Locals, QueueTypes, LocalTypes
<1> DEFINE a == SubSeq(accepted, 2, Len(accepted))
<1>1. /\ a \in Seq(Blocks)
      /\ Len(a) = IF 2 <= Len(accepted) THEN Len(accepted) - 2 + 1 ELSE 0
      /\ \A i \in 1 .. Len(accepted) - 2 + 1 : a[i] = accepted[2 + i - 1]
    BY <1>0, QueueRest
<1>2. PICK h \in 0 .. QueueSize - 1 : h = After(head)
    BY <1>0, AfterIs
<1>3. /\ pc[Link] = "advance" /\ Moves(Link, "deliver") /\ "deliver" \in Labels
      /\ head' = h /\ accepted' = a
      /\ UNCHANGED <<free_list_head, next_free, ref_count, total_allocated>>
      /\ UNCHANGED <<tail, offsets, edge, inbox, blk, seen, again, mishaps>>
    BY <1>2 DEF Advance, Goto, Moves, pool, Labels
<1> HIDE DEF a
<1>4. LocalTypes' /\ pc'[Link] = "deliver" /\ Others(Link)
    BY <1>0, <1>3, MoveFacts
<1>5. Types'
  <2>1. a \in Seq(Blocks)
    BY <1>1
  <2>2. PoolTypes'
    BY <1>0, <1>3 DEF PoolTypes
  <2>3. QueueTypes'
    BY <1>0, <1>3, <2>1 DEF QueueTypes
  <2> QED
    BY <1>4, <2>2, <2>3 DEF Types
<1>6. LocalOk(Link)'
    BY <1>0, <1>3, <1>4 DEF LocalOk, Placed, Holding, Carrying
<1>7. NoneStranded'
    BY <1>4 DEF NoneStranded
<1>8. ASSUME "overrun" \notin mishaps'
      PROVE  QueueOk'
  <2>0. QueueOk
    BY <1>3, <1>8 DEF Core
  <2>1. accepted # <<>> /\ offsets[head] = None
    BY <1>3, <2>0 DEF QueueOk
  <2>2. PICK l \in Nat : Len(accepted) = l + 1
    <3>1. Len(accepted) \in Nat /\ Len(accepted) # 0
      BY <1>0, <2>1, EmptySeq, LenProperties
    <3>2. PICK n \in Nat : n = Len(accepted)
      BY <3>1
    <3>3. n - 1 \in Nat /\ n = (n - 1) + 1
      BY <3>1, <3>2
    <3> QED
      BY <3>2, <3>3
  <2>3. Len(a) = l /\ DOMAIN a = 1 .. l /\ \A i \in 1 .. l : a[i] = accepted[i + 1]
    <3>1. Len(a) = l
      BY <1>1, <2>2
    <3>2. \A i \in 1 .. l : a[i] = accepted[i + 1]
      BY <1>1, <2>2
    <3> QED
      BY <3>1, <3>2, LenProperties
  <2>4. /\ \A i \in 1 .. QueueSize - 1 : At(h, i) = At(head, i + 1)
        /\ At(h, QueueSize) = head
    BY <1>0, <1>2, AtFacts
  <2>5. /\ \A i \in 1 .. l : i + 1 \in DOMAIN accepted /\ i + 1 # 1
        /\ \A i \in DOMAIN accepted : i = 1 \/ (i - 1 \in 1 .. l /\ (i - 1) + 1 = i)
        /\ l + 1 < QueueSize
    BY <1>0, <2>0, <2>2, Positions
  <2>6. Len(a) < QueueSize /\ tail = At(h, Len(a) + 1)
    <3>1. tail = At(head, (l + 1) + 1)
      BY <2>0, <2>2 DEF QueueOk
    <3>2. l + 1 \in 1 .. QueueSize - 1
      BY <2>5, Sizes
    <3> QED
      BY <2>3, <2>4, <2>5, <3>1, <3>2, Sizes
  <2>7. \A i \in 1 .. l : At(h, i) = At(head, i + 1)
    <3>1. \A i \in 1 .. l : i \in 1 .. QueueSize - 1
      BY <2>5, Sizes
    <3> QED
      BY <2>4, <3>1
  <2>8. \A q \in Senders : pc'[q] = pc[q] /\ seen'[q] = seen[q] /\ blk'[q] = blk[q]
    BY <1>4 DEF Others
  <2>9. ASSUME NEW i \in 1 .. l
        PROVE  \/ offsets[At(h, i)] = a[i]
               \/ /\ offsets[At(h, i)] = None
                  /\ \E q \in Senders : pc'[q] = "store" /\ seen'[q] = At(h, i) /\ blk'[q] = a[i]
    <3>1. i + 1 \in DOMAIN accepted /\ i + 1 # 1 /\ a[i] = accepted[i + 1]
      BY <2>3, <2>5
    <3> QED
      BY <2>0, <2>7, <2>8, <3>1 DEF QueueOk
  <2>10. ASSUME NEW i \in Len(a) + 1 .. QueueSize
         PROVE  offsets[At(h, i)] = None
    <3>1. CASE i = QueueSize
      BY <2>1, <2>4, <3>1
    <3>2. CASE i # QueueSize
      <4>1. i \in 1 .. QueueSize - 1 /\ i + 1 \in Len(accepted) + 1 .. QueueSize
        BY <2>2, <2>3, <3>2, Sizes
      <4> QED
        BY <2>0, <2>4, <4>1 DEF QueueOk
    <3> QED
      BY <3>1, <3>2
  <2>11. ASSUME NEW q \in Senders, pc'[q] = "store"
         PROVE  \E i \in 1 .. l :
                    a[i] = blk'[q] /\ seen'[q] = At(h, i) /\ offsets[At(h, i)] = None
    <3>1. pc[q] = "store"
      BY <2>8, <2>11
    <3>2. PICK i \in DOMAIN accepted :
             /\ accepted[i] = blk[q] /\ seen[q] = At(head, i) /\ offsets[At(head, i)] = None
             /\ i = 1 => pc[Link] # "advance"
      BY <2>0, <3>1 DEF QueueOk
    <3>3. i - 1 \in 1 .. l /\ (i - 1) + 1 = i
      BY <1>3, <2>5, <3>2
    <3> QED
      BY <2>3, <2>7, <2>8, <3>2, <3>3
  <2>12. \A q, r \in Senders : pc'[q] = "store" /\ pc'[r] = "store" /\ seen'[q] = seen'[r] => q = r
    BY <2>0, <2>8 DEF QueueOk
  <2>13. /\ DOMAIN a = 1 .. l /\ accepted' = a /\ head' = h /\ offsets' = offsets /\ tail' = tail
         /\ pc'[Link] # "advance"
    BY <1>3, <1>4, <2>3
  <2> QED
    BY <2>6, <2>9, <2>10, <2>11, <2>12, <2>13 DEF QueueOk, At
<1> QED
    BY <1>0, <1>3, <1>5, <1>6, <1>7, <1>8, QueueCore

\* Every step keeps Core.
LEMMA CoreNext ==
    ASSUME Core, [Next]_vars
    PROVE  Core'
<1>1. ASSUME NEW p \in Senders, Send(p)
      PROVE  Core'
    BY <1>1, AllocCore, EnqueueCore, ClaimCore, StoreCore DEF Send
<1>2. ASSUME NEW p \in Procs, GiveBack(p)
      PROVE  Core'
    BY <1>2, GiveBackCore
<1>3. ASSUME Receive
      PROVE  Core'
    BY <1>3, ReceiveCore, DequeueCore, AdvanceCore DEF Receive
<1>4. ASSUME NEW b \in Blocks, Handle(b)
      PROVE  Core'
    BY <1>4, ReceiveCore
<1>5. CASE UNCHANGED vars
  <2>1. UNCHANGED <<free_list_head, next_free, ref_count, total_allocated>>
    BY <1>5 DEF vars, pool
  <2>2. UNCHANGED <<head, tail, offsets, edge, inbox>>
    BY <1>5 DEF vars, queue
  <2>3. UNCHANGED <<pc, blk, seen, next, again>>
    BY <1>5 DEF vars, locals
  <2>4. UNCHANGED <<accepted, mishaps>>
    BY <1>5 DEF vars, history
  <2>5. Types' /\ Locals'
    BY <2>1, <2>2, <2>3, <2>4
       DEF Core, Types, PoolTypes, QueueTypes, LocalTypes, Locals, LocalOk, Placed
  <2>6. NoneStranded'
    BY <2>2, <2>3, <2>4 DEF Core, NoneStranded
  <2>7. QueueOk => QueueOk'
    BY <2>2, <2>3, <2>4 DEF QueueOk, At
  <2> QED
    BY <2>4, <2>5, <2>6, <2>7 DEF Core
<1> QED
    BY <1>1, <1>2, <1>3, <1>4, <1>5 DEF Next
-----------------------------------------------------------------------------
(* The initial states. *)

\* The blocks in the order of their offsets.
LEMMA InitList == Init => FreeList
<1> SUFFICES ASSUME Init PROVE FreeList
    OBVIOUS
<1> DEFINE f == CHOOSE s \in [1 .. N -> Blocks] : \A i, j \in DOMAIN s : s[i] = s[j] => i = j
<1>1. \E s \in [1 .. N -> Blocks] : \A i, j \in DOMAIN s : s[i] = s[j] => i = j
  <2>1. PICK s : s \in Bijection(1 .. N, Blocks)
    BY Sizes, FS_CardinalityType DEF N, ExistsBijection
  <2>2. s \in [1 .. N -> Blocks] /\ \A i, j \in DOMAIN s : s[i] = s[j] => i = j
    BY <2>1 DEF Bijection, Injection, IsInjective
  <2> QED
    BY <2>2
<1>2. f \in [1 .. N -> Blocks] /\ \A i, j \in 1 .. N : f[i] = f[j] => i = j
    BY <1>1
<1>3. Linked(f)
    BY DEF Init, N
<1>4. ref_count = [b \in Blocks |-> 0] /\ pc = [p \in Procs |-> "idle"]
    BY DEF Init
<1> HIDE DEF f
<1>5. f \in Seq(Blocks) /\ Len(f) = N
    BY <1>2, Sizes, SeqDef, LenProperties
<1>6. free_list_head = f[1] /\ N # 0
    BY <1>3, Sizes DEF Linked
<1>7. ASSUME NEW i \in 1 .. N
      PROVE  next_free[f[i]] = IF i = N THEN None ELSE f[i + 1]
  <2>1. f[i] \in Blocks /\ DOMAIN f = 1 .. N
    BY <1>2
  <2>2. (CHOOSE j \in DOMAIN f : f[j] = f[i]) = i
    BY <1>2, <2>1
  <2>3. next_free[f[i]] = LET k == CHOOSE j \in DOMAIN f : f[j] = f[i]
                          IN  IF k = Len(f) THEN None ELSE f[k + 1]
    BY <1>3, <2>1 DEF Linked
  <2> QED
    BY <1>5, <2>2, <2>3
<1>8. ListIs(N, f)
    BY <1>2, <1>6, <1>7, Sizes DEF ListIs
<1>9. \A b \in Blocks : Unused(b) /\ \E i \in 1 .. N : f[i] = b
  <2>1. f \in Surjection(1 .. N, Blocks)
    <3>1. f \in Injection(1 .. N, Blocks)
      BY <1>2 DEF Injection, IsInjective
    <3>2. Cardinality(1 .. N) = N
      BY Sizes, FS_Interval
    <3> QED
      BY <3>1, <3>2, Sizes, FS_Injection DEF N
  <2>2. \A b \in Blocks : Unused(b)
    BY <1>4 DEF Unused, Carries, Carrying
  <2> QED
    BY <2>1, <2>2 DEF Surjection
<1>10. N \in 0 .. N
    BY Sizes
<1> QED
    BY <1>2, <1>8, <1>9, <1>10 DEF FreeList

\* The segment as it is set up, and no thread in it.
LEMMA InitCore == Init => Core
<1> SUFFICES ASSUME Init PROVE Core
    OBVIOUS
<1>0. /\ Link \in Procs /\ Worker \in Procs /\ Senders \subseteq Procs /\ None \notin Blocks
      /\ Link \notin Senders /\ Worker \notin Senders /\ Link # Worker
    BY ShmAssumption DEF Procs
<1>1. /\ accepted = <<>> /\ accepted \in Seq(Blocks) /\ Len(accepted) = 0 /\ DOMAIN accepted = {}
      /\ head = 0 /\ tail = 0 /\ inbox = [b \in Blocks |-> 0] /\ edge = FALSE /\ mishaps = {}
      /\ ref_count = [b \in Blocks |-> 0] /\ total_allocated = 0 /\ again = {}
    BY EmptySeq DEF Init
<1>2. \A p \in Procs : pc[p] = "idle" /\ blk[p] = None
    BY DEF Init
<1>3. /\ offsets \in [0 .. QueueSize - 1 -> Blocks \cup {None}]
      /\ \A i \in 0 .. QueueSize - 1 : offsets[i] = None
    BY DEF Init
<1>4. free_list_head \in Blocks \cup {None} /\ next_free \in [Blocks -> Blocks \cup {None}]
  <2>0. PICK n \in 0 .. N : \E f \in [1 .. n -> Blocks] :
           /\ ListIs(n, f) /\ \A b \in Blocks : Unused(b) <=> \E i \in 1 .. n : f[i] = b
    BY InitList DEF FreeList
  <2>1. PICK f \in [1 .. n -> Blocks] :
           /\ ListIs(n, f) /\ \A b \in Blocks : Unused(b) <=> \E i \in 1 .. n : f[i] = b
    BY <2>0
  <2>2. free_list_head \in Blocks \cup {None}
    BY <2>1, Sizes DEF ListIs
  <2>3. \A b \in Blocks : next_free[b] \in Blocks \cup {None}
    <3>1. \A b \in Blocks : Unused(b)
      BY <1>1, <1>2 DEF Unused, Carries, Carrying
    <3> QED
      BY <2>1, <3>1, Sizes DEF ListIs
  <2>4. DOMAIN next_free = Blocks /\ next_free = [b \in Blocks |-> next_free[b]]
    BY DEF Init, Linked
  <2> QED
    BY <2>2, <2>3, <2>4
<1>5. PoolTypes
  <2>1. ref_count \in [Blocks -> Int] /\ inbox \in [Blocks -> Nat]
    BY <1>1
  <2>2. edge \in BOOLEAN
    BY <1>1, Zenon
  <2>3. total_allocated \in Int
    BY <1>1
  <2>4. mishaps \subseteq {"torn", "overrun"}
    BY <1>1, Zenon
  <2> QED
    BY <1>4, <2>1, <2>2, <2>3, <2>4, Zenon DEF PoolTypes
<1>6. QueueTypes
    BY <1>1, <1>3, Sizes DEF QueueTypes
<1>7. LocalTypes
  <2>1. pc \in [Procs -> Labels]
    BY DEF Init, Labels
  <2>2. blk \in [Procs -> Blocks \cup {None}]
    BY DEF Init
  <2>3. seen \in [Procs -> Blocks \cup (0 .. QueueSize - 1) \cup {None}]
    BY DEF Init
  <2>4. next \in [Procs -> Blocks \cup {None}]
    BY DEF Init
  <2> QED
    BY <1>1, <2>1, <2>2, <2>3, <2>4 DEF LocalTypes
<1>8. Locals
    BY <1>0, <1>1, <1>2 DEF Locals, LocalOk, Placed, Holding, Carrying
<1>9. NoneStranded
    BY <1>1 DEF NoneStranded
<1>10. QueueOk
  <2>1. \A i \in 1 .. QueueSize : At(0, i) \in 0 .. QueueSize - 1
    BY AtFacts, Sizes
  <2>2. tail = At(head, Len(accepted) + 1)
    BY <1>1, Sizes DEF At
  <2>3. \A i \in Len(accepted) + 1 .. QueueSize : offsets[At(head, i)] = None
    BY <1>1, <1>3, <2>1
  <2>4. pc[Link] = "idle" /\ \A p \in Senders : pc[p] = "idle"
    BY <1>0, <1>2
  <2> QED
    BY <1>1, <2>2, <2>3, <2>4, Sizes DEF QueueOk
<1> QED
    BY <1>5, <1>6, <1>7, <1>8, <1>9, <1>10 DEF Core, Types
-----------------------------------------------------------------------------
(* Pool: frames. *)

\* A step that leaves the list and the blocks that nobody has as they are.
LEMMA ListFrame ==
    ASSUME FreeList, UNCHANGED free_list_head,
           \A b \in Blocks : Unused(b)' <=> Unused(b),
           \A b \in Blocks : Unused(b) => next_free'[b] = next_free[b]
    PROVE  FreeList'
<1>0. PICK n \in 0 .. N : \E f \in [1 .. n -> Blocks] :
         ListIs(n, f) /\ \A b \in Blocks : Unused(b) <=> \E i \in 1 .. n : f[i] = b
    BY DEF FreeList
<1>1. PICK f \in [1 .. n -> Blocks] :
         ListIs(n, f) /\ \A b \in Blocks : Unused(b) <=> \E i \in 1 .. n : f[i] = b
    BY <1>0
<1>2. \A i \in 1 .. n : next_free'[f[i]] = next_free[f[i]]
    BY <1>1
<1>3. ListIs(n, f)'
    BY <1>1, <1>2 DEF ListIs
<1> QED
    BY <1>1, <1>3 DEF FreeList, N

\* A step that neither takes a block from the list or puts one back nor is
\* between the list and the counter.
LEMMA TallyFrame ==
    ASSUME Tally, UNCHANGED total_allocated,
           \A b \in Blocks : Unused(b)' <=> Unused(b),
           \A q \in Procs : /\ pc'[q] = "count" <=> pc[q] = "count"
                            /\ pc'[q] = "discount" <=> pc[q] = "discount"
    PROVE  Tally'
<1>1. Taken' = Taken
    BY DEF Taken
<1>2. Popped' = Popped /\ Pushed' = Pushed
    BY DEF Popped, Pushed
<1> QED
    BY <1>1, <1>2 DEF Tally

\* A step of one thread, whatever it does to the references, that takes no
\* part in the list.
LEMMA LinkageFrame ==
    ASSUME Linkage, NEW p \in Procs, Others(p), UNCHANGED next_free, pc'[p] # "swap"
    PROVE  Linkage'
BY DEF Linkage, Others

\* A step in which one thread goes on and no reference appears, moves or
\* disappears.
LEMMA RefsFrame ==
    ASSUME Counts, Once, Stages, NEW p \in Procs, Others(p),
           UNCHANGED <<ref_count, inbox, accepted>>,
           \A b : (Holds(p, b)' <=> Holds(p, b)) /\ (Lends(p, b)' <=> Lends(p, b)),
           pc'[p] \notin {"retain", "deliver"}, p \in again' => pc'[p] = "release",
           again' \subseteq Senders
    PROVE  Counts' /\ Once' /\ Stages'
<1> USE Threads
<1>1. \A q \in Procs : \A b : (Holds(q, b)' <=> Holds(q, b)) /\ (Lends(q, b)' <=> Lends(q, b))
    BY DEF Holds, Lends, Others
<1>2. \A b : InQueue(b)' <=> InQueue(b)
    BY DEF InQueue
<1>3. \A b : (Sent(b)' <=> Sent(b)) /\ (Underway(b)' <=> Underway(b)) /\ (Boxed(b)' <=> Boxed(b))
    BY <1>1, <1>2 DEF Sent, Underway, Boxed
<1>4. Counts'
    BY <1>3 DEF Counts, One
<1>5. Once'
    BY <1>1, <1>2 DEF Once
<1>6. Stages'
  <2>1. \A q \in Senders : pc'[q] = "retain" => ref_count'[blk'[q]] = 1
    BY DEF Stages, Others
  <2>2. \A q \in again' : pc'[q] = "release"
    BY DEF Stages, Others
  <2>3. \A b : pc'[Link] = "deliver" /\ blk'[Link] = b => pc[Link] = "deliver" /\ blk[Link] = b
    BY DEF Others
  <2> QED
    BY <1>1, <1>2, <1>3, <2>1, <2>2, <2>3 DEF Stages
<1> QED
    BY <1>4, <1>5, <1>6

\* One that takes no part in the list either.
LEMMA QuietPool ==
    ASSUME Pool, NEW p \in Procs, Others(p),
           UNCHANGED <<free_list_head, next_free, ref_count, total_allocated>>,
           UNCHANGED <<inbox, accepted>>, "overrun" \notin mishaps',
           blk'[p] = blk[p] \/ (/\ pc[p] \notin Holding \cup Carrying
                                /\ pc'[p] \notin Holding \cup Carrying),
           pc'[p] \in Holding <=> pc[p] \in Holding,
           pc'[p] \in Lending \/ p \in again' <=> pc[p] \in Lending \/ p \in again,
           pc'[p] \in Carrying <=> pc[p] \in Carrying,
           pc'[p] \notin {"retain", "deliver", "swap", "count", "discount"},
           pc[p] \notin {"count", "discount"},
           p \in again => pc[p] = "release", p \in again' => pc'[p] = "release",
           again' \subseteq Senders
    PROVE  Pool'
<1> USE Threads DEF Pool
<1>1. \A b : (Holds(p, b)' <=> Holds(p, b)) /\ (Carries(p, b)' <=> Carries(p, b))
    BY DEF Holds, Carries
<1>2. \A b : Lends(p, b)' <=> Lends(p, b)
    BY DEF Lends, Lending, Holding
<1>3. Counts' /\ Once' /\ Stages'
    BY <1>1, <1>2, RefsFrame
<1>4. \A q \in Procs : \A b : Carries(q, b)' <=> Carries(q, b)
    BY <1>1 DEF Carries, Others
<1>5. CarriedOnce' /\ \A b : Unused(b)' <=> Unused(b)
    BY <1>4 DEF CarriedOnce, Unused
<1>6. Linkage'
    BY LinkageFrame
<1>7. FreeList'
    BY <1>5, ListFrame
<1>8. Tally'
  <2>1. \A q \in Procs : /\ pc'[q] = "count" <=> pc[q] = "count"
                         /\ pc'[q] = "discount" <=> pc[q] = "discount"
    BY DEF Others
  <2> QED
    BY <1>5, <2>1, TallyFrame
<1> QED
    BY <1>3, <1>5, <1>6, <1>7, <1>8

\* The steps of a sender that only read, lose a race, store the block or ring.
LEMMA SenderQuiet ==
    ASSUME Core, Pool, NEW p \in Senders,
           \/ AllocRead(p) \/ AllocNext(p) \/ AllocRetry(p)
           \/ EnqueueRead(p) \/ EnqueueBusy(p) \/ EnqueueLook(p)
           \/ EnqueueRetry(p) \/ EnqueueStore(p) \/ Signal(p)
    PROVE  Pool'
<1> USE Threads
<1>1. LocalTypes /\ p \in Procs /\ again \subseteq Senders /\ "overrun" \notin mishaps
      /\ (p \in again => pc[p] = "release")
    BY DEF Core, Types, LocalTypes, Pool, Stages
<1>2. \E from, to \in Labels :
         /\ pc[p] = from /\ pc' = [pc EXCEPT ![p] = to] /\ UNCHANGED blk
         /\ again' = IF from = "look" /\ to = "release" THEN again \cup {p} ELSE again
         /\ <<from, to>> \in {<<"idle", "next">>, <<"next", "pop">>, <<"pop", "idle">>,
               <<"enqueue", "look">>, <<"look", "release">>, <<"look", "claim">>,
               <<"claim", "enqueue">>, <<"store", "signal">>, <<"signal", "release">>}
    BY DEF AllocRead, AllocNext, AllocRetry, EnqueueRead, EnqueueBusy, EnqueueLook,
           EnqueueRetry, EnqueueStore, Signal, Goto, Labels
<1>3. /\ UNCHANGED <<free_list_head, next_free, ref_count, total_allocated>>
      /\ UNCHANGED <<inbox, accepted, mishaps>>
    BY DEF AllocRead, AllocNext, AllocRetry, EnqueueRead, EnqueueBusy, EnqueueLook,
           EnqueueRetry, EnqueueStore, Signal, pool, history
<1>4. \E to \in Labels : Moves(p, to)
  <2>1. tail \in Blocks \cup (0 .. QueueSize - 1) \cup {None}
        /\ free_list_head \in Blocks \cup {None}
    BY DEF Core, Types, QueueTypes, PoolTypes
  <2>2. pc[p] = "next" => next_free[seen[p]] \in Blocks \cup {None}
    BY <1>1 DEF Core, Types, PoolTypes, Locals, LocalOk
  <2> QED
    BY <1>1, <1>2, <2>1, <2>2
       DEF AllocRead, AllocNext, AllocRetry, EnqueueRead, EnqueueBusy, EnqueueLook,
           EnqueueRetry, EnqueueStore, Signal, Goto, Moves
<1>5. Others(p) /\ LocalTypes'
    BY <1>1, <1>4, MoveFacts
<1>6. PICK from, to \in Labels :
         /\ pc[p] = from /\ pc'[p] = to /\ UNCHANGED blk
         /\ p \in again' <=> p \in again \/ (from = "look" /\ to = "release")
         /\ <<from, to>> \in {<<"idle", "next">>, <<"next", "pop">>, <<"pop", "idle">>,
               <<"enqueue", "look">>, <<"look", "release">>, <<"look", "claim">>,
               <<"claim", "enqueue">>, <<"store", "signal">>, <<"signal", "release">>}
    BY <1>1, <1>2 DEF LocalTypes
<1>7. /\ to \in Holding <=> from \in Holding
      /\ to \in Lending \/ p \in again' <=> from \in Lending \/ p \in again
      /\ to \in Carrying <=> from \in Carrying
      /\ to \notin {"retain", "deliver", "swap", "count", "discount"}
      /\ from \notin {"count", "discount"}
      /\ p \in again' => to = "release"
    BY <1>1, <1>6 DEF Holding, Lending, Carrying
<1> QED
    BY <1>1, <1>3, <1>5, <1>6, <1>7, QuietPool DEF LocalTypes

\* The steps of the link thread that find something or nothing, and a push
\* that has lost a race.
LEMMA OtherQuiet ==
    ASSUME Core, Pool,
           \/ Event \/ DequeueEmpty \/ Dequeue \/ Undeliverable
           \/ \E p \in Procs : PushRetry(p)
    PROVE  Pool'
<1> USE Threads
<1>1. LocalTypes /\ again \subseteq Senders /\ "overrun" \notin mishaps
      /\ \A p \in again : pc[p] = "release"
    BY DEF Core, Types, LocalTypes, Pool, Stages
<1>2. CASE Event \/ DequeueEmpty \/ Dequeue \/ Undeliverable
  <2>1. \E from, to \in Labels :
           /\ pc[Link] = from /\ pc' = [pc EXCEPT ![Link] = to] /\ UNCHANGED again
           /\ <<from, to>> \in {<<"idle", "drain">>, <<"drain", "idle">>, <<"drain", "advance">>,
                                <<"deliver", "release">>}
           /\ blk' = blk \/ (from = "drain" /\ to = "advance")
    BY <1>2 DEF Event, DequeueEmpty, Dequeue, Undeliverable, Goto, Labels
  <2>2. /\ UNCHANGED <<free_list_head, next_free, ref_count, total_allocated>>
        /\ UNCHANGED <<inbox, accepted, mishaps>>
    BY <1>2 DEF Event, DequeueEmpty, Dequeue, Undeliverable, pool, history
  <2>3. \E to \in Labels : Moves(Link, to)
    <3>1. Dequeue => offsets[head] \in Blocks \cup {None}
      BY DEF Core, Types, QueueTypes
    <3> QED
      BY <1>1, <1>2, <2>1, <3>1 DEF Event, DequeueEmpty, Dequeue, Undeliverable, Goto, Moves
  <2>4. Others(Link)
    BY <1>1, <2>3, MoveFacts
  <2>5. PICK from, to \in Labels :
           /\ pc[Link] = from /\ pc'[Link] = to /\ UNCHANGED again
           /\ <<from, to>> \in {<<"idle", "drain">>, <<"drain", "idle">>, <<"drain", "advance">>,
                                <<"deliver", "release">>}
           /\ blk' = blk \/ (from = "drain" /\ to = "advance")
    BY <1>1, <2>1 DEF LocalTypes
  <2>6. /\ to \in Holding <=> from \in Holding
        /\ to \in Lending \/ Link \in again' <=> from \in Lending \/ Link \in again
        /\ to \in Carrying <=> from \in Carrying
        /\ \/ blk'[Link] = blk[Link]
           \/ from \notin Holding \cup Carrying /\ to \notin Holding \cup Carrying
        /\ to \notin {"retain", "deliver", "swap", "count", "discount"}
        /\ from \notin {"count", "discount"}
    BY <2>5 DEF Holding, Lending, Carrying
  <2> QED
    BY <1>1, <2>2, <2>4, <2>5, <2>6, QuietPool
<1>3. ASSUME NEW p \in Procs, PushRetry(p)
      PROVE  Pool'
  <2>1. /\ pc[p] = "swap" /\ Moves(p, "push") /\ "push" \in Labels
        /\ UNCHANGED <<free_list_head, next_free, ref_count, total_allocated>>
        /\ UNCHANGED <<inbox, accepted, mishaps, blk, again>>
    BY <1>3 DEF PushRetry, Goto, Moves, pool, history, Labels
  <2>2. pc'[p] = "push" /\ Others(p)
    BY <1>1, <2>1, MoveFacts
  <2>3. p \notin again
    BY <1>1, <2>1
  <2> QED
    BY <1>1, <2>1, <2>2, <2>3, QuietPool DEF Holding, Lending, Carrying
<1> QED
    BY <1>2, <1>3
-----------------------------------------------------------------------------
(* Pool: the list. *)

\* The first block leaves the list, and the second is its head.
LEMMA ListPop ==
    ASSUME FreeList, NEW b \in Blocks, free_list_head = b, UNCHANGED next_free,
           free_list_head' = next_free[b],
           \A c \in Blocks : Unused(c)' <=> Unused(c) /\ c # b
    PROVE  FreeList' /\ Unused(b)
<1>1. PICK n \in 0 .. N : \E f \in [1 .. n -> Blocks] :
         ListIs(n, f) /\ \A c \in Blocks : Unused(c) <=> \E i \in 1 .. n : f[i] = c
    BY DEF FreeList
<1>2. PICK f \in [1 .. n -> Blocks] :
         ListIs(n, f) /\ \A c \in Blocks : Unused(c) <=> \E i \in 1 .. n : f[i] = c
    BY <1>1
<1>3. n # 0 /\ f[1] = b /\ Unused(b)
    BY <1>2, ShmAssumption DEF ListIs
<1>4. PICK m : m = n - 1
    OBVIOUS
<1>5. m \in 0 .. N /\ n = m + 1
    BY <1>3, <1>4, Sizes
<1>6. PICK g : g = [i \in 1 .. m |-> f[i + 1]]
    OBVIOUS
<1>7. /\ \A i \in 1 .. m : i + 1 \in 1 .. n
      /\ \A i \in 1 .. m : g[i] = f[i + 1]
      /\ g \in [1 .. m -> Blocks]
  <2>1. \A i \in 1 .. m : i + 1 \in 1 .. n
    BY <1>5
  <2> QED
    BY <1>2, <1>6, <2>1
<1>8. ListIs(m, g)'
  <2>1. m \in Nat
    BY <1>5
  <2>2. \A i, j \in 1 .. m : g[i] = g[j] => i = j
    <3>1. \A i, j \in 1 .. n : f[i] = f[j] => i = j
      BY <1>2 DEF ListIs
    <3>2. SUFFICES ASSUME NEW i \in 1 .. m, NEW j \in 1 .. m, g[i] = g[j] PROVE i = j
      OBVIOUS
    <3>3. i + 1 = j + 1
      BY <1>7, <3>1, <3>2
    <3> QED
      BY <3>3
  <2>3. free_list_head' = IF m = 0 THEN None ELSE g[1]
    <3>0. 1 \in 1 .. n
      BY <1>5
    <3>1. next_free[f[1]] = IF 1 = n THEN None ELSE f[1 + 1]
      BY <1>2, <3>0, Zenon DEF ListIs
    <3>2. CASE m = 0
      BY <1>3, <1>5, <3>1, <3>2
    <3>3. CASE m # 0
      <4>1. 1 \in 1 .. m /\ 1 # n
        BY <1>5, <3>3
      <4> QED
        BY <1>3, <1>7, <3>1, <3>3, <4>1
    <3> QED
      BY <3>2, <3>3
  <2>4. \A i \in 1 .. m : next_free'[g[i]] = IF i = m THEN None ELSE g[i + 1]
    <3>1. SUFFICES ASSUME NEW i \in 1 .. m
                   PROVE  next_free[g[i]] = IF i = m THEN None ELSE g[i + 1]
      OBVIOUS
    <3>2. next_free[f[i + 1]] = IF i + 1 = n THEN None ELSE f[i + 1 + 1]
      BY <1>2, <1>7 DEF ListIs
    <3>3. i # m => i + 1 \in 1 .. m
      BY <1>5
    <3> QED
      BY <1>5, <1>7, <3>2, <3>3
  <2> QED
    BY <1>7, <2>1, <2>2, <2>3, <2>4 DEF ListIs
<1>9. \A c \in Blocks : Unused(c)' <=> \E i \in 1 .. m : g[i] = c
  <2>1. SUFFICES ASSUME NEW c \in Blocks PROVE Unused(c)' <=> \E i \in 1 .. m : g[i] = c
    OBVIOUS
  <2>2. Unused(c)' <=> c # b /\ \E i \in 1 .. n : f[i] = c
    BY <1>2
  <2>3. ASSUME c # b, NEW i \in 1 .. n, f[i] = c PROVE \E j \in 1 .. m : g[j] = c
    <3>1. i # 1 /\ i - 1 \in 1 .. m /\ (i - 1) + 1 = i
      BY <1>3, <1>5, <2>3
    <3> QED
      BY <1>7, <2>3, <3>1
  <2>4. ASSUME NEW i \in 1 .. m, g[i] = c PROVE c # b /\ \E j \in 1 .. n : f[j] = c
    <3>1. f[i + 1] = c /\ i + 1 \in 1 .. n /\ 1 \in 1 .. n /\ i + 1 # 1
      BY <1>5, <1>7, <2>4
    <3> QED
      BY <1>2, <1>3, <3>1 DEF ListIs
  <2> QED
    BY <2>2, <2>3, <2>4
<1> QED
    BY <1>3, <1>5, <1>7, <1>8, <1>9 DEF FreeList, N

\* A block that is linked to the head comes before it.
LEMMA ListPush ==
    ASSUME FreeList, NEW b \in Blocks, ~Unused(b), next_free[b] = free_list_head,
           UNCHANGED next_free, free_list_head' = b,
           \A c \in Blocks : Unused(c)' <=> Unused(c) \/ c = b
    PROVE  FreeList'
<1>1. PICK n \in 0 .. N : \E f \in [1 .. n -> Blocks] :
         ListIs(n, f) /\ \A c \in Blocks : Unused(c) <=> \E i \in 1 .. n : f[i] = c
    BY DEF FreeList
<1>2. PICK f \in [1 .. n -> Blocks] :
         ListIs(n, f) /\ \A c \in Blocks : Unused(c) <=> \E i \in 1 .. n : f[i] = c
    BY <1>1
<1>3. PICK m : m = n + 1
    OBVIOUS
<1>4. n \in Nat /\ m \in Nat /\ m = n + 1
    BY <1>1, <1>3, Sizes
<1>5. PICK g : g = [i \in 1 .. m |-> IF i = 1 THEN b ELSE f[i - 1]]
    OBVIOUS
<1>6. /\ g[1] = b
      /\ \A i \in 1 .. n : i + 1 \in 1 .. m /\ i + 1 # 1 /\ g[i + 1] = f[i]
      /\ g \in [1 .. m -> Blocks]
      /\ \A i \in 1 .. m : i = 1 \/ (i - 1 \in 1 .. n /\ (i - 1) + 1 = i /\ g[i] = f[i - 1])
  <2>1. 1 \in 1 .. m
    BY <1>4
  <2>2. \A i \in 1 .. n : i + 1 \in 1 .. m /\ i + 1 # 1 /\ (i + 1) - 1 = i
    BY <1>4
  <2>3. \A i \in 1 .. m : i = 1 \/ (i - 1 \in 1 .. n /\ (i - 1) + 1 = i)
    BY <1>4
  <2>4. g[1] = b /\ \A i \in 1 .. n : g[i + 1] = f[i]
    BY <1>5, <2>1, <2>2
  <2>5. \A i \in 1 .. m : i = 1 \/ g[i] = f[i - 1]
    BY <1>5, <2>3
  <2>6. \A i \in 1 .. m : (IF i = 1 THEN b ELSE f[i - 1]) \in Blocks
    BY <1>2, <2>3
  <2>7. g \in [1 .. m -> Blocks]
    BY <1>5, <2>6
  <2> QED
    BY <2>2, <2>3, <2>4, <2>5, <2>7
<1>7. ListIs(m, g)'
  <2>1. \A i, j \in 1 .. m : g[i] = g[j] => i = j
    <3>1. \A i, j \in 1 .. n : f[i] = f[j] => i = j
      BY <1>2 DEF ListIs
    <3>2. \A i \in 1 .. n : f[i] # b
      BY <1>2
    <3>3. SUFFICES ASSUME NEW i \in 1 .. m, NEW j \in 1 .. m, g[i] = g[j] PROVE i = j
      OBVIOUS
    <3>4. CASE i = 1 \/ j = 1
      BY <1>6, <3>2, <3>3, <3>4
    <3>5. CASE i # 1 /\ j # 1
      <4>1. i - 1 = j - 1
        BY <1>6, <3>1, <3>3, <3>5
      <4> QED
        BY <4>1
    <3> QED
      BY <3>4, <3>5
  <2>2. free_list_head' = IF m = 0 THEN None ELSE g[1]
    BY <1>4, <1>6
  <2>3. ASSUME NEW i \in 1 .. m
        PROVE  next_free[g[i]] = IF i = m THEN None ELSE g[i + 1]
    <3>1. CASE i = 1
      <4>1. free_list_head = IF n = 0 THEN None ELSE f[1]
        BY <1>2 DEF ListIs
      <4>2. CASE n = 0
        BY <1>4, <1>6, <3>1, <4>1, <4>2
      <4>3. CASE n # 0
        <5>1. 1 \in 1 .. n /\ i # m /\ i + 1 = 1 + 1
          BY <1>4, <3>1, <4>3
        <5> QED
          BY <1>6, <3>1, <4>1, <4>3, <5>1
      <4> QED
        BY <4>2, <4>3
    <3>2. CASE i # 1
      <4>1. PICK j \in 1 .. n : j + 1 = i /\ g[i] = f[j]
        BY <1>6, <3>2
      <4>2. next_free[f[j]] = IF j = n THEN None ELSE f[j + 1]
        BY <1>2 DEF ListIs
      <4>3. CASE j = n
        BY <1>4, <4>1, <4>2, <4>3
      <4>4. CASE j # n
        <5>1. j + 1 \in 1 .. n /\ i # m
          BY <1>4, <4>1, <4>4
        <5>2. g[(j + 1) + 1] = f[j + 1]
          BY <1>6, <5>1
        <5> QED
          BY <4>1, <4>2, <4>4, <5>1, <5>2
      <4> QED
        BY <4>3, <4>4
    <3> QED
      BY <3>1, <3>2
  <2> QED
    BY <1>4, <1>6, <2>1, <2>2, <2>3 DEF ListIs
<1>8. \A c \in Blocks : Unused(c)' <=> \E i \in 1 .. m : g[i] = c
  <2>1. SUFFICES ASSUME NEW c \in Blocks PROVE Unused(c)' <=> \E i \in 1 .. m : g[i] = c
    OBVIOUS
  <2>2. Unused(c)' <=> c = b \/ \E i \in 1 .. n : f[i] = c
    BY <1>2
  <2>3. 1 \in 1 .. m
    BY <1>4
  <2> QED
    BY <1>6, <2>2, <2>3
<1>9. m \in 0 .. N
  <2>1. g \in Injection(1 .. m, Blocks)
    BY <1>6, <1>7 DEF ListIs, Injection, IsInjective
  <2>2. Cardinality(1 .. m) <= N /\ Cardinality(1 .. m) = m
    BY <1>4, <2>1, Sizes, FS_Injection, FS_Interval DEF N
  <2> QED
    BY <1>4, <2>2, Sizes
<1> QED
    BY <1>6, <1>7, <1>8, <1>9 DEF FreeList, N

\* The sets that total_allocated is counted by.
LEMMA TallySets ==
    /\ IsFiniteSet(Taken) /\ IsFiniteSet(Popped) /\ IsFiniteSet(Pushed) /\ IsFiniteSet(Procs)
    /\ Cardinality(Taken) \in Nat /\ Cardinality(Popped) \in Nat
    /\ Cardinality(Pushed) \in Nat
<1>1. IsFiniteSet({Link, Worker})
  <2>1. IsFiniteSet({Link}) /\ IsFiniteSet({Worker})
    BY FS_Singleton
  <2>2. {Link, Worker} = {Link} \cup {Worker}
    OBVIOUS
  <2> QED
    BY <2>1, <2>2, FS_Union
<1>2. IsFiniteSet(Procs)
    BY <1>1, FS_Union, ShmAssumption DEF Procs
<1>3. Taken \subseteq Blocks /\ Popped \subseteq Procs /\ Pushed \subseteq Procs
    BY DEF Taken, Popped, Pushed
<1>4. IsFiniteSet(Taken) /\ IsFiniteSet(Popped) /\ IsFiniteSet(Pushed)
    BY <1>2, <1>3, FS_Subset, Sizes
<1> QED
    BY <1>2, <1>4, FS_CardinalityType

\* One element more, one less.
LEMMA OneMore ==
    ASSUME NEW S, IsFiniteSet(S), NEW x
    PROVE  /\ Cardinality(S) \in Nat
           /\ x \notin S => Cardinality(S \cup {x}) = Cardinality(S) + 1
           /\ x \in S => Cardinality(S \ {x}) = Cardinality(S) - 1
BY FS_CardinalityType, FS_AddElement, FS_RemoveElement

\* The pop: the block is on its way in the hands of the sender, and not counted
\* yet.  The list is whole because the link that was read is still the block's.
LEMMA AllocSwapPool ==
    ASSUME Core, Pool, NEW p \in Senders, AllocSwap(p), "torn" \notin mishaps'
    PROVE  Pool'
<1> USE Threads DEF Pool
<1>1. LocalTypes /\ p \in Procs /\ again \subseteq Senders /\ LocalOk(p)
    BY DEF Core, Types, LocalTypes, Locals
<1>2. PICK b \in Blocks : b = seen[p]
    BY <1>1 DEF AllocSwap, Goto, LocalOk
<1>3. /\ pc[p] = "pop" /\ Moves(p, "count") /\ "count" \in Labels
      /\ free_list_head = b /\ free_list_head' = next_free[b] /\ mishaps' = mishaps
      /\ blk' = [blk EXCEPT ![p] = b]
      /\ UNCHANGED <<next_free, ref_count, total_allocated, inbox, accepted, again>>
    BY <1>1, <1>2 DEF AllocSwap, Goto, Moves, Labels
<1>4. pc'[p] = "count" /\ blk'[p] = b /\ Others(p) /\ p \notin again
    BY <1>1, <1>3, MoveFacts DEF LocalTypes, Stages
<1>5. \A c : /\ ~Holds(p, c) /\ ~Holds(p, c)' /\ ~Lends(p, c) /\ ~Lends(p, c)'
             /\ ~Carries(p, c) /\ (Carries(p, c)' <=> c = b)
    BY <1>3, <1>4 DEF Holds, Lends, Carries, Holding, Lending, Carrying
<1>6. Counts' /\ Once' /\ Stages'
    BY <1>1, <1>3, <1>4, <1>5, RefsFrame
<1>7. \A q \in Procs : q # p => \A c : Carries(q, c)' <=> Carries(q, c)
    BY <1>4 DEF Carries, Others
<1>8. \A c \in Blocks : Unused(c)' <=> Unused(c) /\ c # b
    BY <1>1, <1>3, <1>5, <1>7 DEF Unused
<1>9. FreeList' /\ Unused(b)
    BY <1>3, <1>8, ListPop
<1>10. CarriedOnce'
    BY <1>3, <1>5, <1>7, <1>9 DEF CarriedOnce, Unused
<1>11. Linkage'
    BY <1>1, <1>3, <1>4, LinkageFrame
<1>12. Tally'
  <2>1. Taken' = Taken \cup {b} /\ b \notin Taken
    BY <1>8, <1>9 DEF Taken
  <2>2. Popped' = Popped \cup {p} /\ p \notin Popped /\ Pushed' = Pushed
    BY <1>1, <1>3, <1>4 DEF Popped, Pushed, Others
  <2>3. Cardinality(Taken') = Cardinality(Taken) + 1
    BY <2>1, OneMore, TallySets
  <2>4. Cardinality(Popped') = Cardinality(Popped) + 1
    BY <2>2, OneMore, TallySets
  <2> QED
    BY <1>3, <2>2, <2>3, <2>4, TallySets DEF Tally
<1> QED
    BY <1>3, <1>6, <1>9, <1>10, <1>11, <1>12

\* It is counted.
LEMMA AllocCountPool ==
    ASSUME Core, Pool, NEW p \in Senders, AllocCount(p)
    PROVE  Pool'
<1> USE Threads DEF Pool
<1>1. LocalTypes /\ p \in Procs /\ again \subseteq Senders
    BY DEF Core, Types, LocalTypes
<1>2. /\ pc[p] = "count" /\ Moves(p, "fresh") /\ "fresh" \in Labels
      /\ total_allocated' = total_allocated + 1
      /\ UNCHANGED <<free_list_head, next_free, ref_count, inbox, accepted, mishaps, blk, again>>
    BY DEF AllocCount, Goto, Moves, Labels, history
<1>3. pc'[p] = "fresh" /\ Others(p) /\ p \notin again
    BY <1>1, <1>2, MoveFacts DEF Stages
<1>4. \A c : /\ ~Holds(p, c) /\ ~Holds(p, c)' /\ ~Lends(p, c) /\ ~Lends(p, c)'
             /\ Carries(p, c)' <=> Carries(p, c)
    BY <1>2, <1>3 DEF Holds, Lends, Carries, Holding, Lending, Carrying
<1>5. Counts' /\ Once' /\ Stages'
    BY <1>1, <1>2, <1>3, <1>4, RefsFrame
<1>6. \A q \in Procs : \A c : Carries(q, c)' <=> Carries(q, c)
    BY <1>3, <1>4 DEF Carries, Others
<1>7. CarriedOnce' /\ \A c : Unused(c)' <=> Unused(c)
    BY <1>2, <1>6 DEF CarriedOnce, Unused
<1>8. Linkage' /\ FreeList'
    BY <1>1, <1>2, <1>3, <1>7, LinkageFrame, ListFrame
<1>9. Tally'
  <2>1. Popped' = Popped \ {p} /\ p \in Popped /\ Pushed' = Pushed /\ Taken' = Taken
    BY <1>1, <1>2, <1>3, <1>7 DEF Popped, Pushed, Taken, Others
  <2>2. Cardinality(Popped') = Cardinality(Popped) - 1
    BY <2>1, OneMore, TallySets
  <2> QED
    BY <1>2, <2>1, <2>2, TallySets DEF Tally
<1> QED
    BY <1>2, <1>5, <1>7, <1>8, <1>9

\* It is the sender's: its first reference.
LEMMA AllocFreshPool ==
    ASSUME Core, Pool, NEW p \in Senders, AllocFresh(p)
    PROVE  Pool'
<1> USE Threads DEF Pool
<1>1. LocalTypes /\ PoolTypes /\ p \in Procs /\ again \subseteq Senders /\ LocalOk(p) /\ Locals
    BY DEF Core, Types, LocalTypes, Locals
<1>2. PICK b \in Blocks : b = blk[p]
    BY <1>1 DEF AllocFresh, Goto, LocalOk, Carrying
<1>3. /\ pc[p] = "fresh" /\ Moves(p, "retain") /\ "retain" \in Labels
      /\ ref_count' = [ref_count EXCEPT ![b] = 1]
      /\ UNCHANGED <<free_list_head, next_free, total_allocated>>
      /\ UNCHANGED <<inbox, accepted, mishaps, blk, again>>
    BY <1>2 DEF AllocFresh, Goto, Moves, Labels, history
<1>4. pc'[p] = "retain" /\ Others(p) /\ p \notin again
    BY <1>1, <1>3, MoveFacts DEF Stages
<1>5. \A c \in Blocks : ref_count'[c] = IF c = b THEN 1 ELSE ref_count[c]
    BY <1>1, <1>3 DEF PoolTypes
<1>6. \A c : /\ ~Holds(p, c) /\ (Holds(p, c)' <=> c = b) /\ ~Lends(p, c) /\ ~Lends(p, c)'
             /\ (Carries(p, c) <=> c = b) /\ ~Carries(p, c)'
    BY <1>2, <1>3, <1>4 DEF Holds, Lends, Carries, Holding, Lending, Carrying
<1>7. \A q \in Procs : q # p =>
          \A c : /\ Holds(q, c)' <=> Holds(q, c)
                 /\ Lends(q, c)' <=> Lends(q, c)
                 /\ Carries(q, c)' <=> Carries(q, c)
    BY <1>3, <1>4 DEF Holds, Lends, Carries, Others
<1>8. ref_count[b] = 0 /\ \A q \in Procs : Carries(q, b) => q = p
    BY <1>1, <1>6 DEF CarriedOnce
<1>9. ~Sent(b) /\ ~Underway(b) /\ ~Boxed(b)
    BY <1>8 DEF Counts, One
<1>10. \A c \in Blocks : (InQueue(c)' <=> InQueue(c)) /\ (Boxed(c)' <=> Boxed(c))
                         /\ (Underway(c)' <=> Underway(c)) /\ (Sent(c)' <=> Sent(c) \/ c = b)
  <2>1. \A c \in Blocks : (InQueue(c)' <=> InQueue(c)) /\ (Boxed(c)' <=> Boxed(c))
    BY <1>1, <1>3, <1>7 DEF InQueue, Boxed
  <2>2. \A c \in Blocks : (Underway(c)' <=> Underway(c)) /\ (Sent(c)' <=> Sent(c) \/ c = b)
    BY <1>1, <1>6, <1>7, <2>1 DEF Underway, Sent
  <2> QED
    BY <2>1, <2>2
<1>11. Counts'
    BY <1>5, <1>9, <1>10 DEF Counts, One
<1>12. Once'
  <2>1. \A q, r \in Senders : \A c \in Blocks : Holds(q, c)' /\ Holds(r, c)' => q = r
    BY <1>6, <1>7, <1>9 DEF Once, Sent
  <2> QED
    BY <1>1, <1>3, <1>6, <1>7, <1>10, <2>1 DEF Once
<1>13. CarriedOnce'
    BY <1>5, <1>6, <1>7, <1>8 DEF CarriedOnce
<1>14. Stages'
  <2>1. ASSUME NEW q \in Senders, pc'[q] = "retain", q # p PROVE ref_count'[blk'[q]] = 1
    <3>1. pc[q] = "retain" /\ blk'[q] = blk[q]
      BY <1>4, <2>1 DEF Others
    <3>2. blk[q] \in Blocks /\ ref_count[blk[q]] = 1
      BY <1>1, <3>1 DEF Stages, Locals, LocalOk, Holding
    <3> QED
      BY <1>5, <3>1, <3>2
  <2>2. ref_count'[blk'[p]] = 1
    BY <1>2, <1>3, <1>5
  <2>3. pc'[Link] = pc[Link] /\ blk'[Link] = blk[Link] /\ \A q \in again' : pc'[q] = "release"
    BY <1>1, <1>3, <1>4 DEF Others, Stages
  <2>4. \A c \in Blocks : (\E q \in Senders : Lends(q, c)') <=> \E q \in Senders : Lends(q, c)
    BY <1>6, <1>7
  <2> QED
    BY <1>10, <2>1, <2>2, <2>3, <2>4 DEF Stages
<1>15. \A c \in Blocks : Unused(c)' <=> Unused(c)
    BY <1>1, <1>5, <1>6, <1>7 DEF Unused
<1>16. Linkage' /\ FreeList'
    BY <1>1, <1>3, <1>4, <1>15, LinkageFrame, ListFrame
<1>17. Tally'
  <2>1. \A q \in Procs : /\ pc'[q] = "count" <=> pc[q] = "count"
                         /\ pc'[q] = "discount" <=> pc[q] = "discount"
    BY <1>3, <1>4 DEF Others
  <2> QED
    BY <1>3, <1>15, <2>1, TallyFrame
<1> QED
    BY <1>3, <1>11, <1>12, <1>13, <1>14, <1>16, <1>17

\* What a step that leaves the list alone keeps of it.
LEMMA ListKept ==
    ASSUME Linkage, FreeList, Tally, NEW p \in Procs, Others(p),
           UNCHANGED <<free_list_head, next_free, total_allocated>>,
           \A c \in Blocks : Unused(c)' <=> Unused(c),
           pc'[p] \notin {"swap", "count", "discount"}, pc[p] \notin {"count", "discount"}
    PROVE  Linkage' /\ FreeList' /\ Tally'
<1>1. Linkage' /\ FreeList'
    BY LinkageFrame, ListFrame
<1>2. \A q \in Procs : /\ pc'[q] = "count" <=> pc[q] = "count"
                       /\ pc'[q] = "discount" <=> pc[q] = "discount"
    BY DEF Others
<1> QED
    BY <1>1, <1>2, TallyFrame

\* The block is linked to the head, with no one else at it.
LEMMA PushReadPool ==
    ASSUME Core, Pool, NEW p \in Procs, PushRead(p)
    PROVE  Pool'
<1> USE Threads DEF Pool
<1>1. LocalTypes /\ PoolTypes /\ again \subseteq Senders /\ LocalOk(p) /\ Locals
    BY DEF Core, Types, LocalTypes, Locals
<1>2. PICK b \in Blocks : b = blk[p]
    BY <1>1 DEF PushRead, Goto, LocalOk, Carrying
<1>3. /\ pc[p] = "push" /\ Moves(p, "swap") /\ "swap" \in Labels
      /\ next_free' = [next_free EXCEPT ![b] = free_list_head]
      /\ seen' = [seen EXCEPT ![p] = free_list_head]
      /\ UNCHANGED <<free_list_head, ref_count, total_allocated>>
      /\ UNCHANGED <<inbox, accepted, mishaps, blk, again>>
    BY <1>1, <1>2 DEF PushRead, Goto, Moves, Labels, history, PoolTypes
<1>4. pc'[p] = "swap" /\ Others(p) /\ p \notin again /\ seen'[p] = free_list_head
    BY <1>1, <1>3, MoveFacts DEF Stages, LocalTypes
<1>5. \A c \in Blocks : next_free'[c] = IF c = b THEN free_list_head ELSE next_free[c]
    BY <1>1, <1>3 DEF PoolTypes
<1>6. \A c : /\ ~Holds(p, c) /\ ~Holds(p, c)' /\ ~Lends(p, c) /\ ~Lends(p, c)'
             /\ Carries(p, c)' <=> Carries(p, c)
    BY <1>3, <1>4 DEF Holds, Lends, Carries, Holding, Lending, Carrying
<1>7. Counts' /\ Once' /\ Stages'
    BY <1>1, <1>3, <1>4, <1>6, RefsFrame
<1>8. \A q \in Procs : \A c : Carries(q, c)' <=> Carries(q, c)
    BY <1>4, <1>6 DEF Carries, Others
<1>9. CarriedOnce' /\ \A c : Unused(c)' <=> Unused(c)
    BY <1>3, <1>8 DEF CarriedOnce, Unused
<1>10. Carries(p, b)
    BY <1>2, <1>3 DEF Carries, Carrying
<1>11. Linkage'
  <2>1. SUFFICES ASSUME NEW q \in Procs, q # p, pc'[q] = "swap"
                 PROVE  seen'[q] = next_free'[blk'[q]]
    BY <1>2, <1>3, <1>4, <1>5 DEF Linkage
  <2>2. pc[q] = "swap" /\ blk'[q] = blk[q] /\ seen'[q] = seen[q]
    BY <1>4, <2>1 DEF Others
  <2>3. blk[q] \in Blocks /\ Carries(q, blk[q])
    BY <1>1, <2>2 DEF Locals, LocalOk, Carries, Carrying
  <2>4. blk[q] # b
    BY <1>10, <2>1, <2>3 DEF CarriedOnce
  <2> QED
    BY <1>5, <2>2, <2>3, <2>4 DEF Linkage
<1>12. FreeList'
  <2>1. \A c \in Blocks : Unused(c) => next_free'[c] = next_free[c]
    BY <1>5, <1>10 DEF Unused
  <2> QED
    BY <1>3, <1>9, <2>1, ListFrame
<1>13. Tally'
  <2>1. \A q \in Procs : /\ pc'[q] = "count" <=> pc[q] = "count"
                         /\ pc'[q] = "discount" <=> pc[q] = "discount"
    BY <1>3, <1>4 DEF Others
  <2> QED
    BY <1>3, <1>9, <2>1, TallyFrame
<1> QED
    BY <1>3, <1>7, <1>9, <1>11, <1>12, <1>13

\* The push: the block is on the list again, and still counted.
LEMMA PushSwapPool ==
    ASSUME Core, Pool, NEW p \in Procs, PushSwap(p)
    PROVE  Pool'
<1> USE Threads DEF Pool
<1>1. LocalTypes /\ again \subseteq Senders /\ LocalOk(p)
    BY DEF Core, Types, LocalTypes, Locals
<1>2. PICK b \in Blocks : b = blk[p]
    BY <1>1 DEF PushSwap, Goto, LocalOk, Carrying
<1>3. /\ pc[p] = "swap" /\ Moves(p, "discount") /\ "discount" \in Labels
      /\ free_list_head = seen[p] /\ free_list_head' = b
      /\ UNCHANGED <<next_free, ref_count, total_allocated>>
      /\ UNCHANGED <<inbox, accepted, mishaps, blk, again>>
    BY <1>2 DEF PushSwap, Goto, Moves, Labels, history
<1>4. pc'[p] = "discount" /\ Others(p) /\ p \notin again
    BY <1>1, <1>3, MoveFacts DEF Stages
<1>5. \A c : /\ ~Holds(p, c) /\ ~Holds(p, c)' /\ ~Lends(p, c) /\ ~Lends(p, c)'
             /\ (Carries(p, c) <=> c = b) /\ ~Carries(p, c)'
    BY <1>2, <1>3, <1>4 DEF Holds, Lends, Carries, Holding, Lending, Carrying
<1>6. Counts' /\ Once' /\ Stages'
    BY <1>1, <1>3, <1>4, <1>5, RefsFrame
<1>7. \A q \in Procs : q # p => \A c : Carries(q, c)' <=> Carries(q, c)
    BY <1>4 DEF Carries, Others
<1>8. ref_count[b] = 0 /\ ~Unused(b) /\ \A q \in Procs : Carries(q, b) => q = p
    BY <1>5 DEF CarriedOnce, Unused
<1>9. \A c \in Blocks : Unused(c)' <=> Unused(c) \/ c = b
    BY <1>3, <1>5, <1>7, <1>8 DEF Unused
<1>10. next_free[b] = free_list_head
    BY <1>2, <1>3 DEF Linkage
<1>11. FreeList'
    BY <1>3, <1>8, <1>9, <1>10, ListPush
<1>12. CarriedOnce'
    BY <1>3, <1>5, <1>7 DEF CarriedOnce
<1>13. Linkage'
    BY <1>3, <1>4, LinkageFrame
<1>14. Tally'
  <2>1. Taken' = Taken \ {b} /\ b \in Taken
    BY <1>8, <1>9 DEF Taken
  <2>2. Pushed' = Pushed \cup {p} /\ p \notin Pushed /\ Popped' = Popped
    BY <1>3, <1>4 DEF Popped, Pushed, Others
  <2>3. Cardinality(Taken') = Cardinality(Taken) - 1
    BY <2>1, OneMore, TallySets
  <2>4. Cardinality(Pushed') = Cardinality(Pushed) + 1
    BY <2>2, OneMore, TallySets
  <2> QED
    BY <1>3, <2>2, <2>3, <2>4, TallySets DEF Tally
<1> QED
    BY <1>3, <1>6, <1>11, <1>12, <1>13, <1>14

\* It is not counted any more.
LEMMA PushCountPool ==
    ASSUME Core, Pool, NEW p \in Procs, PushCount(p)
    PROVE  Pool'
<1> USE Threads DEF Pool
<1>1. LocalTypes /\ again \subseteq Senders
    BY DEF Core, Types, LocalTypes
<1>2. /\ pc[p] = "discount" /\ Leave(p) /\ total_allocated' = total_allocated - 1
      /\ UNCHANGED <<free_list_head, next_free, ref_count, seen, next>>
      /\ UNCHANGED <<inbox, accepted, mishaps>>
    BY DEF PushCount, history
<1>3. p \notin again
    BY <1>2 DEF Stages
<1>4. PICK to \in Labels :
         /\ Moves(p, to) /\ again' = again \ {p}
         /\ p \in again => to = "release" /\ blk' = blk
         /\ p \notin again => to = Rest(p) /\ blk' = [blk EXCEPT ![p] = None]
    BY <1>1, <1>2, LeaveFacts, Zenon
<1>5. pc'[p] = to /\ Others(p) /\ to \in {"idle", "drain"} /\ p \notin again'
    BY <1>1, <1>3, <1>4, MoveFacts DEF Rest
<1>6. \A c : /\ ~Holds(p, c) /\ ~Holds(p, c)' /\ ~Lends(p, c) /\ ~Lends(p, c)'
             /\ ~Carries(p, c) /\ ~Carries(p, c)'
    BY <1>2, <1>3, <1>5 DEF Holds, Lends, Carries, Holding, Lending, Carrying
<1>7. Counts' /\ Once' /\ Stages'
    BY <1>1, <1>2, <1>4, <1>5, <1>6, RefsFrame
<1>8. \A q \in Procs : \A c : Carries(q, c)' <=> Carries(q, c)
    BY <1>5, <1>6 DEF Carries, Others
<1>9. CarriedOnce' /\ \A c : Unused(c)' <=> Unused(c)
    BY <1>2, <1>8 DEF CarriedOnce, Unused
<1>10. Linkage' /\ FreeList'
    BY <1>2, <1>5, <1>9, LinkageFrame, ListFrame
<1>11. Tally'
  <2>1. Pushed' = Pushed \ {p} /\ p \in Pushed /\ Popped' = Popped /\ Taken' = Taken
    BY <1>2, <1>5, <1>9 DEF Popped, Pushed, Taken, Others
  <2>2. Cardinality(Pushed') = Cardinality(Pushed) - 1
    BY <2>1, OneMore, TallySets
  <2> QED
    BY <1>2, <2>1, <2>2, TallySets DEF Tally
<1> QED
    BY <1>2, <1>7, <1>9, <1>10, <1>11
-----------------------------------------------------------------------------
(* Pool: the references. *)

\* nos_shm_buffer_retain: the queue's reference is counted while the sender
\* still has the only one.
LEMMA RetainPool ==
    ASSUME Core, Pool, NEW p \in Senders, Retain(p)
    PROVE  Pool'
<1> USE Threads DEF Pool
<1>1. LocalTypes /\ PoolTypes /\ p \in Procs /\ again \subseteq Senders /\ LocalOk(p) /\ Locals
    BY DEF Core, Types, LocalTypes, Locals
<1>2. PICK b \in Blocks : b = blk[p]
    BY <1>1 DEF Retain, Goto, LocalOk, Holding
<1>3. /\ pc[p] = "retain" /\ Moves(p, "enqueue") /\ "enqueue" \in Labels /\ ref_count[b] = 1
      /\ UNCHANGED <<free_list_head, next_free, total_allocated>>
      /\ UNCHANGED <<inbox, accepted, mishaps, blk, again>>
    BY <1>2 DEF Retain, Goto, Moves, Labels, history, Stages
<1>4. \A c \in Blocks : ref_count'[c] = IF c = b THEN 2 ELSE ref_count[c]
  <2>1. ref_count' = [ref_count EXCEPT ![b] = ref_count[b] + 1]
    BY <1>1, <1>2, CountTypes DEF Retain
  <2> QED
    BY <1>1, <1>3, <2>1 DEF PoolTypes
<1>5. pc'[p] = "enqueue" /\ Others(p) /\ p \notin again
    BY <1>1, <1>3, MoveFacts DEF Stages
<1>6. \A c : /\ (Holds(p, c) <=> c = b) /\ (Holds(p, c)' <=> c = b)
             /\ ~Lends(p, c) /\ (Lends(p, c)' <=> c = b)
             /\ ~Carries(p, c) /\ ~Carries(p, c)'
    BY <1>2, <1>3, <1>5 DEF Holds, Lends, Carries, Holding, Lending, Carrying
<1>7. /\ \A q \in Procs : \A c : /\ Holds(q, c)' <=> Holds(q, c)
                                 /\ Carries(q, c)' <=> Carries(q, c)
      /\ \A q \in Procs : \A c : Lends(q, c)' <=> (q = p /\ c = b) \/ Lends(q, c)
    BY <1>5, <1>6 DEF Holds, Lends, Carries, Others
<1>8. Sent(b) /\ ~Underway(b) /\ ~Boxed(b)
  <2>1. Sent(b)
    BY <1>6 DEF Sent
  <2> QED
    BY <1>3, <2>1 DEF Counts, One
<1>9. \A c \in Blocks : (InQueue(c)' <=> InQueue(c)) /\ (Boxed(c)' <=> Boxed(c))
    BY <1>3, <1>7 DEF InQueue, Boxed
<1>10. Counts'
  <2>1. \A c \in Blocks : (Sent(c)' <=> Sent(c)) /\ (Underway(c)' <=> Underway(c) \/ c = b)
    BY <1>1, <1>7, <1>9 DEF Sent, Underway
  <2> QED
    BY <1>3, <1>4, <1>8, <1>9, <2>1 DEF Counts, One
<1>11. Once'
    BY <1>1, <1>3, <1>7, <1>8, <1>9 DEF Once, Underway
<1>12. CarriedOnce'
    BY <1>3, <1>4, <1>7 DEF CarriedOnce
<1>13. Stages'
  <2>1. ASSUME NEW q \in Senders, pc'[q] = "retain" PROVE ref_count'[blk'[q]] = 1
    <3>1. q # p /\ pc[q] = "retain" /\ blk'[q] = blk[q]
      BY <1>5, <2>1 DEF Others
    <3>2. blk[q] \in Blocks /\ ref_count[blk[q]] = 1
      BY <1>1, <3>1 DEF Stages, Locals, LocalOk, Holding
    <3>3. blk[q] # b
      BY <1>6, <3>1, <3>2 DEF Once, Holds, Holding
    <3> QED
      BY <1>4, <3>1, <3>2, <3>3
  <2>2. pc'[Link] = pc[Link] /\ blk'[Link] = blk[Link] /\ \A q \in again' : pc'[q] = "release"
    BY <1>1, <1>3, <1>5 DEF Others, Stages
  <2> QED
    BY <1>1, <1>7, <1>8, <1>9, <2>1, <2>2 DEF Stages
<1>14. \A c \in Blocks : Unused(c)' <=> Unused(c)
    BY <1>3, <1>4, <1>7 DEF Unused
<1>15. Linkage' /\ FreeList' /\ Tally'
    BY <1>1, <1>3, <1>5, <1>14, ListKept
<1> QED
    BY <1>3, <1>10, <1>11, <1>12, <1>13, <1>15

\* nos_shm_mpsc_enqueue: the reference that the sender held for the queue is
\* the queue's.  There are more slots than blocks, and each block is in the
\* queue at most once, so that the slot was free however old the look at the
\* head.
LEMMA ClaimPool ==
    ASSUME Core, Pool, NEW p \in Senders, EnqueueClaim(p)
    PROVE  Pool'
<1> USE Threads DEF Pool
<1>1. /\ LocalTypes /\ QueueTypes /\ p \in Procs /\ again \subseteq Senders /\ LocalOk(p)
      /\ QueueOk
    BY DEF Core, Types, LocalTypes, Locals
<1>2. PICK b \in Blocks : b = blk[p]
    BY <1>1 DEF EnqueueClaim, Goto, LocalOk, Holding
<1>3. PICK l \in Nat : l = Len(accepted)
    BY <1>1, LenProperties DEF QueueTypes
<1>4. PICK a \in Seq(Blocks) :
         /\ a = Append(accepted, b)
         /\ DOMAIN accepted = 1 .. l /\ DOMAIN a = 1 .. l + 1
         /\ \A i \in 1 .. l : a[i] = accepted[i]
         /\ a[l + 1] = b
  <2>1. PICK s \in Seq(Blocks) : s = Append(accepted, b)
    BY <1>1, AppendProperties DEF QueueTypes
  <2>2. /\ DOMAIN accepted = 1 .. l /\ DOMAIN s = 1 .. l + 1
        /\ \A i \in 1 .. l : s[i] = accepted[i]
        /\ s[l + 1] = b
    BY <1>1, <1>3, <2>1, LenProperties, AppendProperties DEF QueueTypes
  <2> QED
    BY <2>1, <2>2
<1>5. /\ pc[p] = "claim" /\ Moves(p, "store") /\ "store" \in Labels /\ accepted' = a
      /\ mishaps' = mishaps \cup IF After(tail) = head THEN {"overrun"} ELSE {}
      /\ UNCHANGED <<free_list_head, next_free, ref_count, total_allocated>>
      /\ UNCHANGED <<inbox, blk, again>>
    BY <1>2, <1>4 DEF EnqueueClaim, Goto, Moves, pool, Labels
<1>6. pc'[p] = "store" /\ Others(p) /\ p \notin again
    BY <1>1, <1>5, MoveFacts DEF Stages
<1>7. \A c : /\ (Holds(p, c) <=> c = b) /\ (Holds(p, c)' <=> c = b)
             /\ (Lends(p, c) <=> c = b) /\ ~Lends(p, c)'
             /\ ~Carries(p, c) /\ ~Carries(p, c)'
    BY <1>2, <1>5, <1>6 DEF Holds, Lends, Carries, Holding, Lending, Carrying
<1>8. /\ \A q \in Procs : \A c : /\ Holds(q, c)' <=> Holds(q, c)
                                 /\ Carries(q, c)' <=> Carries(q, c)
      /\ \A q \in Procs : \A c : Lends(q, c)' <=> q # p /\ Lends(q, c)
    BY <1>6, <1>7 DEF Holds, Lends, Carries, Others
<1>9. \A q \in Senders : \A c : Lends(q, c) => Holds(q, c)
    BY <1>1 DEF Lends, Holds, Lending, Holding, Stages
<1>10. /\ ~InQueue(b) /\ ~Holds(Link, b) /\ ~Boxed(b)
       /\ \A q \in Senders : Lends(q, b) => q = p
  <2>1. ~InQueue(b) /\ ~Holds(Link, b)
    BY <1>7 DEF Once
  <2>2. ~Boxed(b)
    BY <1>7 DEF Stages
  <2> QED
    BY <1>7, <1>9, <2>1, <2>2 DEF Once
<1>11. \A c : InQueue(c)' <=> InQueue(c) \/ c = b
  <2>1. l + 1 \in 1 .. l + 1 /\ \A i \in 1 .. l : i \in 1 .. l + 1
    OBVIOUS
  <2>2. \A i \in 1 .. l + 1 : i \in 1 .. l \/ i = l + 1
    OBVIOUS
  <2> QED
    BY <1>4, <1>5, <2>1, <2>2 DEF InQueue
<1>12. \A i, j \in 1 .. l + 1 : a[i] = a[j] => i = j
  <2>1. \A i \in 1 .. l : a[i] # b
    BY <1>4, <1>10 DEF InQueue
  <2>2. \A i \in 1 .. l + 1 : i \in 1 .. l \/ i = l + 1
    OBVIOUS
  <2> QED
    BY <1>4, <2>1, <2>2 DEF Once
<1>13. "overrun" \notin mishaps'
  <2>1. a \in Injection(1 .. l + 1, Blocks)
    <3>1. a \in [1 .. l + 1 -> Blocks]
      BY <1>4, LenProperties
    <3> QED
      BY <1>12, <3>1 DEF Injection, IsInjective
  <2>2. l + 1 <= N
    BY <2>1, Sizes, FS_Injection, FS_Interval DEF N
  <2>3. tail = At(head, l + 1) /\ head \in 0 .. QueueSize - 1
    BY <1>1, <1>3 DEF QueueOk, QueueTypes
  <2>4. l + 1 \in 1 .. QueueSize - 1 /\ (l + 1) + 1 = l + 2 /\ l + 2 \in 1 .. QueueSize
        /\ 1 \in 1 .. QueueSize /\ l + 2 # 1
    BY <2>2, Sizes
  <2>5. After(tail) = At(head, l + 2)
    BY <2>3, <2>4, AtFacts
  <2>6. After(tail) # head
    BY <2>3, <2>4, <2>5, AtFacts
  <2> QED
    BY <1>5, <2>6
<1>14. Counts'
  <2>1. \A c : (Sent(c)' <=> Sent(c)) /\ (Boxed(c)' <=> Boxed(c))
    BY <1>5, <1>8 DEF Sent, Boxed
  <2>2. \A c : Underway(c)' <=> Underway(c)
    BY <1>7, <1>8, <1>11 DEF Underway
  <2> QED
    BY <1>5, <2>1, <2>2 DEF Counts, One
<1>15. Once'
  <2>1. \A c \in Blocks : InQueue(c)' => ~Holds(Link, c)' /\ \A q \in Senders : ~Lends(q, c)'
    BY <1>8, <1>10, <1>11 DEF Once
  <2>2. DOMAIN accepted' = 1 .. l + 1
    BY <1>4, <1>5
  <2> QED
    BY <1>5, <1>8, <1>12, <2>1, <2>2 DEF Once
<1>16. CarriedOnce' /\ \A c \in Blocks : Unused(c)' <=> Unused(c)
    BY <1>5, <1>8 DEF CarriedOnce, Unused
<1>17. Stages'
  <2>1. \A q \in Senders : pc'[q] = "retain" => pc[q] = "retain" /\ blk'[q] = blk[q]
    BY <1>5, <1>6 DEF Others
  <2>2. /\ pc'[Link] = pc[Link] /\ blk'[Link] = blk[Link]
        /\ \A q \in again' : pc'[q] = "release"
    BY <1>1, <1>5, <1>6 DEF Others, Stages
  <2>3. \A c : Boxed(c)' <=> Boxed(c)
    BY <1>5, <1>8 DEF Boxed
  <2> QED
    BY <1>5, <1>8, <1>10, <1>11, <2>1, <2>2, <2>3 DEF Stages
<1>18. Linkage' /\ FreeList' /\ Tally'
    BY <1>5, <1>6, <1>16, ListKept
<1> QED
    BY <1>13, <1>14, <1>15, <1>16, <1>17, <1>18

\* nos_shm_mpsc_dequeue gives the slot back: the reference that the queue had is
\* the link thread's.
LEMMA AdvancePool ==
    ASSUME Core, Pool, Advance
    PROVE  Pool'
<1> USE Threads DEF Pool
<1>1. LocalTypes /\ QueueTypes /\ again \subseteq Senders /\ LocalOk(Link) /\ QueueOk
    BY DEF Core, Types, LocalTypes, Locals
<1>2. PICK b \in Blocks : b = blk[Link]
    BY <1>1 DEF Advance, Goto, LocalOk
<1>3. PICK l \in Nat : Len(accepted) = l + 1 /\ accepted[1] = b /\ DOMAIN accepted = 1 .. l + 1
  <2>1. accepted # <<>>
    BY <1>1 DEF Advance, Goto, QueueOk
  <2>2. accepted[1] = b
    BY <1>1, <1>2 DEF Advance, Goto, QueueOk
  <2>3. PICK m \in Nat : m = Len(accepted) /\ m # 0 /\ DOMAIN accepted = 1 .. m
    BY <1>1, <2>1, LenProperties, EmptySeq DEF QueueTypes
  <2>4. PICK l \in Nat : m = l + 1
    <3>1. m - 1 \in Nat /\ m = (m - 1) + 1
      BY <2>3
    <3> QED
      BY <3>1
  <2> QED
    BY <2>2, <2>3, <2>4
<1>4. PICK a \in Seq(Blocks) :
         /\ a = SubSeq(accepted, 2, Len(accepted))
         /\ DOMAIN a = 1 .. l
         /\ \A i \in 1 .. l : a[i] = accepted[i + 1]
  <2>1. PICK a \in Seq(Blocks) :
           /\ a = SubSeq(accepted, 2, Len(accepted))
           /\ Len(a) = IF 2 <= Len(accepted) THEN Len(accepted) - 2 + 1 ELSE 0
           /\ \A i \in 1 .. Len(accepted) - 2 + 1 : a[i] = accepted[2 + i - 1]
    BY <1>1, QueueRest, Zenon DEF QueueTypes
  <2>2. Len(a) = l /\ \A i \in 1 .. l : a[i] = accepted[i + 1]
    BY <1>3, <2>1
  <2> QED
    BY <2>1, <2>2, LenProperties
<1>5. /\ pc[Link] = "advance" /\ Moves(Link, "deliver") /\ "deliver" \in Labels
      /\ accepted' = a
      /\ UNCHANGED <<free_list_head, next_free, ref_count, total_allocated>>
      /\ UNCHANGED <<inbox, blk, again, mishaps>>
    BY <1>4 DEF Advance, Goto, Moves, pool, Labels
<1>6. pc'[Link] = "deliver" /\ Others(Link) /\ Link \notin again
    BY <1>1, <1>5, MoveFacts
<1>7. \A c : /\ ~Holds(Link, c) /\ (Holds(Link, c)' <=> c = b)
             /\ ~Lends(Link, c) /\ ~Lends(Link, c)'
             /\ ~Carries(Link, c) /\ ~Carries(Link, c)'
    BY <1>2, <1>5, <1>6 DEF Holds, Lends, Carries, Holding, Lending, Carrying
<1>8. /\ \A q \in Procs : \A c : /\ Holds(q, c)' <=> Holds(q, c) \/ (q = Link /\ c = b)
                                 /\ Carries(q, c)' <=> Carries(q, c)
      /\ \A q \in Procs : \A c : Lends(q, c)' <=> Lends(q, c)
    BY <1>6, <1>7 DEF Holds, Lends, Carries, Others
<1>9. InQueue(b) /\ 1 \in 1 .. l + 1
    BY <1>3 DEF InQueue
<1>10. (\A q \in Senders : ~Lends(q, b)) /\ ~Boxed(b)
    BY <1>9 DEF Once, Stages
<1>11. /\ \A i \in 1 .. l : i + 1 \in 1 .. l + 1 /\ i + 1 # 1
       /\ \A i \in 1 .. l + 1 : i # 1 => \E j \in 1 .. l : i = j + 1
       /\ \A i, j \in 1 .. l : i + 1 = j + 1 => i = j
    OBVIOUS
<1>12. ASSUME NEW i \in 1 .. l, NEW j \in 1 .. l, a[i] = a[j]
       PROVE  i = j
  <2>1. i + 1 \in DOMAIN accepted /\ j + 1 \in DOMAIN accepted
    BY <1>3, <1>11
  <2>2. accepted[i + 1] = accepted[j + 1]
    BY <1>4, <1>12
  <2>3. i + 1 = j + 1
    BY <2>1, <2>2 DEF Once
  <2> QED
    BY <1>11, <2>3
<1>13. \A c : InQueue(c)' <=> InQueue(c) /\ c # b
  <2>1. ASSUME NEW i \in 1 .. l PROVE a[i] # b
    <3>1. i + 1 \in DOMAIN accepted /\ 1 \in DOMAIN accepted /\ i + 1 # 1
      BY <1>3, <1>9, <1>11
    <3>2. accepted[i + 1] # accepted[1]
      BY <3>1 DEF Once
    <3> QED
      BY <1>3, <1>4, <3>2
  <2>2. \A c : InQueue(c)' <=> \E i \in 1 .. l : a[i] = c
    BY <1>4, <1>5 DEF InQueue
  <2>3. \A c : InQueue(c) <=> \E i \in 1 .. l + 1 : accepted[i] = c
    BY <1>3 DEF InQueue
  <2>4. ASSUME NEW c, InQueue(c), c # b PROVE InQueue(c)'
    <3>1. PICK i \in 1 .. l + 1 : accepted[i] = c
      BY <2>3, <2>4
    <3>2. i # 1
      BY <1>3, <2>4, <3>1
    <3>3. PICK j \in 1 .. l : i = j + 1
      BY <1>11, <3>2
    <3> QED
      BY <1>4, <2>2, <3>1, <3>3
  <2>5. ASSUME NEW c, InQueue(c)' PROVE InQueue(c) /\ c # b
    BY <1>4, <1>11, <2>1, <2>2, <2>3, <2>5
  <2> QED
    BY <2>4, <2>5
<1>14. Counts'
  <2>1. \A c : (Sent(c)' <=> Sent(c)) /\ (Boxed(c)' <=> Boxed(c))
    BY <1>5, <1>8 DEF Sent, Boxed
  <2>2. \A c : Underway(c)' <=> Underway(c)
    BY <1>7, <1>8, <1>9, <1>13 DEF Underway
  <2> QED
    BY <1>5, <2>1, <2>2 DEF Counts, One
<1>15. Once'
  <2>1. \A i, j \in DOMAIN accepted' : accepted'[i] = accepted'[j] => i = j
    <3>1. accepted' = a /\ DOMAIN a = 1 .. l
      BY <1>4, <1>5
    <3>2. \A i, j \in 1 .. l : a[i] = a[j] => i = j
      BY <1>12
    <3> QED
      BY <3>1, <3>2, Zenon
  <2> QED
    BY <1>5, <1>8, <1>10, <1>13, <2>1 DEF Once
<1>16. CarriedOnce' /\ \A c \in Blocks : Unused(c)' <=> Unused(c)
    BY <1>5, <1>8 DEF CarriedOnce, Unused
<1>17. Stages'
  <2>1. \A q \in Senders : pc'[q] = pc[q] /\ blk'[q] = blk[q]
    BY <1>6 DEF Others
  <2>2. \A q \in again' : pc'[q] = "release"
    BY <1>1, <1>5, <2>1 DEF Stages
  <2>3. (\A c : Boxed(c)' <=> Boxed(c)) /\ blk'[Link] = b
    BY <1>2, <1>5, <1>8 DEF Boxed
  <2> QED
    BY <1>5, <1>8, <1>10, <1>13, <2>1, <2>2, <2>3 DEF Stages
<1>18. Linkage' /\ FreeList' /\ Tally'
    BY <1>5, <1>6, <1>16, ListKept
<1> QED
    BY <1>5, <1>14, <1>15, <1>16, <1>17, <1>18

\* nos_service_msg_send: the mailbox counts a reference of its own while the
\* link thread still has one.
LEMMA DeliverPool ==
    ASSUME Core, Pool, Deliver
    PROVE  Pool'
<1> USE Threads DEF Pool
<1>1. LocalTypes /\ PoolTypes /\ again \subseteq Senders /\ LocalOk(Link) /\ Locals
    BY DEF Core, Types, LocalTypes, Locals
<1>2. PICK b \in Blocks : b = blk[Link]
    BY <1>1 DEF Deliver, Goto, LocalOk, Holding
<1>3. /\ pc[Link] = "deliver" /\ Moves(Link, "release") /\ "release" \in Labels
      /\ inbox' = [inbox EXCEPT ![b] = @ + 1]
      /\ UNCHANGED <<free_list_head, next_free, total_allocated>>
      /\ UNCHANGED <<accepted, mishaps, blk, again>>
    BY <1>2 DEF Deliver, Goto, Moves, Labels, history
<1>4. \A c \in Blocks : ref_count'[c] = IF c = b THEN ref_count[b] + 1 ELSE ref_count[c]
  <2>1. ref_count' = [ref_count EXCEPT ![b] = ref_count[b] + 1]
    BY <1>1, <1>2, CountTypes DEF Deliver
  <2> QED
    BY <1>1, <2>1 DEF PoolTypes
<1>5. pc'[Link] = "release" /\ Others(Link) /\ Link \notin again
    BY <1>1, <1>3, MoveFacts
<1>6. \A c : /\ (Holds(Link, c) <=> c = b) /\ (Holds(Link, c)' <=> c = b)
             /\ ~Lends(Link, c) /\ ~Lends(Link, c)'
             /\ ~Carries(Link, c) /\ ~Carries(Link, c)'
    BY <1>2, <1>3, <1>5 DEF Holds, Lends, Carries, Holding, Lending, Carrying
<1>7. /\ \A q \in Procs : \A c : /\ Holds(q, c)' <=> Holds(q, c)
                                 /\ Carries(q, c)' <=> Carries(q, c)
      /\ \A q \in Procs : \A c : Lends(q, c)' <=> Lends(q, c)
    BY <1>5, <1>6 DEF Holds, Lends, Carries, Others
<1>8. ~Boxed(b) /\ ~InQueue(b) /\ (\A q \in Senders : ~Lends(q, b)) /\ Underway(b)
    BY <1>2, <1>3, <1>6 DEF Once, Stages, Underway
<1>9. \A c \in Blocks : inbox'[c] = IF c = b THEN 1 ELSE inbox[c]
    BY <1>1, <1>3, <1>8 DEF Boxed, PoolTypes
<1>10. \A c : InQueue(c)' <=> InQueue(c)
    BY <1>3 DEF InQueue
<1>11. \A c \in Blocks : Boxed(c)' <=> Boxed(c) \/ c = b
    BY <1>7, <1>9 DEF Boxed
<1>12. ref_count[b] > 0 /\ ref_count'[b] > 0
  <2>1. ref_count[b] = One(Sent(b)) + One(Underway(b)) + One(Boxed(b))
    BY DEF Counts
  <2>2. ref_count[b] > 0
    BY <1>8, <2>1 DEF One
  <2> QED
    BY <1>1, <1>4, <2>2 DEF PoolTypes
<1>13. Counts'
  <2>1. \A c : (Sent(c)' <=> Sent(c)) /\ (Underway(c)' <=> Underway(c))
    BY <1>7, <1>10 DEF Sent, Underway
  <2> QED
    BY <1>4, <1>8, <1>11, <2>1 DEF Counts, One
<1>14. Once'
  <2>1. ~Holds(Worker, b)'
    BY <1>7, <1>8 DEF Boxed
  <2> QED
    BY <1>3, <1>7, <1>9, <1>10, <2>1 DEF Once
<1>15. CarriedOnce' /\ \A c \in Blocks : Unused(c)' <=> Unused(c)
  <2>1. \A q \in Procs : ~Carries(q, b)
    BY <1>12 DEF CarriedOnce
  <2>2. \A c \in Blocks : c # b => ref_count'[c] = ref_count[c]
    BY <1>4
  <2> QED
    BY <1>7, <1>12, <2>1, <2>2 DEF CarriedOnce, Unused
<1>16. Stages'
  <2>1. ASSUME NEW q \in Senders, pc'[q] = "retain" PROVE ref_count'[blk'[q]] = 1
    <3>1. pc[q] = "retain" /\ blk'[q] = blk[q]
      BY <1>5, <2>1 DEF Others
    <3>2. blk[q] \in Blocks /\ ref_count[blk[q]] = 1 /\ Holds(q, blk[q])
      BY <1>1, <3>1 DEF Stages, Locals, LocalOk, Holding, Holds
    <3>3. blk[q] # b
      <4>1. SUFFICES ASSUME blk[q] = b PROVE FALSE
        OBVIOUS
      <4>2. Sent(b)
        BY <3>2, <4>1 DEF Sent
      <4>3. ref_count[b] = One(Sent(b)) + One(Underway(b)) + One(Boxed(b))
        BY DEF Counts
      <4> QED
        BY <1>8, <3>2, <4>1, <4>2, <4>3 DEF One
    <3> QED
      BY <1>4, <3>1, <3>2, <3>3
  <2>2. \A q \in again' : pc'[q] = "release"
    BY <1>1, <1>3, <1>5 DEF Others, Stages
  <2> QED
    BY <1>5, <1>7, <1>8, <1>10, <1>11, <2>1, <2>2 DEF Stages
<1>17. Linkage' /\ FreeList' /\ Tally'
    BY <1>3, <1>5, <1>15, ListKept
<1> QED
    BY <1>3, <1>13, <1>14, <1>15, <1>16, <1>17

\* The worker takes a message: the mailbox's reference is its own.
LEMMA HandlePool ==
    ASSUME Core, Pool, NEW b \in Blocks, Handle(b)
    PROVE  Pool'
<1> USE Threads DEF Pool
<1>1. LocalTypes /\ PoolTypes /\ again \subseteq Senders /\ LocalOk(Worker)
    BY DEF Core, Types, LocalTypes, Locals
<1>2. /\ pc[Worker] = "idle" /\ Moves(Worker, "release") /\ "release" \in Labels
      /\ inbox[b] > 0 /\ inbox' = [inbox EXCEPT ![b] = @ - 1]
      /\ blk' = [blk EXCEPT ![Worker] = b]
      /\ UNCHANGED <<free_list_head, next_free, ref_count, total_allocated>>
      /\ UNCHANGED <<accepted, mishaps, again>>
    BY DEF Handle, Goto, Moves, Labels, history, pool
<1>3. pc'[Worker] = "release" /\ blk'[Worker] = b /\ Others(Worker) /\ Worker \notin again
    BY <1>1, <1>2, MoveFacts DEF LocalTypes
<1>4. \A c : /\ ~Holds(Worker, c) /\ (Holds(Worker, c)' <=> c = b)
             /\ ~Lends(Worker, c) /\ ~Lends(Worker, c)'
             /\ ~Carries(Worker, c) /\ ~Carries(Worker, c)'
    BY <1>2, <1>3 DEF Holds, Lends, Carries, Holding, Lending, Carrying
<1>5. /\ \A q \in Procs : \A c : /\ Holds(q, c)' <=> Holds(q, c) \/ (q = Worker /\ c = b)
                                 /\ Carries(q, c)' <=> Carries(q, c)
      /\ \A q \in Procs : \A c : Lends(q, c)' <=> Lends(q, c)
    BY <1>3, <1>4 DEF Holds, Lends, Carries, Others
<1>6. inbox[b] = 1 /\ \A c \in Blocks : inbox'[c] = IF c = b THEN 0 ELSE inbox[c]
  <2>1. inbox[b] \in Nat /\ inbox[b] # 0
    BY <1>1, <1>2 DEF PoolTypes
  <2>2. inbox[b] = 1
    BY <2>1 DEF Once
  <2> QED
    BY <1>1, <1>2, <2>2 DEF PoolTypes
<1>7. \A c : InQueue(c)' <=> InQueue(c)
    BY <1>2 DEF InQueue
<1>8. \A c \in Blocks : Boxed(c)' <=> Boxed(c)
    BY <1>5, <1>6 DEF Boxed
<1>9. Counts'
  <2>1. \A c : (Sent(c)' <=> Sent(c)) /\ (Underway(c)' <=> Underway(c))
    BY <1>5, <1>7 DEF Sent, Underway
  <2> QED
    BY <1>2, <1>8, <2>1 DEF Counts, One
<1>10. Once'
    BY <1>2, <1>5, <1>6, <1>7 DEF Once
<1>11. CarriedOnce' /\ \A c \in Blocks : Unused(c)' <=> Unused(c)
    BY <1>2, <1>5 DEF CarriedOnce, Unused
<1>12. Stages'
  <2>1. \A q \in Procs : q # Worker => pc'[q] = pc[q] /\ blk'[q] = blk[q]
    BY <1>3 DEF Others
  <2>2. \A q \in again' : pc'[q] = "release"
    BY <1>1, <1>2, <2>1 DEF Stages
  <2> QED
    BY <1>2, <1>5, <1>7, <1>8, <2>1, <2>2 DEF Stages
<1>13. Linkage' /\ FreeList' /\ Tally'
    BY <1>2, <1>3, <1>11, ListKept
<1> QED
    BY <1>2, <1>9, <1>10, <1>11, <1>12, <1>13

\* A sender's block, when it still has the queue's reference, has both, and
\* nobody else has the queue's.
LEMMA LenderFacts ==
    ASSUME Stages, Once, again \subseteq Senders,
           NEW p \in Senders, NEW b \in Blocks, Lends(p, b)
    PROVE  /\ Holds(p, b) /\ ~InQueue(b) /\ ~Holds(Link, b) /\ ~Boxed(b)
           /\ \A q \in Senders : Lends(q, b) => q = p
<1>1. \A q \in Senders : Lends(q, b) => Holds(q, b)
    BY DEF Lends, Holds, Lending, Holding, Stages
<1>2. ~InQueue(b) /\ ~Holds(Link, b)
    BY DEF Once
<1>3. ~Boxed(b)
    BY DEF Stages
<1> QED
    BY <1>1, <1>2, <1>3 DEF Once

\* nos_shm_buffer_release after a refused enqueue: the queue's reference goes,
\* the sender's is left.
LEMMA DropQueuesPool ==
    ASSUME Core, Pool, NEW p \in again, Release(p)
    PROVE  Pool'
<1> USE Threads DEF Pool
<1>1. /\ LocalTypes /\ PoolTypes /\ again \subseteq Senders /\ p \in Senders /\ p \in Procs
      /\ LocalOk(p) /\ Locals
    BY DEF Core, Types, LocalTypes, Locals
<1>2. PICK b \in Blocks : b = blk[p]
    BY <1>1 DEF Release, LocalOk, Holding
<1>3. pc[p] = "release" /\ Holds(p, b) /\ Lends(p, b)
    BY <1>2 DEF Release, Holds, Holding, Lends
<1>4. /\ ~InQueue(b) /\ ~Holds(Link, b) /\ ~Boxed(b)
      /\ \A q \in Senders : Lends(q, b) => q = p
    BY <1>1, <1>3, LenderFacts
<1>5. Sent(b) /\ Underway(b) /\ ref_count[b] = 2
  <2>1. Sent(b) /\ Underway(b)
    BY <1>1, <1>3 DEF Sent, Underway
  <2> QED
    BY <1>4, <2>1 DEF Counts, One
<1>6. /\ Leave(p)
      /\ UNCHANGED <<seen, next>>
      /\ UNCHANGED <<free_list_head, next_free, total_allocated>>
      /\ UNCHANGED <<inbox, accepted, mishaps>>
    BY <1>2, <1>5 DEF Release, history
<1>7. PICK to \in Labels : Moves(p, to) /\ again' = again \ {p} /\ to = "release" /\ blk' = blk
  <2>1. \E to \in Labels :
           /\ Moves(p, to) /\ again' = again \ {p}
           /\ p \in again => to = "release" /\ blk' = blk
           /\ p \notin again => to = Rest(p) /\ blk' = [blk EXCEPT ![p] = None]
    BY <1>1, <1>6, LeaveFacts, Zenon
  <2> QED
    BY <2>1, Zenon
<1>8. \A c \in Blocks : ref_count'[c] = IF c = b THEN 1 ELSE ref_count[c]
  <2>1. ref_count' = [ref_count EXCEPT ![b] = ref_count[b] - 1]
    BY <1>1, <1>2 DEF Release, Count, PoolTypes
  <2> QED
    BY <1>1, <1>5, <2>1 DEF PoolTypes
<1>9. pc'[p] = "release" /\ Others(p) /\ p \notin again'
    BY <1>1, <1>7, MoveFacts
<1>10. \A c : /\ (Holds(p, c) <=> c = b) /\ (Holds(p, c)' <=> c = b)
              /\ (Lends(p, c) <=> c = b) /\ ~Lends(p, c)'
              /\ ~Carries(p, c) /\ ~Carries(p, c)'
    BY <1>2, <1>3, <1>7, <1>9 DEF Holds, Lends, Carries, Holding, Lending, Carrying
<1>11. /\ \A q \in Procs : \A c : /\ Holds(q, c)' <=> Holds(q, c)
                                  /\ Carries(q, c)' <=> Carries(q, c)
       /\ \A q \in Procs : \A c : Lends(q, c)' <=> q # p /\ Lends(q, c)
    BY <1>9, <1>10 DEF Holds, Lends, Carries, Others
<1>12. \A c : (InQueue(c)' <=> InQueue(c)) /\ (Boxed(c)' <=> Boxed(c)) /\ (Sent(c)' <=> Sent(c))
    BY <1>6, <1>11 DEF InQueue, Boxed, Sent
<1>13. \A c \in Blocks : Underway(c)' <=> Underway(c) /\ c # b
    BY <1>4, <1>10, <1>11, <1>12 DEF Underway
<1>14. Counts'
    BY <1>4, <1>5, <1>8, <1>12, <1>13 DEF Counts, One
<1>15. Once'
    BY <1>6, <1>11, <1>12 DEF Once
<1>16. CarriedOnce' /\ \A c \in Blocks : Unused(c)' <=> Unused(c)
  <2>1. \A q \in Procs : ~Carries(q, b)
    BY <1>5 DEF CarriedOnce
  <2> QED
    BY <1>5, <1>8, <1>11, <2>1 DEF CarriedOnce, Unused
<1>17. Stages'
  <2>1. ASSUME NEW q \in Senders, pc'[q] = "retain" PROVE ref_count'[blk'[q]] = 1
    <3>1. pc[q] = "retain" /\ blk'[q] = blk[q]
      BY <1>9, <2>1 DEF Others
    <3>2. blk[q] \in Blocks /\ ref_count[blk[q]] = 1
      BY <1>1, <3>1 DEF Stages, Locals, LocalOk, Holding
    <3> QED
      BY <1>8, <3>1, <3>2
  <2>2. /\ pc'[Link] = pc[Link] /\ blk'[Link] = blk[Link]
        /\ \A q \in again' : pc'[q] = "release"
    BY <1>1, <1>7, <1>9 DEF Others, Stages
  <2> QED
    BY <1>11, <1>12, <2>1, <2>2 DEF Stages
<1>18. Linkage' /\ FreeList' /\ Tally'
    BY <1>1, <1>3, <1>6, <1>9, <1>16, ListKept
<1> QED
    BY <1>6, <1>14, <1>15, <1>16, <1>17, <1>18

\* nos_shm_buffer_release otherwise: a thread drops its own reference, and with
\* the last one the block is its to push back.
LEMMA ReleasePool ==
    ASSUME Core, Pool, NEW p \in Procs, p \notin again, Release(p)
    PROVE  Pool'
<1> USE Threads DEF Pool
<1>1. LocalTypes /\ PoolTypes /\ again \subseteq Senders /\ LocalOk(p) /\ Locals
    BY DEF Core, Types, LocalTypes, Locals
<1>2. PICK b \in Blocks : b = blk[p]
    BY <1>1 DEF Release, LocalOk, Holding
<1>3. /\ pc[p] = "release"
      /\ UNCHANGED <<seen, next>>
      /\ UNCHANGED <<free_list_head, next_free, total_allocated>>
      /\ UNCHANGED <<inbox, accepted, mishaps>>
    BY DEF Release, history
<1>4. PICK to \in Labels :
         /\ Moves(p, to) /\ again' = again
         /\ ref_count[b] = 1 => to = "push" /\ blk' = blk
         /\ ref_count[b] # 1 => to = Rest(p)
  <2>1. CASE ref_count[b] = 1
    <3>1. /\ pc' = [pc EXCEPT ![p] = "push"] /\ "push" \in Labels
          /\ UNCHANGED <<blk, again, seen, next>>
      BY <1>2, <1>3, <2>1 DEF Release, Labels
    <3> QED
      BY <2>1, <3>1 DEF Moves
  <2>2. CASE ref_count[b] # 1
    <3>1. Leave(p)
      BY <1>2, <2>2 DEF Release
    <3>2. \E to \in Labels :
             /\ Moves(p, to) /\ again' = again \ {p}
             /\ p \in again => to = "release" /\ blk' = blk
             /\ p \notin again => to = Rest(p) /\ blk' = [blk EXCEPT ![p] = None]
      BY <1>1, <1>3, <3>1, LeaveFacts, Zenon
    <3>3. again \ {p} = again
      OBVIOUS
    <3> QED
      BY <2>2, <3>2, <3>3, Zenon
  <2> QED
    BY <2>1, <2>2, Zenon
<1>5. \A c \in Blocks : ref_count'[c] = IF c = b THEN ref_count[b] - 1 ELSE ref_count[c]
  <2>1. ref_count' = [ref_count EXCEPT ![b] = ref_count[b] - 1]
    BY <1>1, <1>2 DEF Release, Count, PoolTypes
  <2> QED
    BY <1>1, <2>1 DEF PoolTypes
<1>6. pc'[p] = to /\ Others(p)
    BY <1>1, <1>4, MoveFacts
<1>7. /\ ref_count[b] = 1 => to = "push" /\ blk'[p] = b
      /\ ref_count[b] # 1 => to \in {"idle", "drain"}
      /\ to \notin {"swap", "count", "discount", "retain", "deliver"}
    BY <1>2, <1>4 DEF Rest
<1>8. \A c : /\ (Holds(p, c) <=> c = b) /\ ~Holds(p, c)'
             /\ ~Lends(p, c) /\ ~Lends(p, c)'
             /\ ~Carries(p, c) /\ (Carries(p, c)' <=> c = b /\ ref_count[b] = 1)
    BY <1>2, <1>3, <1>4, <1>6, <1>7 DEF Holds, Lends, Carries, Holding, Lending, Carrying
<1>9. /\ \A q \in Procs : \A c : Holds(q, c)' <=> q # p /\ Holds(q, c)
      /\ \A q \in Procs : \A c : Lends(q, c)' <=> Lends(q, c)
      /\ \A q \in Procs : \A c :
            Carries(q, c)' <=> Carries(q, c) \/ (q = p /\ c = b /\ ref_count[b] = 1)
    BY <1>6, <1>8 DEF Holds, Lends, Carries, Others
<1>10. \A c : InQueue(c)' <=> InQueue(c)
    BY <1>3 DEF InQueue
<1>11. \A c \in Blocks : c # b => /\ Sent(c)' <=> Sent(c)
                                  /\ Underway(c)' <=> Underway(c)
                                  /\ Boxed(c)' <=> Boxed(c)
  <2>1. \A q \in Procs, c \in Blocks : c # b => (Holds(q, c)' <=> Holds(q, c))
    BY <1>8, <1>9
  <2> QED
    BY <1>3, <1>9, <1>10, <2>1 DEF Sent, Underway, Boxed
<1>12. /\ Sent(b)' => Sent(b) /\ p \notin Senders
       /\ Underway(b)' => Underway(b) /\ p # Link
       /\ Boxed(b)' => Boxed(b) /\ p # Worker
       /\ p \in Senders \/ (Sent(b)' <=> Sent(b))
       /\ p = Link \/ (Underway(b)' <=> Underway(b))
       /\ p = Worker \/ (Boxed(b)' <=> Boxed(b))
       /\ (p \in Senders => Sent(b)) /\ (p = Link => Underway(b)) /\ (p = Worker => Boxed(b))
  <2>0. Holds(p, b)
    BY <1>8
  <2>1. (Sent(b)' => Sent(b)) /\ (Underway(b)' => Underway(b)) /\ (Boxed(b)' => Boxed(b))
    BY <1>3, <1>9, <1>10 DEF Sent, Underway, Boxed
  <2>2. p \in Senders => Sent(b) /\ ~Sent(b)'
    BY <1>9, <2>0 DEF Sent, Once
  <2>3. p = Link => Underway(b) /\ ~Underway(b)'
    BY <1>9, <1>10, <2>0 DEF Underway, Once
  <2>4. p = Worker => Boxed(b) /\ ~Boxed(b)'
    BY <1>3, <1>9, <2>0 DEF Boxed, Once
  <2>5. p \in Senders \/ (Sent(b)' <=> Sent(b))
    BY <1>9 DEF Sent
  <2>6. p = Link \/ (Underway(b)' <=> Underway(b))
    BY <1>9, <1>10 DEF Underway
  <2>7. p = Worker \/ (Boxed(b)' <=> Boxed(b))
    BY <1>3, <1>9 DEF Boxed
  <2> QED
    BY <2>1, <2>2, <2>3, <2>4, <2>5, <2>6, <2>7
<1>13. \* one reference less to this block
       /\ ref_count[b] = One(Sent(b)) + One(Underway(b)) + One(Boxed(b))
       /\ ref_count[b] - 1 = One(Sent(b)') + One(Underway(b)') + One(Boxed(b)')
  <2>1. ref_count[b] = One(Sent(b)) + One(Underway(b)) + One(Boxed(b))
    BY DEF Counts
  <2> QED
    BY <1>12, <2>1 DEF One, Procs
<1>14. Counts'
  <2>1. SUFFICES ASSUME NEW c \in Blocks
                 PROVE  ref_count'[c] = One(Sent(c)') + One(Underway(c)') + One(Boxed(c)')
    BY DEF Counts, One
  <2>2. ref_count[c] = One(Sent(c)) + One(Underway(c)) + One(Boxed(c))
    BY DEF Counts
  <2>3. CASE c = b
    <3>1. ref_count'[b] = One(Sent(b)') + One(Underway(b)') + One(Boxed(b)')
      BY <1>5, <1>13
    <3> QED
      BY <2>3, <3>1, Zenon
  <2>4. CASE c # b
    <3>1. (Sent(c)' <=> Sent(c)) /\ (Underway(c)' <=> Underway(c)) /\ (Boxed(c)' <=> Boxed(c))
      BY <1>11, <2>4
    <3>2. /\ One(Sent(c)') = One(Sent(c)) /\ One(Underway(c)') = One(Underway(c))
          /\ One(Boxed(c)') = One(Boxed(c))
      BY <3>1 DEF One
    <3>3. ref_count'[c] = ref_count[c]
      BY <1>5, <2>4
    <3> QED
      BY <2>2, <3>2, <3>3
  <2> QED
    BY <2>3, <2>4
<1>15. Once'
    BY <1>3, <1>9, <1>10 DEF Once
<1>16. ref_count[b] # 0 /\ \A q \in Procs : ~Carries(q, b)
  <2>1. ref_count[b] # 0
    BY <1>12, <1>13 DEF One, Procs
  <2> QED
    BY <2>1 DEF CarriedOnce
<1>17. CarriedOnce'
    BY <1>5, <1>9, <1>16 DEF CarriedOnce
<1>18. \A c \in Blocks : Unused(c)' <=> Unused(c)
  <2>1. ~Unused(b) /\ ~Unused(b)'
    <3>1. ref_count[b] \in Int
      BY <1>1 DEF PoolTypes
    <3>2. CASE ref_count[b] = 1
      BY <1>9, <1>16, <3>2 DEF Unused
    <3>3. CASE ref_count[b] # 1
      BY <1>5, <1>16, <3>1, <3>3 DEF Unused
    <3> QED
      BY <3>2, <3>3
  <2>2. \A c \in Blocks : c # b => (Unused(c)' <=> Unused(c))
    BY <1>5, <1>9 DEF Unused
  <2> QED
    BY <2>1, <2>2
<1>19. Stages'
  <2>1. ASSUME NEW q \in Senders, pc'[q] = "retain" PROVE ref_count'[blk'[q]] = 1
    <3>1. q # p /\ pc[q] = "retain" /\ blk'[q] = blk[q]
      BY <1>6, <1>7, <2>1 DEF Others
    <3>2. blk[q] \in Blocks /\ ref_count[blk[q]] = 1 /\ Holds(q, blk[q])
      BY <1>1, <3>1 DEF Stages, Locals, LocalOk, Holding, Holds
    <3>3. blk[q] # b
      <4>1. SUFFICES ASSUME blk[q] = b PROVE FALSE
        OBVIOUS
      <4>2. ref_count[b] = 1 /\ Holds(q, b) /\ Holds(p, b)
        BY <1>8, <3>2, <4>1
      <4>3. p \notin Senders /\ Sent(b)
        BY <3>1, <4>2 DEF Once, Sent
      <4> QED
        BY <1>12, <1>13, <4>2, <4>3 DEF One, Procs
    <3> QED
      BY <1>5, <3>1, <3>2, <3>3
  <2>2. \A q \in again' : pc'[q] = "release"
    BY <1>1, <1>4, <1>6 DEF Others, Stages
  <2>3. \A c \in Blocks : Boxed(c)' => Boxed(c)
    BY <1>11, <1>12
  <2>4. \A c : pc'[Link] = "deliver" /\ blk'[Link] = c => pc[Link] = "deliver" /\ blk[Link] = c
    BY <1>6, <1>7 DEF Others
  <2> QED
    BY <1>9, <1>10, <2>1, <2>2, <2>3, <2>4 DEF Stages
<1>20. Linkage' /\ FreeList' /\ Tally'
    BY <1>3, <1>6, <1>7, <1>18, ListKept
<1> QED
    BY <1>3, <1>14, <1>15, <1>17, <1>19, <1>20

\* Every step that does not tear the list keeps Pool.
LEMMA PoolNext ==
    ASSUME Core, Pool, [Next]_vars, "torn" \notin mishaps'
    PROVE  Pool'
<1> USE Threads
<1>1. ASSUME NEW p \in Senders, Send(p)
      PROVE  Pool'
    BY <1>1, SenderQuiet, AllocSwapPool, AllocCountPool, AllocFreshPool, RetainPool, ClaimPool
       DEF Send
<1>2. ASSUME NEW p \in Procs, GiveBack(p)
      PROVE  Pool'
  <2>1. CASE Release(p)
    BY <2>1, DropQueuesPool, ReleasePool
  <2>2. CASE ~Release(p)
    BY <1>2, <2>2, OtherQuiet, PushReadPool, PushSwapPool, PushCountPool DEF GiveBack
  <2> QED
    BY <2>1, <2>2
<1>3. ASSUME Receive
      PROVE  Pool'
    BY <1>3, OtherQuiet, AdvancePool, DeliverPool DEF Receive
<1>4. ASSUME NEW b \in Blocks, Handle(b)
      PROVE  Pool'
    BY <1>4, HandlePool
<1>5. CASE UNCHANGED vars
  <2>1. UNCHANGED <<free_list_head, next_free, ref_count, total_allocated>>
    BY <1>5 DEF vars, pool
  <2>2. UNCHANGED <<inbox, accepted, mishaps>>
    BY <1>5 DEF vars, history
  <2>3. UNCHANGED <<pc, blk, seen, next, again>>
    BY <1>5 DEF vars, locals
  <2>4. \A q \in Procs : \A b : /\ Holds(q, b)' <=> Holds(q, b)
                                /\ Lends(q, b)' <=> Lends(q, b)
                                /\ Carries(q, b)' <=> Carries(q, b)
    BY <2>3 DEF Holds, Lends, Carries
  <2>5. \A b : InQueue(b)' <=> InQueue(b)
    BY <2>2 DEF InQueue
  <2>6. \A b : /\ Sent(b)' <=> Sent(b)
               /\ Underway(b)' <=> Underway(b)
               /\ Boxed(b)' <=> Boxed(b)
    BY <2>2, <2>4, <2>5 DEF Sent, Underway, Boxed
  <2>7. Counts'
    BY <2>1, <2>6 DEF Pool, Counts, One
  <2>8. Once'
    BY <2>2, <2>4, <2>5 DEF Pool, Once
  <2>9. CarriedOnce' /\ \A b \in Blocks : Unused(b)' <=> Unused(b)
    BY <2>1, <2>4 DEF Pool, CarriedOnce, Unused
  <2>10. Stages'
    BY <2>1, <2>3, <2>4, <2>5, <2>6 DEF Pool, Stages
  <2>11. Linkage'
    BY <2>1, <2>3 DEF Pool, Linkage
  <2>12. FreeList'
    BY <2>1, <2>9, ListFrame DEF Pool
  <2>13. Tally'
    BY <2>1, <2>3, <2>9, TallyFrame DEF Pool
  <2> QED
    BY <2>2, <2>7, <2>8, <2>9, <2>10, <2>11, <2>12, <2>13 DEF Pool
<1> QED
    BY <1>1, <1>2, <1>3, <1>4, <1>5 DEF Next

\* No mishap is forgotten.
LEMMA MishapsStay ==
    ASSUME [Next]_vars
    PROVE  mishaps \subseteq mishaps'
<1>1. ASSUME NEW p \in Senders, Send(p)
      PROVE  mishaps \subseteq mishaps'
    BY <1>1 DEF Send, AllocRead, AllocNext, AllocSwap, AllocRetry, AllocCount, AllocFresh, Retain,
                EnqueueRead, EnqueueBusy, EnqueueLook, EnqueueClaim, EnqueueRetry, EnqueueStore,
                Signal, history
<1>2. ASSUME NEW p \in Procs, GiveBack(p)
      PROVE  mishaps \subseteq mishaps'
    BY <1>2 DEF GiveBack, Release, PushRead, PushSwap, PushRetry, PushCount, history
<1>3. ASSUME Receive
      PROVE  mishaps \subseteq mishaps'
    BY <1>3 DEF Receive, Event, DequeueEmpty, Dequeue, Advance, Deliver, Undeliverable, history
<1>4. ASSUME NEW b \in Blocks, Handle(b)
      PROVE  mishaps \subseteq mishaps'
    BY <1>4 DEF Handle, history
<1>5. CASE UNCHANGED vars
    BY <1>5 DEF vars, history
<1> QED
    BY <1>1, <1>2, <1>3, <1>4, <1>5 DEF Next

LEMMA InitPool == Init => Pool
<1> SUFFICES ASSUME Init PROVE Pool
    OBVIOUS
<1> USE Threads
<1>1. /\ DOMAIN accepted = {} /\ inbox = [b \in Blocks |-> 0] /\ mishaps = {} /\ again = {}
      /\ ref_count = [b \in Blocks |-> 0] /\ total_allocated = 0
    BY EmptySeq DEF Init
<1>2. \A p \in Procs : pc[p] = "idle" /\ p \notin again
    BY <1>1 DEF Init
<1>3. \A p \in Procs : \A b : ~Holds(p, b) /\ ~Lends(p, b) /\ ~Carries(p, b)
    BY <1>2 DEF Holds, Lends, Carries, Holding, Lending, Carrying
<1>4. \A b \in Blocks : ~Sent(b) /\ ~Underway(b) /\ ~Boxed(b) /\ ~InQueue(b)
    BY <1>1, <1>3 DEF Sent, Underway, Boxed, InQueue
<1>5. Counts
    BY <1>1, <1>4 DEF Counts, One
<1>6. Once /\ CarriedOnce
    BY <1>1, <1>3, <1>4 DEF Once, CarriedOnce
<1>7. Stages /\ Linkage
    BY <1>1, <1>2, <1>4 DEF Stages, Linkage
<1>8. Tally
  <2>1. Taken = {} /\ Popped = {} /\ Pushed = {}
    BY <1>1, <1>2, <1>3 DEF Taken, Unused, Popped, Pushed
  <2> QED
    BY <1>1, <2>1, FS_EmptySet DEF Tally
<1> QED
    BY <1>1, <1>5, <1>6, <1>7, <1>8, InitList DEF Pool

LEMMA Invariant == Spec => []IInv
<1>1. Init => IInv
    BY InitCore, InitPool DEF IInv
<1>2. ASSUME IInv, [Next]_vars PROVE IInv'
  <2>1. Core'
    BY <1>2, CoreNext DEF IInv
  <2>2. ASSUME "torn" \notin mishaps' PROVE Pool'
    <3>1. "torn" \notin mishaps
      BY <1>2, <2>2, MishapsStay
    <3> QED
      BY <1>2, <2>2, <3>1, PoolNext DEF IInv
  <2> QED
    BY <2>1, <2>2 DEF IInv
<1>3. IInv /\ [Next]_vars => IInv'
    BY <1>2
<1> QED
    BY <1>1, <1>3, PTL DEF Spec

-----------------------------------------------------------------------------
(* The theorems. *)

\* A set of at most one element is counted by whether it has one.
LEMMA AtMostOne ==
    ASSUME NEW S, \A x, y \in S : x = y
    PROVE  IsFiniteSet(S) /\ Cardinality(S) = One(S # {})
<1>1. CASE S = {}
    BY <1>1, FS_EmptySet DEF One
<1>2. CASE S # {}
  <2>1. PICK x : S = {x}
    BY <1>2
  <2> QED
    BY <1>2, <2>1, FS_Singleton DEF One
<1> QED
    BY <1>1, <1>2

\* The model's count of the references to a block, by the three there may be.
LEMMA ReferencesAre ==
    ASSUME Core, Pool, NEW b \in Blocks
    PROVE  /\ References(b) = ref_count[b]
           /\ Cardinality(Carriers(b)) = One(\E p \in Procs : Carries(p, b))
<1> USE Threads DEF Pool
<1>0. again \subseteq Senders /\ Locals /\ inbox[b] \in Nat
    BY DEF Core, Types, LocalTypes, PoolTypes
<1> DEFINE S == {p \in Senders : Holds(p, b)}
           SL == IF Holds(Link, b) THEN S \cup {Link} ELSE S
           SW == IF Holds(Worker, b) THEN SL \cup {Worker} ELSE SL
<1>1. IsFiniteSet(S) /\ Cardinality(S) = One(Sent(b))
  <2>1. \A p, q \in S : p = q
    BY DEF Once
  <2>2. S # {} <=> Sent(b)
    BY DEF Sent
  <2> HIDE DEF S
  <2>3. IsFiniteSet(S) /\ Cardinality(S) = One(S # {})
    BY <2>1, AtMostOne
  <2> QED
    BY <2>2, <2>3 DEF One
<1>2. IsFiniteSet(SL) /\ Cardinality(SL) = One(Sent(b)) + One(Holds(Link, b))
  <2>1. Link \notin S
    OBVIOUS
  <2> HIDE DEF S
  <2>2. Cardinality(S) \in Nat
    BY <1>1 DEF One
  <2>3. CASE Holds(Link, b)
    <3>1. SL = S \cup {Link}
      BY <2>3
    <3>2. IsFiniteSet(S \cup {Link}) /\ Cardinality(S \cup {Link}) = Cardinality(S) + 1
      BY <1>1, <2>1, FS_AddElement
    <3> QED
      BY <1>1, <2>3, <3>1, <3>2 DEF One
  <2>4. CASE ~Holds(Link, b)
    BY <1>1, <2>2, <2>4 DEF One
  <2> QED
    BY <2>3, <2>4
<1>3. Cardinality(SW) = One(Sent(b)) + One(Holds(Link, b)) + One(Holds(Worker, b))
  <2>1. Worker \notin SL
    OBVIOUS
  <2> HIDE DEF SL
  <2>2. Cardinality(SL) \in Nat
    BY <1>2 DEF One
  <2>3. CASE Holds(Worker, b)
    <3>1. SW = SL \cup {Worker}
      BY <2>3
    <3>2. Cardinality(SL \cup {Worker}) = Cardinality(SL) + 1
      BY <1>2, <2>1, FS_AddElement
    <3> QED
      BY <1>2, <2>3, <3>1, <3>2 DEF One
  <2>4. CASE ~Holds(Worker, b)
    <3>1. SW = SL
      BY <2>4
    <3> QED
      BY <1>2, <2>2, <2>4, <3>1 DEF One
  <2> QED
    BY <2>3, <2>4
<1>4. Cardinality(Holders(b)) = One(Sent(b)) + One(Holds(Link, b)) + One(Holds(Worker, b))
  <2>1. Holders(b) = SW
    BY DEF Holders, Holds, Holding, Procs
  <2> QED
    BY <1>3, <2>1
<1>5. Cardinality(Lent(b)) = One(\E p \in Senders : Lends(p, b))
  <2>1. \A p \in Lent(b) : p \in Senders /\ Lends(p, b) /\ Holds(p, b)
    <3>1. SUFFICES ASSUME NEW p \in Lent(b) PROVE p \in Senders /\ Lends(p, b) /\ Holds(p, b)
      OBVIOUS
    <3>2. p \in Procs /\ blk[p] = b /\ Lends(p, b)
      BY DEF Lent, Lends, Lending
    <3>3. p \in Senders
      BY <1>0, <3>2 DEF Lends, Lending, Locals, LocalOk, Placed, Procs
    <3> QED
      BY <3>2, <3>3, LenderFacts, <1>0
  <2>2. \A p, q \in Lent(b) : p = q
    BY <2>1 DEF Once
  <2>3. Lent(b) # {} <=> \E p \in Senders : Lends(p, b)
    BY <2>1 DEF Lent, Lends, Lending
  <2>4. Cardinality(Lent(b)) = One(Lent(b) # {})
    BY <2>2, AtMostOne
  <2> QED
    BY <2>3, <2>4 DEF One
<1>6. Cardinality(Queued(b)) = One(InQueue(b))
  <2>1. \A i, j \in Queued(b) : i = j
    BY DEF Queued, Once
  <2>2. Queued(b) # {} <=> InQueue(b)
    BY DEF Queued, InQueue
  <2>3. Cardinality(Queued(b)) = One(Queued(b) # {})
    BY <2>1, AtMostOne
  <2> QED
    BY <2>2, <2>3 DEF One
<1>7. Cardinality(Carriers(b)) = One(\E p \in Procs : Carries(p, b))
  <2>1. \A p \in Carriers(b) : p \in Procs /\ Carries(p, b)
    BY DEF Carriers, Carries, Carrying
  <2>2. \A p, q \in Carriers(b) : p = q
    BY <2>1 DEF CarriedOnce
  <2>3. Carriers(b) # {} <=> \E p \in Procs : Carries(p, b)
    BY DEF Carriers, Carries, Carrying
  <2>4. Cardinality(Carriers(b)) = One(Carriers(b) # {})
    BY <2>2, AtMostOne
  <2> QED
    BY <2>3, <2>4 DEF One
<1>8. One(Underway(b)) = One(\E p \in Senders : Lends(p, b)) + One(InQueue(b)) + One(Holds(Link, b))
  <2>1. InQueue(b) => ~Holds(Link, b) /\ ~\E p \in Senders : Lends(p, b)
    BY DEF Once
  <2>2. Holds(Link, b) => ~\E p \in Senders : Lends(p, b)
    BY DEF Once
  <2>3. Underway(b) <=> (\E p \in Senders : Lends(p, b)) \/ InQueue(b) \/ Holds(Link, b)
    BY DEF Underway
  <2> QED
    BY <2>1, <2>2, <2>3 DEF One
<1>9. One(Boxed(b)) = One(Holds(Worker, b)) + inbox[b]
  <2>1. inbox[b] # 0 => inbox[b] = 1 /\ ~Holds(Worker, b)
    BY DEF Once
  <2>2. Boxed(b) <=> inbox[b] # 0 \/ Holds(Worker, b)
    BY DEF Boxed
  <2> QED
    BY <1>0, <2>1, <2>2 DEF One
<1>10. ref_count[b] = One(Sent(b)) + One(Underway(b)) + One(Boxed(b))
    BY DEF Counts
<1>11. /\ One(Sent(b)) \in Int /\ One(Holds(Link, b)) \in Int /\ One(Holds(Worker, b)) \in Int
       /\ One(\E p \in Senders : Lends(p, b)) \in Int /\ One(InQueue(b)) \in Int
    BY DEF One
<1>12. References(b) = ref_count[b]
  <2>1. PICK x \in Int : x = inbox[b]
    BY <1>0
  <2>2. References(b) = Cardinality(Holders(b)) + Cardinality(Lent(b)) + Cardinality(Queued(b)) + x
    BY <2>1 DEF References
  <2>3. One(Boxed(b)) = One(Holds(Worker, b)) + x
    BY <1>9, <2>1
  <2>4. PICK s \in Int : s = One(Sent(b))
    BY <1>11
  <2>5. PICK k \in Int : k = One(Holds(Link, b))
    BY <1>11
  <2>6. PICK w \in Int : w = One(Holds(Worker, b))
    BY <1>11
  <2>7. PICK e \in Int : e = One(\E p \in Senders : Lends(p, b))
    BY <1>11
  <2>8. PICK q \in Int : q = One(InQueue(b))
    BY <1>11
  <2>9. References(b) = (s + k + w) + e + q + x
    BY <1>4, <1>5, <1>6, <2>2, <2>4, <2>5, <2>6, <2>7, <2>8
  <2>10. ref_count[b] = s + (e + q + k) + (w + x)
    BY <1>8, <1>10, <2>3, <2>4, <2>5, <2>6, <2>7, <2>8
  <2> QED
    BY <2>9, <2>10
<1> QED
    BY <1>7, <1>12

\* QueueOk, stated over positions, says what InOrder says over slots.
LEMMA PositionsInOrder ==
    ASSUME QueueTypes, QueueOk
    PROVE  InOrder
<1>1. /\ DOMAIN accepted = 1 .. Len(accepted) /\ Len(accepted) \in Nat
      /\ Len(accepted) < QueueSize /\ head \in 0 .. QueueSize - 1
      /\ At(head, 1) = head
    BY Positions
<1>2. PICK l \in Nat : l = Len(accepted)
    BY <1>1, Zenon
<1>3. l < QueueSize /\ tail = At(head, l + 1)
    BY <1>1, <1>2 DEF QueueOk
<1>4. (tail - head) % QueueSize = l
  <2>1. tail - head = l \/ tail - head = l - QueueSize
    BY <1>1, <1>3, Sizes DEF At
  <2>2. CASE tail - head = l
    BY <1>3, <2>2, ModIs, Sizes
  <2>3. CASE tail - head = l - QueueSize
    <3>1. (l - QueueSize) % QueueSize = IF l - QueueSize < 0 THEN l - QueueSize + QueueSize
                                       ELSE IF l - QueueSize < QueueSize THEN l - QueueSize
                                       ELSE l - QueueSize - QueueSize
      BY <1>3, ModIs, Sizes
    <3> QED
      BY <1>3, <2>3, <3>1, Sizes
  <2> QED
    BY <2>1, <2>2, <2>3
<1>5. \A i \in 1 .. QueueSize : (head + i - 1) % QueueSize = At(head, i)
  <2>1. SUFFICES ASSUME NEW i \in 1 .. QueueSize PROVE (head + i - 1) % QueueSize = At(head, i)
    OBVIOUS
  <2>2. PICK x \in Int : x = head + i - 1
    BY <1>1, Sizes
  <2>3. 0 <= x /\ x < 2 * QueueSize
    BY <1>1, <2>2, Sizes
  <2>4. x % QueueSize = IF x < 0 THEN x + QueueSize
                        ELSE IF x < QueueSize THEN x ELSE x - QueueSize
    BY <2>3, ModIs, Sizes
  <2> QED
    BY <1>1, <2>2, <2>3, <2>4, Sizes DEF At
<1>6. ASSUME NEW i \in DOMAIN accepted
      PROVE  LET slot == (head + i - 1) % QueueSize
             IN  \/ offsets[slot] = accepted[i]
                 \/ /\ offsets[slot] = None
                    /\ \E p \in Senders : pc[p] = "store" /\ seen[p] = slot /\ blk[p] = accepted[i]
                 \/ i = 1 /\ pc[Link] = "advance" /\ blk[Link] = accepted[1] /\ offsets[slot] = None
  <2>1. i \in 1 .. QueueSize
    BY <1>1, Sizes
  <2>2. (head + i - 1) % QueueSize = At(head, i)
    BY <1>5, <2>1
  <2> QED
    BY <1>1, <2>2 DEF QueueOk
<1>7. ASSUME NEW i \in Slots, (i - head) % QueueSize >= l
      PROVE  offsets[i] = None
  <2>1. i \in 0 .. QueueSize - 1
    BY DEF Slots
  <2>2. PICK d \in Int : d = i - head
    BY <1>1, <2>1
  <2>3. d % QueueSize = IF d < 0 THEN d + QueueSize ELSE d
    <3>1. 0 - QueueSize <= d /\ d < QueueSize
      BY <1>1, <2>1, <2>2, Sizes
    <3>2. d % QueueSize = IF d < 0 THEN d + QueueSize
                          ELSE IF d < QueueSize THEN d ELSE d - QueueSize
      BY <3>1, ModIs, Sizes
    <3> QED
      BY <3>1, <3>2
  <2>4. PICK k \in Int : k = (d % QueueSize) + 1
    BY <2>3, Sizes
  <2>5. At(head, k) = i /\ k \in l + 1 .. QueueSize
    <3>1. head \in 0 .. QueueSize - 1 /\ QueueSize \in Nat /\ d % QueueSize >= l
      BY <1>1, <1>7, <2>2, Sizes
    <3> QED
      BY <2>1, <2>2, <2>3, <2>4, <3>1 DEF At
  <2> QED
    BY <1>2, <2>5 DEF QueueOk
<1> QED
    BY <1>2, <1>4, <1>6, <1>7 DEF InOrder

\* Words of the segment and locals are of their types; until the free list is
\* torn no block has more than three references, and total_allocated is off by
\* no more than the threads between the list and the counter.
THEOREM TypesHold == Spec => []TypeOK
<1>1. ASSUME IInv PROVE TypeOK
  <2>1. Types
    BY <1>1 DEF IInv, Core
  <2>2. ASSUME Core, Pool PROVE ref_count \in [Blocks -> 0 .. 3]
    <3>1. \A b \in Blocks : ref_count[b] \in 0 .. 3
      BY <2>2 DEF Pool, Counts, One
    <3> QED
      BY <2>1, <3>1 DEF Types, PoolTypes
  <2>3. ASSUME Core, Pool
        PROVE  total_allocated \in 0 .. Cardinality(Blocks) + Cardinality(Procs)
    <3>1. Cardinality(Taken) <= N /\ Cardinality(Pushed) <= Cardinality(Procs)
          /\ Cardinality(Procs) \in Nat
      <4>1. Taken \subseteq Blocks /\ Pushed \subseteq Procs
        BY DEF Taken, Pushed
      <4> QED
        BY <4>1, Sizes, TallySets, FS_Subset, FS_CardinalityType DEF N
    <3>2. Cardinality(Popped) <= Cardinality(Taken)
      <4> DEFINE f == [p \in Popped |-> blk[p]]
      <4>1. \A p \in Popped : p \in Procs /\ blk[p] \in Blocks /\ Carries(p, blk[p])
        BY <2>3 DEF Popped, Core, Locals, LocalOk, Carries, Carrying
      <4>2. \A p \in Popped : blk[p] \in Taken
        BY <4>1 DEF Taken, Unused
      <4>3. \A p, q \in Popped : blk[p] = blk[q] => p = q
        BY <2>3, <4>1 DEF Pool, CarriedOnce
      <4>4. f \in Injection(Popped, Taken)
        BY <4>2, <4>3 DEF Injection, IsInjective
      <4> QED
        BY <4>4, TallySets, FS_Injection
    <3> QED
      BY <2>3, <3>1, <3>2, TallySets, Sizes DEF Pool, Tally, N
  <2>4. "torn" \notin mishaps =>
            /\ ref_count \in [Blocks -> 0 .. 3]
            /\ total_allocated \in 0 .. Cardinality(Blocks) + Cardinality(Procs)
    BY <1>1, <2>2, <2>3 DEF IInv
  <2> QED
    BY <2>1, <2>4 DEF TypeOK, Types, PoolTypes, QueueTypes, LocalTypes, Labels, Slots
<1> QED
    BY <1>1, Invariant, PTL

\* nos_shm.h:29: until the free list is torn, ref_count is the number of
\* references that the threads, the queue and the mailbox have.
THEOREM RefCountsExact == Spec => []RefsCounted
<1>1. IInv => RefsCounted
    BY ReferencesAre DEF IInv, RefsCounted
<1> QED
    BY <1>1, Invariant, PTL

\* Until the free list is torn, every block is on it, in use or on its way in
\* one thread's hands, and total_allocated counts the blocks that are not on
\* it, but for the threads between the list and the counter.
THEOREM BlocksConserved == Spec => []BlockInOnePlace
<1>1. ASSUME Core, Pool PROVE BlockInOnePlace
  <2>0. PICK n \in 0 .. N : \E f \in [1 .. n -> Blocks] :
           ListIs(n, f) /\ \A b \in Blocks : Unused(b) <=> \E i \in 1 .. n : f[i] = b
    BY <1>1 DEF Pool, FreeList
  <2>1. PICK f \in [1 .. n -> Blocks] :
           ListIs(n, f) /\ \A b \in Blocks : Unused(b) <=> \E i \in 1 .. n : f[i] = b
    BY <2>0
  <2>2. Free = {f[i] : i \in 1 .. n}
    BY <2>1, ReachedIs
  <2>3. \A b \in Blocks : b \in Free <=> Unused(b)
    BY <2>1, <2>2
  <2>4. ASSUME NEW b \in Blocks
        PROVE  LET carried == Cardinality(Carriers(b))
               IN  IF b \in Free THEN carried = 0 /\ References(b) = 0
                   ELSE IF References(b) = 0 THEN carried = 1 ELSE carried = 0
    <3>1. /\ References(b) = ref_count[b]
          /\ Cardinality(Carriers(b)) = One(\E p \in Procs : Carries(p, b))
      BY <1>1, ReferencesAre
    <3>2. Unused(b) <=> ref_count[b] = 0 /\ ~\E p \in Procs : Carries(p, b)
      BY DEF Unused
    <3>3. (\E p \in Procs : Carries(p, b)) => ref_count[b] = 0
      BY <1>1 DEF Pool, CarriedOnce
    <3> QED
      BY <2>3, <3>1, <3>2, <3>3 DEF One
  <2>5. Blocks \ Free = Taken
    BY <2>3 DEF Taken
  <2> QED
    BY <1>1, <2>4, <2>5 DEF BlockInOnePlace, Pool, Tally
<1>2. IInv => BlockInOnePlace
    BY <1>1 DEF IInv, BlockInOnePlace
<1> QED
    BY <1>2, Invariant, PTL

\* The receive queue gives the messages in the order in which their slots were
\* claimed, and its other slots are clear, until a full queue is overrun; and
\* that takes a torn list.
THEOREM QueueInOrder == Spec => []QueueIsFifo
<1>1. IInv => QueueIsFifo
    BY PositionsInOrder DEF IInv, Core, Types, Pool, QueueIsFifo
<1> QED
    BY <1>1, Invariant, PTL

\* No message waits in the queue unannounced while the link thread sleeps.
THEOREM NobodyStranded == Spec => []NoneStranded
<1>1. IInv => NoneStranded
    BY DEF IInv, Core
<1> QED
    BY <1>1, Invariant, PTL
=============================================================================
