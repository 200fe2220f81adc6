--------------------------- MODULE IpcLinkProofs ---------------------------
(***************************************************************************)
(* What holds of IpcLink for any number of workers, sockets, table entries *)
(* and ring slots: its types, that the transmit ring keeps what it         *)
(* accepted in order until the kernel takes it, and that a congested link  *)
(* has packets to send.                                                    *)
(***************************************************************************)
EXTENDS IpcLink, FiniteSetTheorems, SequenceTheorems, WellFoundedInduction, TLAPS

Fds == {ListenFd} \cup Sockets

\* The descriptor table, with the kernel's side that TypeOK leaves out.
TableOk(T) ==
    T \in [entries : [1 .. TableSize -> [fd : Fds, callback : Callbacks]],
           count   : 0 .. TableSize,
           watch   : [Fds -> [slot : 0 .. TableSize, et : BOOLEAN]]]

\* A worker that sets its socket up holds the link's lock: it is alone, and
\* the message it came with still counts against the bound.
RegisterAlone ==
    \A w \in SettingUp :
        /\ seen[w].fd \in Sockets
        /\ accepted < MaxMsgs
        /\ \A v \in SettingUp : v = w

\* TypeOK by the variables that change together.
LinkType ==
    /\ fd \in {NoFd} \cup Sockets /\ is_connected \in BOOLEAN /\ is_congested \in BOOLEAN
QueueType ==
    /\ tx_queue \in Seq(0 .. MaxMsgs) /\ Len(tx_queue) < RingSize
    /\ accepted \in 0 .. MaxMsgs /\ sent \in 0 .. MaxMsgs
SockType == [state : {"closed", "live", "dead"}, tx : 0 .. SockBuf,
             rx : Seq({"hello", "data"})]
KernelType == sock \in [Sockets -> SockType] /\ edge \subseteq Sockets
PeerType == backlog \in {"none", "live", "dead"} /\ peer \in {"up", "down"}
WorkerType ==
    /\ wpc \in [Workers -> {"idle", "connected", "register", "tx"}]
    /\ seen \in [Workers -> [fd : {NoFd} \cup Sockets, count : 0 .. TableSize]]
MgmtType ==
    /\ mpc \in {"wait", "dispatch", "accept", "tx", "recv", "drop", "forget_fd", "forget_link"}
    /\ cur \in [fd : Fds, callback : Callbacks]
    /\ events \subseteq Fds \X (1 .. TableSize)

LinkInv == LinkType /\ QueueType /\ CongestedHasBacklog /\ RingInOrder
WorkerInv == WorkerType /\ RegisterAlone

IInv == LinkInv /\ WorkerInv /\ KernelType /\ PeerType /\ MgmtType /\ TableOk(table)
-----------------------------------------------------------------------------
(* Least and greatest numbers. *)

\* A set of naturals has a least element.
LEMMA LeastNatural ==
    ASSUME NEW T, T \subseteq Nat, T # {}
    PROVE  \E m \in T : \A l \in T : m <= l
  <1>1. PICK m \in T : \A l \in T : ~(<<l, m>> \in OpToRel(<, Nat))
    BY NatLessThanWellFounded, WFMin, Zenon
  <1>2. \A l \in T : ~(<<l, m>> \in {ss \in Nat \X Nat : ss[1] < ss[2]})
    BY <1>1, Zenon DEF OpToRel
  <1>3. \A l \in T : ~(l < m)
    BY <1>2
  <1> QED
    BY <1>3

\* A set of positions has a last one.
LEMMA LastPosition ==
    ASSUME NEW n \in Nat, NEW S \in SUBSET (1 .. n), S # {}
    PROVE  \E m \in S : \A k \in S : k <= m
  <1> DEFINE D == {n - i : i \in S}
  <1>1. D \subseteq Nat /\ D # {}
    <2>1. \A i \in S : n - i \in Nat
      OBVIOUS
    <2> QED
      BY <2>1
  <1>2. PICK d \in D : \A k \in D : d <= k
    BY <1>1, LeastNatural
  <1>3. PICK m \in S : d = n - m
    BY <1>2
  <1>4. \A k \in S : k <= m
    <2> TAKE k \in S
    <2>1. n - k \in D
      OBVIOUS
    <2>2. n - m <= n - k
      BY <2>1, <1>2, <1>3
    <2> QED
      BY <2>2
  <1> QED
    BY <1>4
-----------------------------------------------------------------------------
(* The ring: q holds in order the messages after the s-th, up to the a-th. *)

Ring(q, s, a) ==
    /\ s <= a
    /\ {q[i] : i \in MessagesAt(q)} = s + 1 .. a
    /\ \A i, j \in MessagesAt(q) : i < j => q[i] < q[j]

LEMMA RingIs ==
    ASSUME NEW q, NEW s \in Nat, NEW a \in Nat, s <= a,
           \A i \in MessagesAt(q) : q[i] \in s + 1 .. a,
           \A v \in s + 1 .. a : \E i \in MessagesAt(q) : q[i] = v,
           \A i, j \in MessagesAt(q) : i < j => q[i] < q[j]
    PROVE  Ring(q, s, a)
  <1>1. {q[i] : i \in MessagesAt(q)} = s + 1 .. a
    OBVIOUS
  <1> QED
    BY <1>1 DEF Ring

\* The messages among the first packets of the ring are the first ones: their
\* number says which message is the last of them.
LEMMA PrefixCounts ==
    ASSUME NEW q \in Seq(Nat), NEW s \in Nat, NEW a \in Nat, Ring(q, s, a),
           NEW n \in 0 .. Len(q)
    PROVE  LET t == s + MessagesIn(SubSeq(q, 1, n))
               P == {i \in MessagesAt(q) : i <= n}
           IN  /\ t \in s .. a
               /\ {q[i] : i \in P} = s + 1 .. t
  <1> DEFINE P == {i \in MessagesAt(q) : i <= n}
             p == SubSeq(q, 1, n)
  <1>1. /\ p \in Seq(Nat) /\ Len(p) = n
        /\ \A i \in 1 .. n : p[i] = q[i]
    <2>1. \A i \in 1 .. n : q[i] \in Nat
      OBVIOUS
    <2> QED
      BY <2>1, SubSeqProperties
  <1>2. MessagesAt(p) = P
    BY <1>1 DEF MessagesAt
  <1>3. P \in SUBSET (1 .. n)
    BY DEF MessagesAt
  <1>4. CASE P = {}
    <2>1. MessagesIn(p) = 0
      BY <1>2, <1>4, FS_EmptySet DEF MessagesIn
    <2> QED
      BY <2>1, <1>4 DEF Ring
  <1>5. CASE P # {}
    <2>1. PICK g \in P : \A i \in P : i <= g
      <3>1. n \in Nat
        OBVIOUS
      <3> HIDE DEF P
      <3> QED
        BY <3>1, <1>3, <1>5, LastPosition
    <2> DEFINE m == q[g]
    <2>2. g \in MessagesAt(q) /\ m \in s + 1 .. a
      BY <2>1 DEF Ring
    <2>3. \A i \in P : q[i] \in s + 1 .. m
      <3> TAKE i \in P
      <3>1. q[i] \in s + 1 .. a /\ i \in MessagesAt(q)
        BY DEF Ring
      <3>2. i <= g /\ i \in Nat /\ g \in Nat
        BY <2>1, <1>3
      <3>3. i < g => q[i] < m
        BY <3>1, <2>2 DEF Ring
      <3> QED
        BY <3>1, <3>2, <3>3, <2>2
    <2>4. \A v \in s + 1 .. m : \E i \in P : q[i] = v
      <3> TAKE v \in s + 1 .. m
      <3>1. v \in s + 1 .. a
        BY <2>2
      <3>2. PICK i \in MessagesAt(q) : q[i] = v
        BY <3>1 DEF Ring
      <3>3. i \in Nat /\ g \in Nat /\ g <= n /\ n \in Nat
        BY <1>3, <2>1 DEF MessagesAt
      <3>4. i > g => FALSE
        <4>1. i > g => m < v
          BY <2>2, <3>2, <3>3 DEF Ring
        <4> QED
          BY <4>1, <2>2
      <3>5. i \in P
        BY <3>2, <3>3, <3>4
      <3> QED
        BY <3>2, <3>5
    <2> DEFINE f == [i \in P |-> q[i]]
    <2>5. f \in Bijection(P, s + 1 .. m)
      <3>1. f \in [P -> s + 1 .. m]
        BY <2>3
      <3>2. \A i, j \in P : i # j => f[i] # f[j]
        <4> TAKE i, j \in P
        <4>1. i \in MessagesAt(q) /\ j \in MessagesAt(q) /\ i \in Nat /\ j \in Nat
          BY <1>3
        <4>2. q[i] \in Nat /\ q[j] \in Nat
          BY <4>1 DEF MessagesAt
        <4>3. (i < j => q[i] < q[j]) /\ (j < i => q[j] < q[i])
          BY <4>1 DEF Ring
        <4> QED
          BY <4>1, <4>2, <4>3
      <3>3. \A v \in s + 1 .. m : \E i \in P : f[i] = v
        BY <2>4
      <3> QED
        BY <3>1, <3>2, <3>3 DEF Bijection, Injection, Surjection, IsInjective
    <2>6. IsFiniteSet(P)
      <3>1. IsFiniteSet(1 .. n)
        BY FS_Interval
      <3> QED
        BY <3>1, <1>3, FS_Subset
    <2>7. Cardinality(s + 1 .. m) = Cardinality(P)
      BY <2>5, <2>6, FS_Bijection DEF ExistsBijection
    <2>8. Cardinality(s + 1 .. m) = m - s
      <3>1. s + 1 \in Int /\ m \in Int /\ ~(s + 1 > m) /\ m - (s + 1) + 1 = m - s
        BY <2>2
      <3> QED
        BY <3>1, FS_Interval
    <2>9. s + MessagesIn(p) = m
      <3>1. MessagesIn(p) = m - s
        BY <2>7, <2>8, <1>2 DEF MessagesIn
      <3> HIDE DEF p
      <3> QED
        BY <3>1, <2>2
    <2>10. {q[i] : i \in P} = s + 1 .. m
      BY <2>3, <2>4
    <2> QED
      BY <2>9, <2>10, <2>2
  <1> QED
    BY <1>4, <1>5

\* What the kernel takes from the front is counted, and the rest stays.
LEMMA RingAfterTaking ==
    ASSUME NEW q \in Seq(Nat), NEW s \in Nat, NEW a \in Nat, Ring(q, s, a),
           NEW n \in 0 .. Len(q)
    PROVE  Ring(SubSeq(q, n + 1, Len(q)), s + MessagesIn(SubSeq(q, 1, n)), a)
  <1> DEFINE P == {i \in MessagesAt(q) : i <= n}
             r == SubSeq(q, n + 1, Len(q))
  <1>0. \A i \in MessagesAt(q) : i \in Nat
    BY DEF MessagesAt
  <1>1. PICK t : t = s + MessagesIn(SubSeq(q, 1, n))
    OBVIOUS
  <1>2. t \in s .. a /\ {q[i] : i \in P} = s + 1 .. t
    BY <1>1, PrefixCounts
  <1>3. /\ r \in Seq(Nat) /\ Len(r) = Len(q) - n
        /\ \A i \in 1 .. Len(q) - n : r[i] = q[n + i]
    <2>1. n + 1 \in Int /\ Len(q) \in Nat /\ \A i \in n + 1 .. Len(q) : q[i] \in Nat
      OBVIOUS
    <2>2. /\ r \in Seq(Nat)
          /\ Len(r) = IF n + 1 <= Len(q) THEN Len(q) - (n + 1) + 1 ELSE 0
          /\ \A i \in 1 .. Len(q) - (n + 1) + 1 : r[i] = q[(n + 1) + i - 1]
      BY <2>1, SubSeqProperties
    <2> QED
      BY <2>1, <2>2
  <1>4. \A i \in MessagesAt(r) : n + i \in MessagesAt(q) /\ r[i] = q[n + i] /\ i \in Nat
    <2> TAKE i \in MessagesAt(r)
    <2>1. i \in 1 .. Len(q) - n /\ r[i] = q[n + i] /\ r[i] # Hello
      <3>1. DOMAIN r = 1 .. Len(q) - n
        BY <1>3, LenProperties
      <3> HIDE DEF r
      <3>2. i \in DOMAIN r /\ r[i] # Hello
        BY DEF MessagesAt
      <3> QED
        BY <3>1, <3>2, <1>3
    <2>2. n + i \in 1 .. Len(q)
      BY <2>1
    <2> QED
      BY <2>1, <2>2 DEF MessagesAt
  <1>5. \A i, j \in MessagesAt(r) : i < j => r[i] < r[j]
    <2> TAKE i, j \in MessagesAt(r)
    <2>1. i < j => n + i < n + j
      BY <1>4
    <2> QED
      BY <2>1, <1>4 DEF Ring
  <1>6. ASSUME NEW i \in MessagesAt(r)
        PROVE  r[i] \in t + 1 .. a
    <2>1. n + i \in MessagesAt(q) /\ r[i] = q[n + i] /\ i \in Nat /\ i >= 1
      BY <1>4, <1>3 DEF MessagesAt
    <2>2. r[i] \in s + 1 .. a
      BY <2>1 DEF Ring
    <2>3. r[i] \notin s + 1 .. t
      <3> SUFFICES ASSUME r[i] \in s + 1 .. t PROVE FALSE
        OBVIOUS
      <3>1. PICK j \in P : q[j] = r[i]
        BY <1>2
      <3>2. j \in MessagesAt(q) /\ j \in Nat /\ j < n + i
        <4>1. j \in MessagesAt(q) /\ j <= n
          BY <3>1
        <4>2. j \in Nat
          BY <4>1, <1>0
        <4>3. n \in Nat
          OBVIOUS
        <4> HIDE DEF P
        <4> QED
          BY <4>1, <4>2, <4>3, <2>1
      <3>3. q[j] < q[n + i]
        BY <3>2, <2>1 DEF Ring
      <3>4. r[i] < r[i]
        BY <3>1, <3>3, <2>1
      <3> HIDE DEF r, P
      <3> QED
        BY <3>4, <2>2
    <2>4. t \in Int /\ s \in Int /\ a \in Int
      BY <1>2
    <2> HIDE DEF r, P
    <2> QED
      BY <2>2, <2>3, <2>4
  <1>7. ASSUME NEW v \in t + 1 .. a
        PROVE  \E i \in MessagesAt(r) : r[i] = v
    <2>1. v \in s + 1 .. a
      BY <1>2
    <2>2. PICK j \in MessagesAt(q) : q[j] = v
      BY <2>1 DEF Ring
    <2>3. j \notin P
      <3> SUFFICES ASSUME j \in P PROVE FALSE
        OBVIOUS
      <3>1. q[j] \in s + 1 .. t
        BY <1>2
      <3> QED
        BY <3>1, <2>2, <1>2
    <2>4. j \in 1 .. Len(q) /\ j > n /\ q[j] # Hello
      BY <2>2, <2>3 DEF MessagesAt
    <2>5. j - n \in 1 .. Len(q) - n /\ r[j - n] = q[j]
      <3>1. j - n \in 1 .. Len(q) - n /\ n + (j - n) = j
        BY <2>4
      <3> QED
        BY <3>1, <1>3
    <2>6. j - n \in MessagesAt(r)
      BY <2>4, <2>5, <1>3 DEF MessagesAt
    <2> QED
      BY <2>2, <2>5, <2>6
  <1> QED
    <2>1. t \in Nat /\ t <= a
      BY <1>2
    <2>2. /\ \A i \in MessagesAt(r) : r[i] \in t + 1 .. a
          /\ \A v \in t + 1 .. a : \E i \in MessagesAt(r) : r[i] = v
          /\ \A i, j \in MessagesAt(r) : i < j => r[i] < r[j]
      BY <1>5, <1>6, <1>7
    <2> HIDE DEF r
    <2>3. Ring(r, t, a)
      BY <2>1, <2>2, RingIs
    <2> QED
      BY <2>3, <1>1 DEF r

\* A message goes in behind the others; a HELLO changes none of them.
LEMMA RingAppends ==
    ASSUME NEW q \in Seq(Nat), NEW s \in Nat, NEW a \in Nat, Ring(q, s, a)
    PROVE  /\ Ring(Append(q, Hello), s, a)
           /\ Ring(Append(q, a + 1), s, a + 1)
  <1>1. /\ Len(q) \in Nat /\ Hello = 0
        /\ \A x \in Nat : /\ Append(q, x) \in Seq(Nat) /\ Len(Append(q, x)) = Len(q) + 1
                          /\ Append(q, x)[Len(q) + 1] = x
                          /\ \A i \in 1 .. Len(q) : Append(q, x)[i] = q[i]
    BY DEF Hello
  <1>2. MessagesAt(Append(q, Hello)) = MessagesAt(q)
    BY <1>1 DEF MessagesAt
  <1>3. \A i \in MessagesAt(q) : i \in 1 .. Len(q) /\ q[i] \in s + 1 .. a
    BY DEF MessagesAt, Ring
  <1>4. Ring(Append(q, Hello), s, a)
    <2>1. \A i \in MessagesAt(q) : Append(q, Hello)[i] = q[i]
      BY <1>1, <1>3
    <2> DEFINE h == Append(q, Hello)
    <2>2. \A i \in MessagesAt(h) : i \in MessagesAt(q) /\ h[i] = q[i]
      BY <1>2, <2>1
    <2>3. s <= a /\ \A v \in s + 1 .. a : \E i \in MessagesAt(h) : h[i] = v
      BY <1>2, <2>1 DEF Ring
    <2>4. \A i \in MessagesAt(h) : h[i] \in s + 1 .. a
      BY <2>2, <1>3
    <2>5. \A i, j \in MessagesAt(h) : i < j => h[i] < h[j]
      BY <2>2 DEF Ring
    <2> HIDE DEF h
    <2>6. Ring(h, s, a)
      BY <2>3, <2>4, <2>5, RingIs
    <2> QED
      BY <2>6 DEF h
  <1> DEFINE u == Append(q, a + 1)
             l == Len(q) + 1
  <1>5. u[l] = a + 1 /\ \A i \in 1 .. Len(q) : u[i] = q[i]
    BY <1>1
  <1>6. MessagesAt(u) = MessagesAt(q) \cup {l}
    BY <1>1, <1>5 DEF MessagesAt
  <1>7. Ring(u, s, a + 1)
    <2>1. {u[i] : i \in MessagesAt(u)} = {q[i] : i \in MessagesAt(q)} \cup {a + 1}
      BY <1>5, <1>6, <1>3
    <2>2. {u[i] : i \in MessagesAt(u)} = s + 1 .. a + 1
      <3>1. (s + 1 .. a) \cup {a + 1} = s + 1 .. a + 1
        BY DEF Ring
      <3> QED
        BY <2>1, <3>1 DEF Ring
    <2>3. \A i, j \in MessagesAt(u) : i < j => u[i] < u[j]
      <3> TAKE i, j \in MessagesAt(u)
      <3>1. CASE j = l
        <4>1. i < j => i \in MessagesAt(q)
          BY <1>6, <3>1
        <4> QED
          BY <4>1, <3>1, <1>3, <1>5
      <3>2. CASE j # l
        <4>1. j \in MessagesAt(q)
          BY <1>6, <3>2
        <4>2. i < j => i \in MessagesAt(q)
          BY <4>1, <1>6, <1>3, <1>1
        <4> QED
          BY <4>1, <4>2, <1>3, <1>5 DEF Ring
      <3> QED
        BY <3>1, <3>2
    <2>4. s <= a + 1 /\ a + 1 \in Nat
      BY DEF Ring
    <2> HIDE DEF u
    <2>5. /\ \A i \in MessagesAt(u) : u[i] \in s + 1 .. a + 1
          /\ \A v \in s + 1 .. a + 1 : \E i \in MessagesAt(u) : u[i] = v
      BY <2>2
    <2> QED
      BY <2>3, <2>4, <2>5, RingIs
  <1> QED
    BY <1>4, <1>7
-----------------------------------------------------------------------------
(* The descriptor table and the kernel's calls. *)

TableKeepsType(T, n, f, c, e, o) == TableOk(Fd!AddFdAt(T, n, f, c, e, o))

\* nos_scheduler_add_fd_ex writes inside the table, whatever count it read.
LEMMA AddFdAtTyped ==
    ASSUME NEW T, TableOk(T), NEW n \in 0 .. TableSize, NEW f \in Fds,
           NEW c \in Callbacks, NEW e \in BOOLEAN, NEW o \in BOOLEAN
    PROVE  TableOk(Fd!AddFdAt(T, n, f, c, e, o))
  <1>1. CASE n >= TableSize
    BY <1>1 DEF Fd!AddFdAt
  <1>2. CASE ~(n >= TableSize)
    <2> DEFINE new == [fd |-> f, callback |-> c]
               E == [T.entries EXCEPT ![n + 1] = new]
               W == IF o /\ ~Fd!Watched(T, f)
                    THEN [T.watch EXCEPT ![f] = [slot |-> n + 1, et |-> e]] ELSE T.watch
    <2>1. n + 1 \in 1 .. TableSize /\ n + 1 \in 0 .. TableSize
      BY <1>2, KernelAssumption
    <2>2. T.entries \in [1 .. TableSize -> [fd : Fds, callback : Callbacks]]
      BY DEF TableOk
    <2>3. T.watch \in [Fds -> [slot : 0 .. TableSize, et : BOOLEAN]]
      BY DEF TableOk
    <2>4. E \in [1 .. TableSize -> [fd : Fds, callback : Callbacks]]
      <3>1. new \in [fd : Fds, callback : Callbacks]
        OBVIOUS
      <3> HIDE DEF new
      <3> QED
        BY <3>1, <2>1, <2>2
    <2>5. W \in [Fds -> [slot : 0 .. TableSize, et : BOOLEAN]]
      <3>1. [slot |-> n + 1, et |-> e] \in [slot : 0 .. TableSize, et : BOOLEAN]
        BY <2>1
      <3> QED
        BY <3>1, <2>3
    <2>6. Fd!AddFdAt(T, n, f, c, e, o) = [entries |-> E, count |-> n + 1, watch |-> W]
      BY <1>2 DEF Fd!AddFdAt
    <2> HIDE DEF E, W
    <2> QED
      BY <2>1, <2>4, <2>5, <2>6 DEF TableOk
  <1> QED
    BY <1>1, <1>2

LEMMA AddFdTyped ==
    ASSUME NEW T, TableOk(T), NEW f \in Fds, NEW c \in Callbacks, NEW e \in BOOLEAN
    PROVE  TableOk(Fd!AddFd(T, f, c, e))
  <1>1. T.count \in 0 .. TableSize
    BY DEF TableOk
  <1> QED
    BY <1>1, AddFdAtTyped DEF Fd!AddFd

LEMMA UnwatchTyped ==
    ASSUME NEW T, TableOk(T), NEW f \in Fds
    PROVE  /\ TableOk(Fd!Unwatch(T, f))
           /\ Fd!Unwatch(T, f).entries = T.entries
           /\ Fd!Unwatch(T, f).count = T.count
  <1>1. Fd!NotWatched \in [slot : 0 .. TableSize, et : BOOLEAN]
    BY KernelAssumption DEF Fd!NotWatched
  <1>2. [T.watch EXCEPT ![f] = Fd!NotWatched] \in [Fds -> [slot : 0 .. TableSize, et : BOOLEAN]]
    BY <1>1 DEF TableOk
  <1>3. Fd!Unwatch(T, f) =
            [entries |-> T.entries, count |-> T.count,
             watch |-> [T.watch EXCEPT ![f] = Fd!NotWatched]]
    <2>1. PICK W : W = [T.watch EXCEPT ![f] = Fd!NotWatched]
      OBVIOUS
    <2>2. Fd!Unwatch(T, f) = [T EXCEPT !.watch = W]
      BY <2>1 DEF Fd!Unwatch, TableOk
    <2> QED
      BY <2>1, <2>2 DEF TableOk
  <1> QED
    BY <1>2, <1>3 DEF TableOk

\* nos_scheduler_remove_fd takes the first entry of the descriptor out.
LEMMA RemoveFdTyped ==
    ASSUME NEW T, TableOk(T), NEW f \in Fds
    PROVE  TableOk(Fd!RemoveFd(T, f))
  <1> DEFINE S == Fd!SlotsOf(T, f)
             U == Fd!Unwatch(T, f)
  <1>1. TableOk(U) /\ U.entries = T.entries /\ U.count = T.count
    BY UnwatchTyped
  <1>2. CASE S = {}
    BY <1>1, <1>2 DEF Fd!RemoveFd
  <1>3. CASE S # {}
    <2>1. PICK i : i = CHOOSE s \in S : \A r \in S : s <= r
      OBVIOUS
    <2>2. S \subseteq 1 .. T.count /\ T.count \in 0 .. TableSize
      BY DEF Fd!SlotsOf, TableOk
    <2>3. S \subseteq Nat
      BY <2>2
    <2>4. i \in S
      <3> HIDE DEF S
      <3>1. \E s \in S : \A r \in S : s <= r
        BY <1>3, <2>3, LeastNatural
      <3> QED
        BY <2>1, <3>1
    <2>5. i \in 1 .. TableSize /\ T.count \in 1 .. TableSize /\ T.count - 1 \in 0 .. TableSize
      BY <2>2, <2>4, KernelAssumption
    <2>6. Fd!RemoveFd(T, f) =
              [U EXCEPT !.entries[i] = T.entries[T.count], !.count = T.count - 1]
      BY <1>3, <2>1 DEF Fd!RemoveFd
    <2>7. T.entries \in [1 .. TableSize -> [fd : Fds, callback : Callbacks]]
      BY DEF TableOk
    <2>8. [T.entries EXCEPT ![i] = T.entries[T.count]]
              \in [1 .. TableSize -> [fd : Fds, callback : Callbacks]]
      BY <2>5, <2>7
    <2>9. U.watch \in [Fds -> [slot : 0 .. TableSize, et : BOOLEAN]]
      BY <1>1 DEF TableOk
    <2>10. Fd!RemoveFd(T, f) =
               [entries |-> [T.entries EXCEPT ![i] = T.entries[T.count]],
                count |-> T.count - 1, watch |-> U.watch]
      <3> HIDE DEF U
      <3>1. PICK X : X = [T.entries EXCEPT ![i] = T.entries[T.count]]
        OBVIOUS
      <3>2. [U EXCEPT !.entries[i] = T.entries[T.count], !.count = T.count - 1]
                = [U EXCEPT !.entries = X, !.count = T.count - 1]
        BY <1>1, <3>1 DEF TableOk
      <3> QED
        BY <2>6, <1>1, <3>1, <3>2 DEF TableOk
    <2> HIDE DEF U
    <2> QED
      BY <2>5, <2>8, <2>9, <2>10 DEF TableOk
  <1> QED
    BY <1>2, <1>3

\* The kernel gives the lowest free number.
LEMMA LowestFreeIsFree ==
    ASSUME FreeFds # {}
    PROVE  LowestFree \in FreeFds /\ LowestFree \in Sockets
  <1>1. FreeFds \subseteq Nat /\ FreeFds \subseteq Sockets
    BY KernelAssumption DEF FreeFds, Sockets
  <1>2. \E s \in FreeFds : \A r \in FreeFds : s <= r
    BY <1>1, LeastNatural
  <1> QED
    BY <1>1, <1>2 DEF LowestFree

LEMMA Constants ==
    /\ NoFd = -1 /\ ListenFd = 0 /\ Hello = 0
    /\ NoFd \notin Sockets /\ ListenFd \notin Sockets /\ ListenFd \in Fds
    /\ Sockets \subseteq Fds /\ Sockets \subseteq Nat
    /\ Callbacks = {"accept", "passive", "event"}
  BY KernelAssumption DEF NoFd, ListenFd, Hello, Sockets, Fds, Callbacks
-----------------------------------------------------------------------------
(* The invariant at the start, and what it says. *)

LEMMA PartsAreType == IInv => TypeOK
  <1>1. TableOk(table) =>
            /\ table.entries \in [1 .. TableSize -> [fd : Fds, callback : Callbacks]]
            /\ table.count \in 0 .. TableSize
    BY DEF TableOk
  <1> QED
    BY <1>1 DEF IInv, LinkInv, WorkerInv, LinkType, QueueType, KernelType, SockType, PeerType,
                WorkerType, MgmtType, Fds, TypeOK

LEMMA ClosedTyped == Closed \in SockType
  BY KernelAssumption DEF Closed, SockType

LEMMA OpenedTyped ==
    ASSUME NEW s \in {"live", "dead"}, NEW rx \in Seq({"hello", "data"})
    PROVE  Opened(s, rx) \in SockType
  BY KernelAssumption DEF Opened, SockType

LEMMA InitHolds == Init => IInv
  <1> SUFFICES ASSUME Init PROVE IInv
    OBVIOUS
  <1>1. LinkInv
    <2>1. MessagesAt(<<>>) = {}
      BY DEF MessagesAt
    <2>2. RingInOrder
      BY <2>1 DEF Init, RingInOrder
    <2>3. <<>> \in Seq(0 .. MaxMsgs) /\ Len(<<>>) = 0
      BY EmptySeq
    <2>4. QueueType
      BY <2>3, RingAssumption, BoundAssumption DEF Init, QueueType
    <2>5. LinkType /\ CongestedHasBacklog
      BY DEF Init, LinkType, CongestedHasBacklog
    <2> QED
      BY <2>2, <2>4, <2>5 DEF LinkInv
  <1>2. WorkerInv
    BY KernelAssumption DEF Init, WorkerInv, WorkerType, RegisterAlone, SettingUp, NothingSeen
  <1>3. KernelType
    BY ClosedTyped DEF Init, KernelType
  <1>4. PeerType
    BY DEF Init, PeerType
  <1>5. MgmtType
    BY Constants DEF Init, MgmtType, NoEntry
  <1>6. TableOk(table)
    <2> DEFINE T == [entries |-> [i \in 1 .. TableSize |-> NoEntry], count |-> 0,
                     watch |-> [f \in {ListenFd} \cup Sockets |-> Fd!NotWatched]]
    <2>1. TableOk(T)
      <3>1. NoEntry \in [fd : Fds, callback : Callbacks]
        BY Constants DEF NoEntry
      <3>2. Fd!NotWatched \in [slot : 0 .. TableSize, et : BOOLEAN]
        BY KernelAssumption DEF Fd!NotWatched
      <3> QED
        BY <3>1, <3>2, KernelAssumption DEF TableOk, Fds
    <2>2. TableOk(Fd!AddFd(T, ListenFd, "accept", FALSE))
      <3> HIDE DEF T
      <3> QED
        BY <2>1, Constants, AddFdTyped
    <2> QED
      BY <2>2 DEF Init
  <1> QED
    BY <1>1, <1>2, <1>3, <1>4, <1>5, <1>6 DEF IInv
-----------------------------------------------------------------------------
(* nos_ipc_process_tx and the tail of nos_ipc_send_enqueue_ex. *)

LEMMA QueueOfNats ==
    ASSUME NEW q \in Seq(0 .. MaxMsgs)
    PROVE  q \in Seq(Nat)
  <1>1. 0 .. MaxMsgs \subseteq Nat
    BY BoundAssumption
  <1> QED
    BY <1>1, SeqMonotonic

\* close leaves the sockets and the table typed.
LEMMA CloseFdTyped ==
    ASSUME KernelType, NEW T, TableOk(T), NEW s \in Fds, CloseFd(T, s)
    PROVE  KernelType' /\ TableOk(table')
  <1>1. TableOk(Fd!Unwatch(T, s))
    BY UnwatchTyped
  <1>2. TableOk(table')
    BY <1>1 DEF CloseFd
  <1>3. KernelType'
    BY ClosedTyped DEF CloseFd, IsOpen, KernelType
  <1> QED
    BY <1>2, <1>3

LEMMA DrainKeeps ==
    ASSUME IInv, Drain
    PROVE  LinkInv' /\ KernelType' /\ TableOk(table')
  <1> DEFINE room == SockBuf - sock[fd].tx
             n == IF tx_queue = <<>> THEN 0 ELSE Least(Len(tx_queue), room)
  <1>1. /\ tx_queue \in Seq(0 .. MaxMsgs) /\ tx_queue \in Seq(Nat) /\ Len(tx_queue) \in Nat
        /\ sent \in 0 .. MaxMsgs /\ accepted \in 0 .. MaxMsgs /\ Ring(tx_queue, sent, accepted)
        /\ Len(tx_queue) < RingSize
    BY QueueOfNats DEF IInv, LinkInv, QueueType, RingInOrder, Ring
  <1>2. tx_queue # <<>> => /\ fd \in Sockets /\ sock[fd] \in SockType /\ room \in 0 .. SockBuf
                           /\ sock[fd].tx \in 0 .. SockBuf
    BY KernelAssumption DEF Drain, IsLive, IInv, KernelType, SockType
  <1>3. /\ n \in 0 .. Len(tx_queue)
        /\ n # 0 => fd \in Sockets /\ sock[fd].tx + n \in 0 .. SockBuf
    <2>1. CASE tx_queue = <<>>
      BY <2>1, <1>1
    <2>2. CASE tx_queue # <<>>
      <3>1. PICK l : l = Len(tx_queue)
        OBVIOUS
      <3>2. PICK x : x = sock[fd].tx
        OBVIOUS
      <3>3. n = IF l <= SockBuf - x THEN l ELSE SockBuf - x
        BY <2>2, <3>1, <3>2 DEF Least
      <3>4. l \in Nat /\ SockBuf \in Nat /\ x \in 0 .. SockBuf
        BY <2>2, <3>1, <3>2, <1>1, <1>2, KernelAssumption
      <3>5. n \in 0 .. l /\ x + n \in 0 .. SockBuf
        <4> HIDE DEF n
        <4> QED
          BY <3>3, <3>4
      <3> QED
        BY <3>1, <3>2, <3>5, <1>2, <2>2
    <2> QED
      BY <2>1, <2>2
  <1>4. PICK k : k = n
    OBVIOUS
  <1>5. /\ tx_queue' = SubSeq(tx_queue, k + 1, Len(tx_queue))
        /\ sock' = IF k = 0 THEN sock ELSE [sock EXCEPT ![fd].tx = @ + k]
        /\ sent' = sent + MessagesIn(SubSeq(tx_queue, 1, k))
        /\ is_congested' = (is_congested /\ tx_queue' # <<>>)
        /\ UNCHANGED <<fd, is_connected, table, edge, accepted>>
    BY <1>4 DEF Drain
  <1>6. k \in 0 .. Len(tx_queue) /\ (k # 0 => fd \in Sockets /\ sock[fd].tx + k \in 0 .. SockBuf)
    BY <1>3, <1>4
  <1> HIDE DEF n, room
  <1>7. RingInOrder'
    <2>1. Ring(tx_queue', sent', accepted)
      BY <1>1, <1>5, <1>6, BoundAssumption, RingAfterTaking
    <2> QED
      BY <2>1, <1>5 DEF Ring, RingInOrder
  <1>8. QueueType'
    <2>1. sent' \in 0 .. MaxMsgs
      <3>1. sent + MessagesIn(SubSeq(tx_queue, 1, k)) \in sent .. accepted
        BY <1>1, <1>6, BoundAssumption, PrefixCounts
      <3> QED
        BY <3>1, <1>1, <1>5, BoundAssumption
    <2>2. tx_queue' \in Seq(0 .. MaxMsgs) /\ Len(tx_queue') <= Len(tx_queue)
      <3>1. \A i \in k + 1 .. Len(tx_queue) : tx_queue[i] \in 0 .. MaxMsgs
        <4>1. \A i \in 1 .. Len(tx_queue) : tx_queue[i] \in 0 .. MaxMsgs
          BY <1>1, ElementOfSeq
        <4> QED
          BY <4>1, <1>1, <1>6
      <3>2. k + 1 \in Int /\ Len(tx_queue) \in Int
        BY <1>1, <1>6
      <3>3. /\ tx_queue' \in Seq(0 .. MaxMsgs)
            /\ Len(tx_queue') =
                  IF k + 1 <= Len(tx_queue) THEN Len(tx_queue) - (k + 1) + 1 ELSE 0
        BY <3>1, <3>2, <1>5, SubSeqProperties
      <3> QED
        BY <3>3, <1>1, <1>6
    <2>3. Len(tx_queue') \in Nat
      BY <2>2, LenProperties
    <2>4. Len(tx_queue') < RingSize
      <3>1. PICK x : x = Len(tx_queue')
        OBVIOUS
      <3>2. PICK y : y = Len(tx_queue)
        OBVIOUS
      <3>3. x \in Nat /\ y \in Nat /\ x <= y /\ y < RingSize
        BY <2>2, <2>3, <1>1, <3>1, <3>2
      <3>4. x < RingSize
        BY <3>3, RingAssumption
      <3> QED
        BY <3>1, <3>4
    <2>5. accepted' \in 0 .. MaxMsgs
      BY <1>1, <1>5
    <2> QED
      BY <2>1, <2>2, <2>4, <2>5 DEF QueueType
  <1>9. LinkType' /\ CongestedHasBacklog'
    BY <1>5 DEF IInv, LinkInv, LinkType, CongestedHasBacklog
  <1>10. KernelType'
    <2>1. CASE k = 0
      BY <2>1, <1>5 DEF IInv, KernelType
    <2>2. CASE k # 0
      <3>1. fd \in Sockets /\ sock[fd] \in SockType /\ sock[fd].tx + k \in 0 .. SockBuf
        BY <2>2, <1>6 DEF IInv, KernelType
      <3>2. PICK r : r = [sock[fd] EXCEPT !.tx = @ + k]
        OBVIOUS
      <3>3. r \in SockType
        BY <3>1, <3>2 DEF SockType
      <3>4. sock' = [sock EXCEPT ![fd] = r]
        BY <2>2, <1>5, <3>2, <3>1 DEF IInv, KernelType
      <3> QED
        BY <3>1, <3>3, <3>4, <1>5 DEF IInv, KernelType
    <2> QED
      BY <2>1, <2>2
  <1> QED
    BY <1>5, <1>7, <1>8, <1>9, <1>10 DEF LinkInv, IInv

LEMMA SendFailsKeeps ==
    ASSUME IInv, SendFails
    PROVE  LinkInv' /\ KernelType' /\ TableOk(table')
  <1>1. CloseFd(table, fd) /\ UNCHANGED <<tx_queue, counts>>
        /\ fd' = NoFd /\ is_connected' = FALSE /\ is_congested' = FALSE
    BY DEF SendFails
  <1>2. LinkInv'
    BY <1>1 DEF IInv, LinkInv, LinkType, QueueType, CongestedHasBacklog, RingInOrder, counts
  <1>3. KernelType' /\ TableOk(table')
    <2>1. CASE fd \in Sockets
      BY <1>1, <2>1, CloseFdTyped, Constants DEF IInv
    <2>2. CASE fd \notin Sockets
      BY <1>1, <2>2 DEF CloseFd, IsOpen, IInv, KernelType
    <2> QED
      BY <2>1, <2>2
  <1> QED
    BY <1>2, <1>3

LEMMA ProcessTxKeeps ==
    ASSUME IInv, ProcessTx
    PROVE  LinkInv' /\ KernelType' /\ TableOk(table') /\ UNCHANGED accepted
  <1>1. CASE Drain
    BY <1>1, DrainKeeps DEF Drain
  <1>2. CASE SendFails
    BY <1>2, SendFailsKeeps DEF SendFails, counts
  <1> QED
    BY <1>1, <1>2 DEF ProcessTx

\* What a worker offers is refused, or follows what is in the ring.
LEMMA OfferKeeps ==
    ASSUME NEW w \in Workers, WorkerType, LinkType, QueueType, accepted < MaxMsgs,
           NEW q \in Seq(0 .. MaxMsgs), Len(q) < RingSize, Ring(q, sent, accepted),
           is_congested => q # <<>>,
           Offer(w, q), UNCHANGED <<fd, is_connected, sent>>
    PROVE  /\ LinkInv'
           /\ wpc' \in [Workers -> {"idle", "connected", "register", "tx"}]
           /\ wpc'[w] \in {"idle", "tx"}
           /\ \A v \in Workers \ {w} : wpc'[v] = wpc[v]
  <1> DEFINE Refused == tx_queue' = q /\ wpc' = [wpc EXCEPT ![w] = "idle"] /\ accepted' = accepted
  <1>0. q \in Seq(Nat) /\ Len(q) \in Nat
    BY QueueOfNats
  <1>1. ASSUME Refused, is_congested' \in BOOLEAN, is_congested' => q # <<>>
        PROVE  LinkInv'
    <2>1. RingInOrder'
      BY <1>1 DEF Ring, RingInOrder
    <2> QED
      BY <1>1, <2>1 DEF LinkInv, LinkType, QueueType, CongestedHasBacklog
  <1>2. CASE ~is_connected /\ Refuse(w, q) /\ UNCHANGED is_congested
    BY <1>1, <1>2 DEF Refuse, WorkerType, LinkType
  <1>3. CASE is_connected /\ Len(q) > HighMark /\ Refuse(w, q) /\ is_congested' = TRUE
    <2>1. q # <<>>
      BY <1>3, RingAssumption, EmptySeq
    <2> QED
      BY <1>1, <1>3, <2>1 DEF Refuse, WorkerType
  <1>4. CASE /\ is_connected /\ Len(q) <= HighMark /\ RoomFor(q)
             /\ tx_queue' = Append(q, accepted + 1) /\ accepted' = accepted + 1
             /\ wpc' = [wpc EXCEPT ![w] = "tx"] /\ UNCHANGED is_congested
    <2>1. accepted \in Nat /\ sent \in Nat /\ accepted + 1 \in 0 .. MaxMsgs
      BY BoundAssumption DEF QueueType
    <2>2. tx_queue' \in Seq(0 .. MaxMsgs) /\ Len(tx_queue') = Len(q) + 1
      BY <1>4, <2>1
    <2>3. RingInOrder'
      <3>1. Ring(tx_queue', sent, accepted')
        BY <1>4, <1>0, <2>1, RingAppends
      <3> QED
        BY <3>1 DEF Ring, RingInOrder
    <2>4. QueueType'
      BY <1>4, <1>0, <2>1, <2>2, RingAssumption DEF RoomFor, QueueType
    <2>5. tx_queue' # <<>>
      BY <2>2, <1>0, EmptySeq
    <2>6. LinkInv'
      BY <1>4, <2>3, <2>4, <2>5 DEF LinkInv, LinkType, CongestedHasBacklog
    <2> QED
      BY <1>4, <2>6 DEF WorkerType
  <1> QED
    BY <1>2, <1>3, <1>4 DEF Offer
-----------------------------------------------------------------------------
(* Every step keeps the invariant: the workers. *)

LEMMA EnqueueKeeps ==
    ASSUME IInv, NEW w \in Workers, Enqueue(w)
    PROVE  IInv'
  <1>1. /\ wpc[w] = "idle" /\ LockFree /\ accepted < MaxMsgs /\ Offer(w, tx_queue)
        /\ UNCHANGED <<fd, is_connected, table, kernel, environment, seen, mgmt, sent>>
    BY DEF Enqueue
  <1>2. /\ LinkInv'
        /\ wpc' \in [Workers -> {"idle", "connected", "register", "tx"}]
        /\ wpc'[w] \in {"idle", "tx"}
        /\ \A v \in Workers \ {w} : wpc'[v] = wpc[v]
    <2>1. /\ WorkerType /\ LinkType /\ QueueType /\ tx_queue \in Seq(0 .. MaxMsgs)
          /\ Len(tx_queue) < RingSize /\ Ring(tx_queue, sent, accepted)
          /\ (is_congested => tx_queue # <<>>)
      BY DEF IInv, LinkInv, WorkerInv, QueueType, RingInOrder, Ring, CongestedHasBacklog
    <2>2. UNCHANGED <<fd, is_connected, sent>>
      BY <1>1
    <2> QED
      BY <1>1, <2>1, <2>2, OfferKeeps
  <1>3. WorkerInv'
    <2>1. SettingUp' = {}
      BY <1>1, <1>2 DEF LockFree, SettingUp
    <2> QED
      BY <1>1, <1>2, <2>1 DEF WorkerInv, WorkerType, RegisterAlone, IInv
  <1>4. KernelType' /\ PeerType' /\ MgmtType' /\ TableOk(table')
    BY <1>1 DEF IInv, KernelType, PeerType, MgmtType, kernel, environment, mgmt
  <1> QED
    BY <1>2, <1>3, <1>4 DEF IInv

LEMMA ReconnectKeeps ==
    ASSUME IInv, NEW w \in Workers, Reconnect(w)
    PROVE  IInv'
  <1>1. LowestFree \in Sockets
    BY LowestFreeIsFree DEF Reconnect, CanConnect
  <1>2. PICK s \in Sockets : s = LowestFree
    BY <1>1
  <1>3. /\ wpc[w] = "idle" /\ LockFree /\ accepted < MaxMsgs
        /\ fd' = s
        /\ sock' = [sock EXCEPT ![s] = Opened("live", <<>>)]
        /\ wpc' = [wpc EXCEPT ![w] = "connected"]
        /\ seen' = [seen EXCEPT ![w].fd = s]
        /\ UNCHANGED <<is_connected, is_congested, tx_queue, table, edge, environment, mgmt, counts>>
    BY <1>2 DEF Reconnect
  <1>4. LinkInv'
    BY <1>3 DEF IInv, LinkInv, LinkType, QueueType, CongestedHasBacklog, RingInOrder, counts
  <1>5. WorkerInv'
    <2>2. WorkerType'
      BY <1>3 DEF IInv, WorkerInv, WorkerType
    <2>3. RegisterAlone'
      <3>1. SettingUp' = {w}
        BY <1>3 DEF LockFree, SettingUp, IInv, WorkerInv, WorkerType
      <3>2. seen'[w].fd = s
        BY <1>3 DEF IInv, WorkerInv, WorkerType
      <3> QED
        BY <1>3, <3>1, <3>2 DEF RegisterAlone, counts
    <2> QED
      BY <2>2, <2>3 DEF WorkerInv
  <1>6. KernelType'
    BY <1>3, OpenedTyped, EmptySeq DEF IInv, KernelType
  <1>7. PeerType' /\ MgmtType' /\ TableOk(table')
    BY <1>3 DEF IInv, PeerType, MgmtType, environment, mgmt
  <1> QED
    BY <1>4, <1>5, <1>6, <1>7 DEF IInv

LEMMA ConnectedKeeps ==
    ASSUME IInv, NEW w \in Workers, Connected(w)
    PROVE  IInv'
  <1>1. /\ wpc[w] = "connected" /\ wpc' = [wpc EXCEPT ![w] = "register"]
        /\ is_connected' = TRUE /\ is_congested' = FALSE
        /\ seen' = [seen EXCEPT ![w].count = table.count]
        /\ UNCHANGED <<fd, tx_queue, table, kernel, environment, mgmt, counts>>
    BY DEF Connected
  <1>2. LinkInv'
    BY <1>1 DEF IInv, LinkInv, LinkType, QueueType, CongestedHasBacklog, RingInOrder, counts
  <1>3. WorkerInv'
    <2>1. table.count \in 0 .. TableSize
      BY DEF IInv, TableOk
    <2>2. WorkerType' /\ seen'[w].fd = seen[w].fd
      BY <1>1, <2>1 DEF IInv, WorkerInv, WorkerType
    <2>3. SettingUp = {w} /\ seen[w].fd \in Sockets /\ accepted < MaxMsgs
      BY <1>1 DEF IInv, WorkerInv, RegisterAlone, SettingUp
    <2>4. SettingUp' = {w}
      BY <1>1, <2>3 DEF IInv, WorkerInv, WorkerType, SettingUp
    <2> QED
      BY <1>1, <2>2, <2>3, <2>4 DEF WorkerInv, RegisterAlone, counts
  <1> QED
    BY <1>1, <1>2, <1>3 DEF IInv, KernelType, PeerType, MgmtType, kernel, environment, mgmt

LEMMA RegisterKeeps ==
    ASSUME IInv, NEW w \in Workers, Register(w)
    PROVE  IInv'
  <1>1. PICK s : s = seen[w].fd
    OBVIOUS
  <1>2. PICK q : q = IF RoomFor(tx_queue) THEN Append(tx_queue, Hello) ELSE tx_queue
    OBVIOUS
  <1>3. /\ wpc[w] = "register"
        /\ table' = Fd!AddFdAt(table, seen[w].count, s, "event", TRUE, IsOpen(s))
        /\ edge' = IF Fd!Watched(table', s) THEN edge \cup {s} ELSE edge
        /\ seen' = [seen EXCEPT ![w] = NothingSeen]
        /\ Offer(w, q)
        /\ UNCHANGED <<fd, is_connected, sock, environment, mgmt, sent>>
    BY <1>1, <1>2 DEF Register
  <1>4. s \in Sockets /\ accepted < MaxMsgs /\ SettingUp = {w}
    BY <1>1, <1>3 DEF IInv, WorkerInv, RegisterAlone, SettingUp
  <1>5. /\ q \in Seq(0 .. MaxMsgs) /\ Len(q) < RingSize /\ Ring(q, sent, accepted)
        /\ (is_congested => q # <<>>)
    <2>1. /\ tx_queue \in Seq(0 .. MaxMsgs) /\ Len(tx_queue) < RingSize
          /\ Ring(tx_queue, sent, accepted) /\ sent \in Nat /\ accepted \in Nat
          /\ (is_congested => tx_queue # <<>>) /\ Len(tx_queue) \in Nat
      BY BoundAssumption DEF IInv, LinkInv, QueueType, RingInOrder, Ring, CongestedHasBacklog
    <2>2. CASE RoomFor(tx_queue)
      <3>1. Hello \in 0 .. MaxMsgs
        BY Constants, BoundAssumption
      <3>2. q \in Seq(0 .. MaxMsgs) /\ Len(q) = Len(tx_queue) + 1
        BY <1>2, <2>1, <2>2, <3>1
      <3>3. Ring(q, sent, accepted)
        BY <1>2, <2>1, <2>2, QueueOfNats, RingAppends
      <3>4. Len(q) < RingSize
        BY <2>1, <2>2, <3>2 DEF RoomFor
      <3>5. q # <<>>
        BY <3>2, <2>1, EmptySeq
      <3> QED
        BY <3>2, <3>3, <3>4, <3>5
    <2>3. CASE ~RoomFor(tx_queue)
      BY <1>2, <2>1, <2>3
    <2> QED
      BY <2>2, <2>3
  <1>6. /\ LinkInv'
        /\ wpc' \in [Workers -> {"idle", "connected", "register", "tx"}]
        /\ wpc'[w] \in {"idle", "tx"}
        /\ \A v \in Workers \ {w} : wpc'[v] = wpc[v]
    <2>1. WorkerType /\ LinkType /\ QueueType
      BY DEF IInv, LinkInv, WorkerInv
    <2>2. UNCHANGED <<fd, is_connected, sent>>
      BY <1>3
    <2> QED
      BY <1>3, <1>4, <1>5, <2>1, <2>2, OfferKeeps
  <1>7. WorkerInv'
    <2>1. NothingSeen \in [fd : {NoFd} \cup Sockets, count : 0 .. TableSize]
      BY KernelAssumption DEF NothingSeen
    <2>2. WorkerType'
      BY <1>3, <1>6, <2>1 DEF IInv, WorkerInv, WorkerType
    <2>3. SettingUp' = {}
      BY <1>4, <1>6 DEF SettingUp
    <2> QED
      BY <2>2, <2>3 DEF WorkerInv, RegisterAlone
  <1>8. KernelType'
    BY <1>3, <1>4 DEF IInv, KernelType
  <1>9. TableOk(table')
    <2>1. /\ TableOk(table) /\ seen[w].count \in 0 .. TableSize /\ s \in Fds
          /\ "event" \in Callbacks /\ TRUE \in BOOLEAN /\ IsOpen(s) \in BOOLEAN
      BY <1>4, Constants DEF IInv, WorkerInv, WorkerType, IsOpen
    <2>2. TableOk(Fd!AddFdAt(table, seen[w].count, s, "event", TRUE, IsOpen(s)))
      BY <2>1, AddFdAtTyped
    <2> QED
      BY <1>3, <2>2
  <1>10. PeerType' /\ MgmtType'
    BY <1>3 DEF IInv, PeerType, MgmtType, environment, mgmt
  <1> QED
    BY <1>6, <1>7, <1>8, <1>9, <1>10 DEF IInv

LEMMA WorkerTxKeeps ==
    ASSUME IInv, NEW w \in Workers, WorkerTx(w)
    PROVE  IInv'
  <1>1. /\ ProcessTx /\ LockFree
        /\ wpc' = [wpc EXCEPT ![w] = "idle"] /\ UNCHANGED <<environment, seen, mgmt>>
    BY DEF WorkerTx, ProcessTx
  <1>2. LinkInv' /\ KernelType' /\ TableOk(table') /\ UNCHANGED accepted
    BY <1>1, ProcessTxKeeps
  <1>3. WorkerInv'
    <2>1. WorkerType'
      BY <1>1 DEF IInv, WorkerInv, WorkerType
    <2>2. SettingUp' = {}
      BY <1>1 DEF LockFree, SettingUp, IInv, WorkerInv, WorkerType
    <2> QED
      BY <2>1, <2>2 DEF WorkerInv, RegisterAlone
  <1>4. PeerType' /\ MgmtType'
    BY <1>1 DEF IInv, PeerType, MgmtType, environment, mgmt
  <1> QED
    BY <1>2, <1>3, <1>4 DEF IInv
-----------------------------------------------------------------------------
(* Every step keeps the invariant: the management thread. *)

\* What the management thread leaves alone when it only moves on.
LEMMA UntouchedKeeps ==
    ASSUME IInv
    PROVE  /\ UNCHANGED <<conn, counts>> => LinkInv'
           /\ UNCHANGED <<workers, accepted>> => WorkerInv'
           /\ UNCHANGED kernel => KernelType'
           /\ UNCHANGED <<backlog, peer>> => PeerType'
           /\ UNCHANGED mgmt => MgmtType'
           /\ UNCHANGED table => TableOk(table')
  <1>1. UNCHANGED <<conn, counts>> => LinkInv'
    BY DEF conn, counts, IInv, LinkInv, LinkType, QueueType, CongestedHasBacklog, RingInOrder
  <1>2. UNCHANGED <<workers, accepted>> => WorkerInv'
    BY DEF workers, IInv, WorkerInv, WorkerType, RegisterAlone, SettingUp
  <1>3. UNCHANGED kernel => KernelType'
    BY DEF kernel, IInv, KernelType
  <1>4. UNCHANGED <<backlog, peer>> => PeerType'
    BY DEF IInv, PeerType
  <1>5. UNCHANGED mgmt => MgmtType'
    BY DEF mgmt, IInv, MgmtType
  <1>6. UNCHANGED table => TableOk(table')
    BY DEF IInv
  <1> QED
    BY <1>1, <1>2, <1>3, <1>4, <1>5, <1>6

LEMMA EpollWaitKeeps ==
    ASSUME IInv, EpollWait
    PROVE  IInv'
  <1>1. /\ mpc' = "dispatch"
        /\ events' = {<<f, table.watch[f].slot>> : f \in {g \in DOMAIN table.watch : Ready(g)}}
        /\ edge' \subseteq edge
        /\ UNCHANGED <<conn, table, sock, environment, workers, cur, counts>>
    BY DEF EpollWait
  <1>2. events' \subseteq Fds \X (1 .. TableSize)
    <2>1. table.watch \in [Fds -> [slot : 0 .. TableSize, et : BOOLEAN]]
      BY DEF IInv, TableOk
    <2>2. \A f \in Fds : Ready(f) => table.watch[f].slot \in 1 .. TableSize
      BY <2>1, KernelAssumption DEF Ready, Fd!Watched
    <2> QED
      BY <1>1, <2>1, <2>2
  <1>3. MgmtType'
    BY <1>1, <1>2 DEF IInv, MgmtType
  <1>4. KernelType'
    BY <1>1 DEF IInv, KernelType
  <1>5. LinkInv' /\ WorkerInv' /\ PeerType' /\ TableOk(table')
    BY <1>1, UntouchedKeeps DEF environment, counts
  <1> QED
    BY <1>3, <1>4, <1>5 DEF IInv

LEMMA DispatchKeeps ==
    ASSUME IInv, Dispatch
    PROVE  IInv'
  <1>1. PICK e \in events : events' = events \ {e} /\ cur' = table.entries[e[2]]
    BY DEF Dispatch
  <1>2. mpc' \in {"tx", "recv", "accept"} /\ UNCHANGED <<conn, table, kernel, environment, workers, counts>>
    BY DEF Dispatch
  <1>3. MgmtType'
    <2>1. e \in Fds \X (1 .. TableSize)
      BY <1>1 DEF IInv, MgmtType
    <2>2. cur' \in [fd : Fds, callback : Callbacks]
      BY <1>1, <2>1 DEF IInv, TableOk
    <2> QED
      BY <1>1, <1>2, <2>2 DEF IInv, MgmtType
  <1>4. LinkInv' /\ WorkerInv' /\ KernelType' /\ PeerType' /\ TableOk(table')
    BY <1>2, UntouchedKeeps DEF environment, counts
  <1> QED
    BY <1>3, <1>4 DEF IInv

LEMMA AcceptKeeps ==
    ASSUME IInv, Accept
    PROVE  IInv'
  <1>1. LowestFree \in Sockets
    BY LowestFreeIsFree DEF Accept
  <1>2. PICK s \in Sockets : s = LowestFree
    BY <1>1
  <1>3. /\ mpc' = "dispatch" /\ backlog \in {"live", "dead"} /\ backlog' = "none"
        /\ sock' = [sock EXCEPT ![s] = Opened(backlog, <<"hello">>)]
        /\ table' = Fd!AddFd(table, s, "passive", FALSE)
        /\ UNCHANGED <<conn, edge, peer, workers, cur, events, counts>>
    BY <1>2 DEF Accept, IInv, PeerType
  <1>4. KernelType'
    <2>1. Opened(backlog, <<"hello">>) \in SockType
      <3>1. PICK b \in {"live", "dead"} : b = backlog
        BY <1>3
      <3>2. PICK rx \in Seq({"hello", "data"}) : rx = <<"hello">>
        <4>1. PICK S : S = {"hello", "data"}
          OBVIOUS
        <4>2. PICK h \in S : h = "hello"
          BY <4>1
        <4>3. <<h>> \in Seq(S)
          OBVIOUS
        <4> QED
          BY <4>1, <4>2, <4>3
      <3>3. Opened(b, rx) \in SockType
        BY OpenedTyped
      <3> QED
        BY <3>1, <3>2, <3>3
    <2> QED
      BY <1>3, <2>1 DEF IInv, KernelType
  <1>5. TableOk(table')
    BY <1>3, Constants, AddFdTyped DEF IInv
  <1>6. PeerType' /\ MgmtType'
    BY <1>3 DEF IInv, PeerType, MgmtType
  <1>7. LinkInv' /\ WorkerInv'
    BY <1>3, UntouchedKeeps DEF counts
  <1> QED
    BY <1>4, <1>5, <1>6, <1>7 DEF IInv

LEMMA MgmtTxKeeps ==
    ASSUME IInv, MgmtTx
    PROVE  IInv'
  <1>1. ProcessTx /\ mpc' = "recv" /\ UNCHANGED <<environment, workers, cur, events>>
    BY DEF MgmtTx
  <1>2. LinkInv' /\ KernelType' /\ TableOk(table') /\ UNCHANGED accepted
    BY <1>1, ProcessTxKeeps
  <1>3. MgmtType'
    BY <1>1 DEF IInv, MgmtType
  <1>4. WorkerInv' /\ PeerType'
    BY <1>1, <1>2, UntouchedKeeps DEF environment
  <1> QED
    BY <1>2, <1>3, <1>4 DEF IInv

\* Taking a packet leaves the sockets typed.
LEMMA TakePacketTyped ==
    ASSUME IInv, IsOpen(cur.fd), sock[cur.fd].rx # <<>>, TakePacket,
           edge' \in SUBSET Sockets
    PROVE  KernelType'
  <1>1. PICK s \in Sockets : s = cur.fd
    BY DEF IsOpen
  <1>2. sock[s] \in SockType
    BY DEF IInv, KernelType
  <1>3. Tail(sock[s].rx) \in Seq({"hello", "data"})
    BY <1>1, <1>2, HeadTailProperties DEF SockType
  <1>4. PICK t : t = [sock[s] EXCEPT !.rx = Tail(@)]
    OBVIOUS
  <1>5. t \in SockType
    BY <1>2, <1>3, <1>4 DEF SockType
  <1>6. sock' = [sock EXCEPT ![s] = t]
    BY <1>1, <1>2, <1>4 DEF TakePacket, IInv, KernelType
  <1> QED
    BY <1>5, <1>6 DEF IInv, KernelType

LEMMA RecvPacketKeeps ==
    ASSUME IInv, RecvPacket
    PROVE  IInv'
  <1>1. /\ mpc' = "dispatch" /\ IsOpen(cur.fd) /\ sock[cur.fd].rx # <<>> /\ TakePacket
        /\ UNCHANGED <<conn, table, edge, environment, workers, cur, events, counts>>
    BY DEF RecvPacket
  <1>2. KernelType'
    BY <1>1, TakePacketTyped DEF IInv, KernelType
  <1>3. MgmtType'
    BY <1>1 DEF IInv, MgmtType
  <1>4. LinkInv' /\ WorkerInv' /\ PeerType' /\ TableOk(table')
    BY <1>1, UntouchedKeeps DEF environment, counts
  <1> QED
    BY <1>2, <1>3, <1>4 DEF IInv

LEMMA PromoteKeeps ==
    ASSUME IInv, Promote
    PROVE  IInv'
  <1>1. /\ mpc' = "dispatch" /\ IsOpen(cur.fd) /\ sock[cur.fd].rx # <<>> /\ TakePacket
        /\ fd' = cur.fd /\ is_connected' = TRUE
        /\ table' = Fd!AddFd(Fd!RemoveFd(table, cur.fd), cur.fd, "event", TRUE)
        /\ edge' = edge \cup {cur.fd}
        /\ UNCHANGED <<is_congested, tx_queue, environment, workers, cur, events, counts>>
    BY DEF Promote
  <1>2. cur.fd \in Sockets
    BY <1>1 DEF IsOpen
  <1>3. KernelType'
    BY <1>1, <1>2, TakePacketTyped DEF IInv, KernelType
  <1>4. TableOk(table')
    <2>1. TableOk(Fd!RemoveFd(table, cur.fd))
      BY <1>2, Constants, RemoveFdTyped DEF IInv
    <2> QED
      BY <1>1, <1>2, <2>1, Constants, AddFdTyped
  <1>5. LinkInv'
    BY <1>1, <1>2
    DEF IInv, LinkInv, LinkType, QueueType, CongestedHasBacklog, RingInOrder, counts
  <1>6. MgmtType'
    BY <1>1 DEF IInv, MgmtType
  <1>7. WorkerInv' /\ PeerType'
    BY <1>1, UntouchedKeeps DEF environment, counts
  <1> QED
    BY <1>3, <1>4, <1>5, <1>6, <1>7 DEF IInv

LEMMA CloseSocketKeeps ==
    ASSUME IInv, CloseSocket
    PROVE  IInv'
  <1>1. /\ CloseFd(Fd!RemoveFd(table, cur.fd), cur.fd)
        /\ mpc' \in {"forget_fd", "dispatch"}
        /\ UNCHANGED <<conn, environment, workers, cur, events, counts>>
    BY DEF CloseSocket
  <1>2. KernelType' /\ TableOk(table')
    <2>1. cur.fd \in Fds
      BY DEF IInv, MgmtType
    <2>2. TableOk(Fd!RemoveFd(table, cur.fd))
      BY <2>1, RemoveFdTyped DEF IInv
    <2> QED
      BY <1>1, <2>1, <2>2, CloseFdTyped DEF IInv
  <1>3. MgmtType'
    BY <1>1 DEF IInv, MgmtType
  <1>4. LinkInv' /\ WorkerInv' /\ PeerType'
    BY <1>1, UntouchedKeeps DEF environment, counts
  <1> QED
    BY <1>2, <1>3, <1>4 DEF IInv

\* The steps that only move the management thread on.
LEMMA MovesOnKeeps ==
    ASSUME IInv, DispatchEnd \/ AcceptFails \/ NothingToRecv \/ DropSocket
    PROVE  IInv'
  <1>1. /\ mpc' \in {"wait", "dispatch", "drop"}
        /\ UNCHANGED <<conn, table, kernel, environment, workers, cur, events, counts>>
    BY DEF DispatchEnd, AcceptFails, NothingToRecv, DropSocket
  <1>2. MgmtType'
    BY <1>1 DEF IInv, MgmtType
  <1> QED
    BY <1>1, <1>2, UntouchedKeeps DEF IInv, environment, counts

\* The link loses its socket and its mark: the ring stays.
LEMMA ForgetKeeps ==
    ASSUME IInv, ForgetFd \/ ForgetLink
    PROVE  IInv'
  <1>1. /\ mpc' \in {"forget_link", "dispatch"}
        /\ fd' \in {NoFd, fd} /\ is_connected' \in {FALSE, is_connected}
        /\ UNCHANGED <<is_congested, tx_queue, table, kernel, environment, workers, cur,
                       events, counts>>
    BY DEF ForgetFd, ForgetLink
  <1>2. MgmtType'
    BY <1>1 DEF IInv, MgmtType
  <1>3. LinkInv'
    BY <1>1 DEF IInv, LinkInv, LinkType, QueueType, CongestedHasBacklog, RingInOrder, counts
  <1> QED
    BY <1>1, <1>2, <1>3, UntouchedKeeps DEF IInv, environment, counts
-----------------------------------------------------------------------------
(* Every step keeps the invariant: the peer. *)

\* One socket changes, and may have an edge to report.
LEMMA SocketChangeTyped ==
    ASSUME KernelType, NEW s \in Sockets, NEW t \in SockType,
           sock' = [sock EXCEPT ![s] = t], edge' \in {edge, edge \cup {s}}
    PROVE  KernelType'
  BY DEF KernelType

LEMMA PeerReadsKeeps ==
    ASSUME IInv, NEW s \in Sockets, PeerReads(s)
    PROVE  IInv'
  <1>1. /\ sock[s].tx > 0 /\ sock' = [sock EXCEPT ![s].tx = @ - 1]
        /\ edge' \in {edge, edge \cup {s}}
        /\ UNCHANGED <<conn, table, environment, workers, mgmt, counts>>
    BY DEF PeerReads
  <1>2. sock[s] \in SockType
    BY DEF IInv, KernelType
  <1>3. PICK t : t = [sock[s] EXCEPT !.tx = @ - 1]
    OBVIOUS
  <1>4. t \in SockType
    BY <1>1, <1>2, <1>3, KernelAssumption DEF SockType
  <1>5. sock' = [sock EXCEPT ![s] = t]
    BY <1>1, <1>2, <1>3 DEF IInv, KernelType
  <1>6. KernelType'
    BY <1>1, <1>4, <1>5, SocketChangeTyped DEF IInv
  <1> QED
    BY <1>1, <1>6, UntouchedKeeps DEF IInv, environment, counts

LEMMA PeerSendsKeeps ==
    ASSUME IInv, NEW s \in Sockets, PeerSends(s)
    PROVE  IInv'
  <1>1. /\ sock' = [sock EXCEPT ![s].rx = Append(@, "data")]
        /\ edge' \in {edge, edge \cup {s}}
        /\ UNCHANGED <<conn, table, environment, workers, mgmt, counts>>
    BY DEF PeerSends
  <1>2. sock[s] \in SockType
    BY DEF IInv, KernelType
  <1>3. PICK t : t = [sock[s] EXCEPT !.rx = Append(@, "data")]
    OBVIOUS
  <1>4. t \in SockType
    <2>1. "data" \in {"hello", "data"} /\ sock[s].rx \in Seq({"hello", "data"})
      BY <1>2 DEF SockType
    <2>2. Append(sock[s].rx, "data") \in Seq({"hello", "data"})
      BY <2>1, AppendProperties
    <2>3. PICK rx \in Seq({"hello", "data"}) : rx = Append(sock[s].rx, "data")
      BY <2>2
    <2>4. t = [sock[s] EXCEPT !.rx = rx]
      BY <1>3, <2>3
    <2> QED
      BY <1>2, <2>3, <2>4 DEF SockType
  <1>5. sock' = [sock EXCEPT ![s] = t]
    BY <1>1, <1>2, <1>3 DEF IInv, KernelType
  <1>6. KernelType'
    BY <1>1, <1>4, <1>5, SocketChangeTyped DEF IInv
  <1> QED
    BY <1>1, <1>6, UntouchedKeeps DEF IInv, environment, counts

LEMMA PeerDiesKeeps ==
    ASSUME IInv, PeerDies
    PROVE  IInv'
  <1>1. /\ peer' = "down" /\ backlog' \in {"none", "dead"}
        /\ sock' = [s \in Sockets |->
                       IF IsLive(s)
                       THEN Opened("dead", IF sock[s].tx > 0 THEN <<>> ELSE sock[s].rx)
                       ELSE sock[s]]
        /\ edge' = edge \cup {s \in Sockets : IsLive(s) /\ table.watch[s].et}
        /\ UNCHANGED <<conn, table, workers, mgmt, counts>>
    BY DEF PeerDies
  <1>2. KernelType'
    <2>1. ASSUME NEW s \in Sockets
          PROVE  sock'[s] \in SockType
      <3>1. sock[s] \in SockType
        BY DEF IInv, KernelType
      <3>2. PICK rx \in Seq({"hello", "data"}) :
                rx = IF sock[s].tx > 0 THEN <<>> ELSE sock[s].rx
        BY <3>1, EmptySeq DEF SockType
      <3>3. Opened("dead", rx) \in SockType
        BY OpenedTyped
      <3> QED
        BY <1>1, <3>1, <3>2, <3>3
    <2>2. edge' \subseteq Sockets
      BY <1>1 DEF IInv, KernelType
    <2>3. sock' \in [Sockets -> SockType]
      BY <1>1, <2>1
    <2> QED
      BY <2>2, <2>3 DEF KernelType
  <1>3. PeerType'
    BY <1>1 DEF PeerType
  <1> QED
    BY <1>1, <1>2, <1>3, UntouchedKeeps DEF IInv, counts

LEMMA PeerComesKeeps ==
    ASSUME IInv, PeerConnects \/ PeerRestarts
    PROVE  IInv'
  <1>1. /\ peer' \in {peer, "up"} /\ backlog' \in {backlog, "live"}
        /\ UNCHANGED <<conn, table, kernel, workers, mgmt, counts>>
    BY DEF PeerConnects, PeerRestarts
  <1>2. PeerType'
    BY <1>1 DEF IInv, PeerType
  <1> QED
    BY <1>1, <1>2, UntouchedKeeps DEF IInv, counts
-----------------------------------------------------------------------------
LEMMA NextKeeps == IInv /\ [Next]_vars => IInv'
  <1> SUFFICES ASSUME IInv, [Next]_vars PROVE IInv'
    OBVIOUS
  <1>1. ASSUME NEW w \in Workers, Worker(w)
        PROVE  IInv'
    BY <1>1, EnqueueKeeps, ReconnectKeeps, ConnectedKeeps, RegisterKeeps, WorkerTxKeeps DEF Worker
  <1>2. CASE Mgmt
    BY <1>2, EpollWaitKeeps, DispatchKeeps, AcceptKeeps, MgmtTxKeeps, RecvPacketKeeps,
       PromoteKeeps, CloseSocketKeeps, MovesOnKeeps, ForgetKeeps DEF Mgmt
  <1>3. CASE Peer
    BY <1>3, PeerReadsKeeps, PeerSendsKeeps, PeerDiesKeeps, PeerComesKeeps DEF Peer
  <1>4. CASE UNCHANGED vars
    BY <1>4, UntouchedKeeps DEF IInv, vars, environment, counts
  <1> QED
    BY <1>1, <1>2, <1>3, <1>4 DEF Next

LEMMA Invariant == Spec => []IInv
  <1>1. Init => IInv
    BY InitHolds
  <1>2. IInv /\ [Next]_vars => IInv'
    BY NextKeeps
  <1> QED
    BY <1>1, <1>2, PTL DEF Spec

\* The link's record, its ring, the descriptor table, the sockets and the two
\* kinds of threads keep their types; the ring keeps its one empty slot.
THEOREM TypesHold == Spec => []TypeOK
  BY Invariant, PartsAreType, PTL

\* What nos_ipc_send_enqueue_ex accepted and the kernel has not taken is in the
\* ring, in order and once each, through failed sends, reconnections, deaths of
\* the peer and connections the peer opens.
THEOREM RingKeepsOrder == Spec => []RingInOrder
  <1>1. IInv => RingInOrder
    BY DEF IInv, LinkInv
  <1> QED
    BY <1>1, Invariant, PTL

\* A link marked congested has packets in its ring to be relieved by.
THEOREM CongestionHasCause == Spec => []CongestedHasBacklog
  <1>1. IInv => CongestedHasBacklog
    BY DEF IInv, LinkInv
  <1> QED
    BY <1>1, Invariant, PTL
=============================================================================
