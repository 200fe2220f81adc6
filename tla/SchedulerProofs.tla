-------------------------- MODULE SchedulerProofs --------------------------
(***************************************************************************)
(* What holds of Scheduler for every number of posters and timers, every   *)
(* set of messages and every ring size: types, the two halves of the       *)
(* sleep / wake-up protocol, and that the thread implements Mailbox; then  *)
(* what holds of its timers, TimerHeap.                                    *)
(***************************************************************************)
EXTENDS Scheduler, TimerHeap, SequenceTheorems, FiniteSetTheorems, TLAPS

\* The remainder, in the two forms the ring uses it.
LEMMA NextSlotType ==
    ASSUME NEW i \in 0 .. QueueSize - 1
    PROVE  /\ NextSlot(i) \in 0 .. QueueSize - 1
           /\ NextSlot(i) = IF i + 1 = QueueSize THEN 0 ELSE i + 1
<1>1. CASE i + 1 = QueueSize
    BY <1>1, QueueSizeAssumption DEF NextSlot
<1>2. CASE i + 1 < QueueSize
    BY <1>2, QueueSizeAssumption DEF NextSlot
<1> QED
    BY <1>1, <1>2, QueueSizeAssumption

\* A post accepted by the ring keeps the types of its slots and indices.
LEMMA EnqueueType ==
    ASSUME TypeOK, NEW m \in Messages, Enqueue(m)
    PROVE  /\ msg_queue' \in [0 .. QueueSize - 1 -> Messages \cup {NoMsg}]
           /\ tail' \in 0 .. QueueSize - 1
           /\ head' = head
BY NextSlotType DEF TypeOK, Enqueue

\* So does a post of the thread to itself, accepted or dropped.
LEMMA OwnPostType ==
    ASSUME TypeOK, NEW M \in SUBSET Messages, OwnPost(M)
    PROVE  /\ msg_queue' \in [0 .. QueueSize - 1 -> Messages \cup {NoMsg}]
           /\ tail' \in 0 .. QueueSize - 1
           /\ head' = head
<1>1. CASE UNCHANGED ring
    BY <1>1 DEF ring, TypeOK
<1>2. CASE \E m \in M : Enqueue(m)
    BY <1>2, EnqueueType
<1> QED
    BY <1>1, <1>2 DEF OwnPost

\* is_sleeping is set exactly while the thread is between its announcement
\* and its wake-up: the fact a poster's choice not to write relies on.
SleepFlag == is_sleeping = 1 <=> pc \in {"recheck", "cancel", "epoll", "awake"}

IInv == TypeOK /\ SleepFlag /\ NoLostWakeup /\ NoLostStop

\* What nos_scheduler_init_thread sets up satisfies the invariant.
LEMMA InitIInv == Init => IInv
BY QueueSizeAssumption
   DEF Init, IInv, TypeOK, SleepFlag, NoLostWakeup, NoLostStop

\* The actions of Next, told apart.
LEMMA NextCases ==
    Next => \/ \E c \in Callers : \/ \E m \in Messages : PostEnqueue(c, m)
                                  \/ PostBusy(c) \/ PostCheck(c) \/ PostWake(c)
            \/ Worker \/ EpollEvent
            \/ \E t \in Timers : Expire(t)
            \/ StopRequest \/ StopNotify \/ Deinit \/ UNCHANGED vars
BY DEF Next, Poster, Environment, Main, Terminated

\* No step of a poster, of run_loop, of the clock or of the shutdown leaves
\* the types.
LEMMA TypeStep ==
    ASSUME TypeOK, [Next]_vars
    PROVE  TypeOK'
<1> USE DEF TypeOK
<1>1. CASE UNCHANGED vars
    BY <1>1 DEF vars, ring, timers, loop, posters, stopping
<1>2. ASSUME NEW c \in Callers, NEW m \in Messages, PostEnqueue(c, m)
      PROVE  TypeOK'
    BY <1>2, EnqueueType DEF PostEnqueue, timers, loop, stopping
<1>3. ASSUME NEW c \in Callers, PostBusy(c) \/ PostCheck(c) \/ PostWake(c)
      PROVE  TypeOK'
  <2> USE DEF ring, timers, loop, stopping
  <2>1. CASE PostBusy(c)   BY <2>1 DEF PostBusy
  <2>2. CASE PostCheck(c)  BY <2>2 DEF PostCheck
  <2>3. CASE PostWake(c)   BY <2>3 DEF PostWake
  <2> QED
    BY <1>3, <2>1, <2>2, <2>3
<1>4. CASE Worker
  <2> USE <1>4 DEF Goto, timers, posters, stopping
  <2>1. CASE StartComponents      BY <2>1 DEF StartComponents, ring
  <2>2. CASE LoopCheck            BY <2>2 DEF LoopCheck, ring
  <2>3. CASE Spin                 BY <2>3 DEF Spin, ring
  <2>4. CASE Announce             BY <2>4 DEF Announce, ring
  <2>5. CASE Recheck              BY <2>5 DEF Recheck, ring
  <2>6. CASE Cancel               BY <2>6 DEF Cancel, ring
  <2>7. CASE EpollReturn          BY <2>7 DEF EpollReturn, Notified, ring
  <2>8. CASE Awake                BY <2>8 DEF Awake, ring
  <2>9. ASSUME NEW t \in Timers, FireTimer(t)
        PROVE  TypeOK'
    BY <2>9, OwnPostType DEF FireTimer, Messages, loop
  <2>10. CASE TimersDone          BY <2>10 DEF TimersDone, ring
  <2>11. CASE Poll                BY <2>11 DEF Poll, Notified, ring
  <2>12. CASE DispatchNotify      BY <2>12 DEF DispatchNotify, ring
  <2>13. CASE DispatchIo          BY <2>13, OwnPostType DEF DispatchIo
  <2>14. CASE DispatchEnd         BY <2>14 DEF DispatchEnd, ring
  <2>15. CASE Dequeue             BY <2>15, NextSlotType DEF Dequeue
  <2>16. CASE DequeueEmpty        BY <2>16 DEF DequeueEmpty, ring
  <2>17. CASE OnMsg               BY <2>17, OwnPostType DEF OnMsg, Messages
  <2> QED
    BY <2>1, <2>2, <2>3, <2>4, <2>5, <2>6, <2>7, <2>8, <2>9, <2>10, <2>11, <2>12,
       <2>13, <2>14, <2>15, <2>16, <2>17 DEF Worker
<1>5. CASE EpollEvent
    BY <1>5 DEF EpollEvent, Notified, Goto, ring, timers, posters, stopping
<1>6. ASSUME NEW t \in Timers, Expire(t)
      PROVE  TypeOK'
    BY <1>6 DEF Expire, ring, loop, posters, stopping
<1>7. CASE StopRequest \/ StopNotify \/ Deinit
    BY <1>7 DEF StopRequest, StopNotify, Deinit, ring, timers, loop, posters, stopping
<1> QED
    BY <1>1, <1>2, <1>3, <1>4, <1>5, <1>6, <1>7, NextCases

\* What a step of the thread does to the sleep / wake-up protocol: it moves
\* the flag together with pc, enters epoll_wait only through the second look
\* at the ring and at stop_requested, and reads the eventfd only outside.
LEMMA WorkerProtocol ==
    ASSUME TypeOK, SleepFlag, Worker
    PROVE  /\ SleepFlag'
           /\ pc' = "epoll" => RingEmpty' /\ stop_requested' = 0
<1> USE DEF TypeOK, SleepFlag, Goto, RingEmpty, stopping
<1>1. CASE StartComponents      BY <1>1 DEF StartComponents
<1>2. CASE LoopCheck            BY <1>2 DEF LoopCheck
<1>3. CASE Spin                 BY <1>3 DEF Spin
<1>4. CASE Announce             BY <1>4 DEF Announce
<1>5. CASE Recheck              BY <1>5 DEF Recheck, ring
<1>6. CASE Cancel               BY <1>6 DEF Cancel
<1>7. CASE EpollReturn          BY <1>7 DEF EpollReturn
<1>8. CASE Awake                BY <1>8 DEF Awake
<1>9. ASSUME NEW t \in Timers, FireTimer(t)
      PROVE  SleepFlag' /\ pc' # "epoll"
    BY <1>9 DEF FireTimer, loop
<1>10. CASE TimersDone          BY <1>10 DEF TimersDone
<1>11. CASE Poll                BY <1>11 DEF Poll
<1>12. CASE DispatchNotify      BY <1>12 DEF DispatchNotify
<1>13. CASE DispatchIo          BY <1>13 DEF DispatchIo
<1>14. CASE DispatchEnd         BY <1>14 DEF DispatchEnd
<1>15. CASE Dequeue             BY <1>15 DEF Dequeue
<1>16. CASE DequeueEmpty        BY <1>16 DEF DequeueEmpty
<1>17. CASE OnMsg               BY <1>17 DEF OnMsg
<1> QED
    BY <1>1, <1>2, <1>3, <1>4, <1>5, <1>6, <1>7, <1>8, <1>9, <1>10, <1>11, <1>12,
       <1>13, <1>14, <1>15, <1>16, <1>17 DEF Worker

\* No step breaks the wakeup protocol of posters, run_loop and
\* nos_scheduler_stop.
LEMMA ProtocolStep ==
    ASSUME IInv, [Next]_vars
    PROVE  SleepFlag' /\ NoLostWakeup' /\ NoLostStop'
<1> USE DEF IInv, TypeOK, SleepFlag, NoLostWakeup, NoLostStop, RingEmpty
<1>1. CASE UNCHANGED vars
    BY <1>1 DEF vars, ring, loop, posters, stopping
<1>2. ASSUME NEW c \in Callers, NEW m \in Messages, PostEnqueue(c, m)
      PROVE  SleepFlag' /\ NoLostWakeup' /\ NoLostStop'
  <2>1. cpc'[c] = "posted"
    BY <1>2 DEF PostEnqueue
  <2> QED
    BY <1>2, <2>1 DEF PostEnqueue, loop, stopping
<1>3. ASSUME NEW c \in Callers, PostBusy(c)
      PROVE  SleepFlag' /\ NoLostWakeup' /\ NoLostStop'
    BY <1>3 DEF PostBusy, ring, loop, stopping
<1>4. ASSUME NEW c \in Callers, PostCheck(c)
      PROVE  SleepFlag' /\ NoLostWakeup' /\ NoLostStop'
  <2>1. UNCHANGED <<head, tail, is_sleeping, notify_fd, pc, stop_requested, mpc>>
    BY <1>4 DEF PostCheck, ring, loop, stopping
  <2>2. pc = "epoll" => cpc'[c] = "wake"
    BY <1>4 DEF PostCheck
  <2> QED
    BY <2>1, <2>2
<1>5. ASSUME NEW c \in Callers, PostWake(c)
      PROVE  SleepFlag' /\ NoLostWakeup' /\ NoLostStop'
    BY <1>5 DEF PostWake, ring, loop, stopping
<1>6. CASE Worker
    BY <1>6, WorkerProtocol
<1>7. CASE EpollEvent
    BY <1>7 DEF EpollEvent, Goto, stopping
<1>8. ASSUME NEW t \in Timers, Expire(t)
      PROVE  SleepFlag' /\ NoLostWakeup' /\ NoLostStop'
    BY <1>8 DEF Expire, ring, loop, posters, stopping
<1>9. CASE StopRequest
    BY <1>9 DEF StopRequest, ring, loop, posters
<1>10. CASE StopNotify
    BY <1>10 DEF StopNotify, ring, loop, posters
<1>11. CASE Deinit
    BY <1>11 DEF Deinit, loop, posters
<1> QED
    BY <1>1, <1>2, <1>3, <1>4, <1>5, <1>6, <1>7, <1>8, <1>9, <1>10, <1>11, NextCases

\* IInv is inductive, so it holds of every reachable state.
THEOREM Invariance == Spec => []IInv
<1>1. IInv /\ [Next]_vars => IInv'
    BY TypeStep, ProtocolStep DEF IInv
<1> QED
    BY InitIInv, <1>1, PTL DEF Spec

\* Types: nos_thread_t keeps to its ranges, ring indices included.
THEOREM TypeCorrect == Spec => []TypeOK
<1>1. IInv => TypeOK
    BY DEF IInv
<1> QED
    BY Invariance, <1>1, PTL

\* However many threads post, no message waits behind a sleeping thread that
\* nobody is going to wake.
THEOREM WakeupNeverLost == Spec => []NoLostWakeup
<1>1. IInv => NoLostWakeup
    BY DEF IInv
<1> QED
    BY Invariance, <1>1, PTL

\* Whenever nos_scheduler_stop is called, the thread does not sleep through it.
THEOREM StopNeverLost == Spec => []NoLostStop
<1>1. IInv => NoLostStop
    BY DEF IInv
<1> QED
    BY Invariance, <1>1, PTL
-----------------------------------------------------------------------------
(* The refinement: ring, loop and shutdown implement the bounded mailbox.  *)

\* the slot of the i-th message of a ring whose head is h
SlotAt(h, i) == (h + i - 1) % QueueSize

\* A slot index wraps at most once.
LEMMA SlotAtIs ==
    ASSUME NEW h \in 0 .. QueueSize - 1, NEW i \in 1 .. QueueSize
    PROVE  /\ SlotAt(h, i) \in 0 .. QueueSize - 1
           /\ SlotAt(h, i) = IF h + i - 1 < QueueSize THEN h + i - 1
                             ELSE h + i - 1 - QueueSize
<1> DEFINE x == h + i - 1
<1>1. x \in Nat /\ x < 2 * QueueSize
    BY QueueSizeAssumption
<1>2. CASE x < QueueSize
  <2>1. x % QueueSize = x
    BY <1>1, <1>2, QueueSizeAssumption
  <2> QED
    BY <1>1, <1>2, <2>1, QueueSizeAssumption DEF SlotAt
<1>3. CASE x >= QueueSize
  <2> DEFINE y == x - QueueSize
  <2>1. y \in 0 .. QueueSize - 1 /\ x = QueueSize * 1 + y
    BY <1>1, <1>3, QueueSizeAssumption
  <2> HIDE DEF y
  <2>2. (QueueSize * 1 + y) % QueueSize = y
    BY <2>1, QueueSizeAssumption
  <2>3. SlotAt(h, i) = y
    BY <2>1, <2>2 DEF SlotAt
  <2> QED
    BY <1>1, <1>3, <2>1, <2>3, QueueSizeAssumption DEF y
<1> QED
    BY <1>1, <1>2, <1>3, QueueSizeAssumption

\* The number of waiting messages, and what empty and full mean for it.
LEMMA WaitingType ==
    ASSUME TypeOK
    PROVE  /\ Waiting \in 0 .. QueueSize - 1
           /\ RingEmpty <=> Waiting = 0
           /\ RingFull <=> Waiting = QueueSize - 1
<1>1. Waiting \in 0 .. QueueSize - 1 /\ (RingEmpty <=> Waiting = 0)
    BY QueueSizeAssumption DEF TypeOK, Waiting, RingEmpty
<1>2. RingFull <=> Waiting = QueueSize - 1
    BY NextSlotType, QueueSizeAssumption DEF TypeOK, Waiting, RingFull
<1> QED
    BY <1>1, <1>2

\* The slots of the waiting messages are not the tail's, which comes next.
LEMMA TailIs ==
    ASSUME TypeOK
    PROVE  /\ SlotAt(head, Waiting + 1) = tail
           /\ \A i \in 1 .. Waiting :
                 SlotAt(head, i) \in 0 .. QueueSize - 1 /\ SlotAt(head, i) # tail
<1>1. Waiting \in 0 .. QueueSize - 1
    BY WaitingType
<1>2. head \in 0 .. QueueSize - 1 /\ tail \in 0 .. QueueSize - 1
    BY DEF TypeOK
<1>3. SlotAt(head, Waiting + 1) = tail
  <2>1. Waiting + 1 \in 1 .. QueueSize
    BY <1>1, QueueSizeAssumption
  <2>2. SlotAt(head, Waiting + 1) = IF head + (Waiting + 1) - 1 < QueueSize
                                    THEN head + (Waiting + 1) - 1
                                    ELSE head + (Waiting + 1) - 1 - QueueSize
    BY <1>2, <2>1, SlotAtIs
  <2> QED
    BY <1>1, <1>2, <2>2, QueueSizeAssumption DEF Waiting
<1>4. ASSUME NEW i \in 1 .. Waiting
      PROVE  SlotAt(head, i) \in 0 .. QueueSize - 1 /\ SlotAt(head, i) # tail
  <2>1. i \in 1 .. QueueSize - 1 /\ i \in 1 .. QueueSize
    BY <1>1, QueueSizeAssumption
  <2>2. /\ SlotAt(head, i) \in 0 .. QueueSize - 1
        /\ SlotAt(head, i) = IF head + i - 1 < QueueSize THEN head + i - 1
                             ELSE head + i - 1 - QueueSize
    BY <1>2, <2>1, SlotAtIs
  <2> QED
    BY <1>2, <2>1, <2>2, QueueSizeAssumption DEF Waiting
<1> QED
    BY <1>3, <1>4

\* What waits is messages, and a message is in hand exactly in its handler.
WaitingAreMessages == \A i \in 1 .. Waiting : msg_queue[SlotAt(head, i)] \in Messages

InHand == buf \in Messages <=> pc = "on_msg"

RInv == IInv /\ WaitingAreMessages /\ InHand

\* Pending, element by element.
PendingElements ==
    /\ Pending \in Seq(Messages) /\ Len(Pending) = Waiting
    /\ \A i \in 1 .. Waiting : Pending[i] = msg_queue[SlotAt(head, i)]

\* The messages of the ring are the sequence the mailbox sees.
LEMMA PendingIs == RInv => PendingElements
<1> SUFFICES ASSUME RInv PROVE PendingElements
    OBVIOUS
<1>1. Waiting \in Nat
    BY WaitingType DEF RInv, IInv
<1>2. Pending = [i \in 1 .. Waiting |-> msg_queue[SlotAt(head, i)]]
    BY DEF Pending, SlotAt
<1> QED
    BY <1>1, <1>2 DEF RInv, WaitingAreMessages, PendingElements

\* An accepted post fills the slot behind what waits and moves nothing else.
LEMMA EnqueueFills ==
    ASSUME TypeOK, NEW m \in Messages, Enqueue(m)
    PROVE  /\ Waiting < QueueSize - 1
           /\ Waiting' = Waiting + 1
           /\ \A i \in 1 .. Waiting :
                 msg_queue'[SlotAt(head', i)] = msg_queue[SlotAt(head, i)]
           /\ msg_queue'[SlotAt(head', Waiting + 1)] = m
<1>1. Waiting \in 0 .. QueueSize - 1 /\ Waiting # QueueSize - 1
    BY WaitingType DEF Enqueue
<1>2. /\ head' = head /\ tail' = NextSlot(tail) /\ NextSlot(tail) # head
      /\ msg_queue' = [msg_queue EXCEPT ![tail] = m]
    BY DEF Enqueue, RingFull
<1>3. /\ head \in 0 .. QueueSize - 1 /\ tail \in 0 .. QueueSize - 1
      /\ msg_queue \in [0 .. QueueSize - 1 -> Messages \cup {NoMsg}]
    BY DEF TypeOK
<1>4. tail' = IF tail + 1 = QueueSize THEN 0 ELSE tail + 1
    BY <1>2, <1>3, NextSlotType
<1>5. Waiting' = Waiting + 1
    BY <1>2, <1>3, <1>4, QueueSizeAssumption DEF Waiting
<1>6. \A i \in 1 .. Waiting : msg_queue'[SlotAt(head', i)] = msg_queue[SlotAt(head, i)]
    BY <1>2, <1>3, TailIs
<1>7. msg_queue'[SlotAt(head', Waiting + 1)] = m
    BY <1>2, <1>3, TailIs
<1> QED
    BY <1>1, <1>5, <1>6, <1>7, QueueSizeAssumption

\* An accepted post goes to the end of what waits.
LEMMA EnqueueAppends ==
    ASSUME RInv, RInv', NEW m \in Messages, Enqueue(m)
    PROVE  Len(Pending) < QueueSize - 1 /\ Pending' = Append(Pending, m)
<1>1. /\ Waiting < QueueSize - 1 /\ Waiting' = Waiting + 1
      /\ \A i \in 1 .. Waiting :
            msg_queue'[SlotAt(head', i)] = msg_queue[SlotAt(head, i)]
      /\ msg_queue'[SlotAt(head', Waiting + 1)] = m
    BY EnqueueFills DEF RInv, IInv
<1>2. Waiting \in Nat
    BY WaitingType DEF RInv, IInv
<1>3. /\ Pending \in Seq(Messages) /\ Len(Pending) = Waiting
      /\ \A i \in 1 .. Waiting : Pending[i] = msg_queue[SlotAt(head, i)]
    BY PendingIs DEF PendingElements
<1>4. /\ Pending' \in Seq(Messages) /\ Len(Pending') = Waiting'
      /\ \A i \in 1 .. Waiting' : Pending'[i] = msg_queue'[SlotAt(head', i)]
  <2>1. PendingElements'
    BY PendingIs, PTL
  <2> QED
    BY <2>1 DEF PendingElements
<1>5. /\ Append(Pending, m) \in Seq(Messages) /\ Len(Append(Pending, m)) = Waiting + 1
      /\ \A i \in 1 .. Waiting : Append(Pending, m)[i] = Pending[i]
      /\ Append(Pending, m)[Waiting + 1] = m
    BY <1>3, AppendProperties
<1>6. \A i \in 1 .. Waiting + 1 : Pending'[i] = Append(Pending, m)[i]
    BY <1>1, <1>2, <1>3, <1>4, <1>5
<1>7. Pending' = Append(Pending, m)
    BY <1>1, <1>4, <1>5, <1>6, SeqEqual
<1> QED
    BY <1>1, <1>3, <1>7

\* Taking a message out moves the head and nothing else.
LEMMA DequeueMoves ==
    ASSUME TypeOK, Dequeue
    PROVE  /\ Waiting \in 1 .. QueueSize - 1 /\ Waiting' = Waiting - 1
           /\ buf' = msg_queue[SlotAt(head, 1)]
           /\ \A i \in 1 .. Waiting - 1 :
                 msg_queue'[SlotAt(head', i)] = msg_queue[SlotAt(head, i + 1)]
<1>1. Waiting \in 1 .. QueueSize - 1
    BY WaitingType, QueueSizeAssumption DEF Dequeue
<1>2. /\ head' = NextSlot(head) /\ tail' = tail /\ msg_queue' = msg_queue
      /\ buf' = msg_queue[head] /\ head # tail
    BY DEF Dequeue, RingEmpty
<1>3. head \in 0 .. QueueSize - 1 /\ tail \in 0 .. QueueSize - 1
    BY DEF TypeOK
<1>4. head' \in 0 .. QueueSize - 1 /\ head' = IF head + 1 = QueueSize THEN 0 ELSE head + 1
    BY <1>2, <1>3, NextSlotType
<1>5. Waiting' = Waiting - 1
    BY <1>2, <1>3, <1>4, QueueSizeAssumption DEF Waiting
<1>6. SlotAt(head, 1) = head
  <2>1. 1 \in 1 .. QueueSize
    BY QueueSizeAssumption
  <2>2. SlotAt(head, 1) = IF head + 1 - 1 < QueueSize THEN head + 1 - 1
                          ELSE head + 1 - 1 - QueueSize
    BY <1>3, <2>1, SlotAtIs
  <2> QED
    BY <1>3, <2>2, QueueSizeAssumption
<1>7. ASSUME NEW i \in 1 .. Waiting - 1
      PROVE  SlotAt(head', i) = SlotAt(head, i + 1)
  <2>1. i \in 1 .. QueueSize /\ i + 1 \in 1 .. QueueSize
    BY <1>1, QueueSizeAssumption
  <2>2. SlotAt(head', i) = IF head' + i - 1 < QueueSize THEN head' + i - 1
                           ELSE head' + i - 1 - QueueSize
    BY <1>4, <2>1, SlotAtIs
  <2>3. SlotAt(head, i + 1) = IF head + (i + 1) - 1 < QueueSize THEN head + (i + 1) - 1
                              ELSE head + (i + 1) - 1 - QueueSize
    BY <1>3, <2>1, SlotAtIs
  <2> QED
    BY <1>3, <1>4, <2>1, <2>2, <2>3, QueueSizeAssumption
<1> QED
    BY <1>1, <1>2, <1>5, <1>6, <1>7

\* Taking a message out takes the oldest.
LEMMA DequeueTakes ==
    ASSUME RInv, RInv', Dequeue
    PROVE  /\ Pending # <<>>
           /\ buf' = Head(Pending) /\ Pending' = Tail(Pending)
<1>1. /\ Waiting \in 1 .. QueueSize - 1 /\ Waiting' = Waiting - 1
      /\ buf' = msg_queue[SlotAt(head, 1)]
      /\ \A i \in 1 .. Waiting - 1 :
            msg_queue'[SlotAt(head', i)] = msg_queue[SlotAt(head, i + 1)]
    BY DequeueMoves DEF RInv, IInv
<1>2. /\ Pending \in Seq(Messages) /\ Len(Pending) = Waiting
      /\ \A i \in 1 .. Waiting : Pending[i] = msg_queue[SlotAt(head, i)]
    BY PendingIs DEF PendingElements
<1>3. /\ Pending' \in Seq(Messages) /\ Len(Pending') = Waiting'
      /\ \A i \in 1 .. Waiting' : Pending'[i] = msg_queue'[SlotAt(head', i)]
  <2>1. PendingElements'
    BY PendingIs, PTL
  <2> QED
    BY <2>1 DEF PendingElements
<1>4. Pending # <<>>
    BY <1>1, <1>2
<1>5. /\ Tail(Pending) \in Seq(Messages) /\ Len(Tail(Pending)) = Len(Pending) - 1
      /\ \A i \in 1 .. Len(Tail(Pending)) : Tail(Pending)[i] = Pending[i + 1]
    BY <1>2, <1>4, HeadTailProperties
<1>6. \A i \in 1 .. Waiting - 1 : Pending'[i] = Tail(Pending)[i]
    BY <1>1, <1>2, <1>3, <1>5
<1>7. Pending' = Tail(Pending)
    BY <1>1, <1>2, <1>3, <1>5, <1>6, SeqEqual
<1>8. Head(Pending) = Pending[1]
    BY <1>2, <1>4
<1> QED
    BY <1>1, <1>2, <1>4, <1>7, <1>8

\* A step that leaves the ring alone leaves what waits alone.
LEMMA RingStays ==
    ASSUME UNCHANGED ring
    PROVE  Pending' = Pending /\ Waiting' = Waiting
BY DEF ring, Pending, Waiting

\* What the steps of Next do to the ring, to the message in hand, to the
\* answers and to the end of the loop.
Silent ==
    /\ UNCHANGED <<ring, buf, rc>>
    /\ pc' = "exited" <=> pc = "exited"
    /\ pc' = "on_msg" <=> pc = "on_msg"
PosterFills == \E c \in Callers, m \in Messages :
    /\ Enqueue(m) /\ rc' = [rc EXCEPT ![c] = "ok"]
    /\ UNCHANGED <<buf, pc>>
PosterRefused == \E c \in Callers :
    /\ RingFull /\ rc' = [rc EXCEPT ![c] = "busy"]
    /\ UNCHANGED <<ring, buf, pc>>
HandlerEnds == pc = "on_msg" /\ pc' = "msgs" /\ buf' = NoMsg
ThreadFills == \E m \in Messages :
    /\ Enqueue(m) /\ rc' = rc
    /\ HandlerEnds \/ (pc \notin {"on_msg", "exited"} /\ UNCHANGED <<pc, buf>>)
OnlyEnds == HandlerEnds /\ UNCHANGED <<ring, rc>>
LoopEnds == pc = "loop" /\ pc' = "exited" /\ UNCHANGED <<ring, buf, rc>>
Emptied == pc = "exited" /\ head' = tail /\ UNCHANGED <<tail, buf, pc, rc>>

\* Every step of a thread of the node is of one of these kinds.
LEMMA StepKinds ==
    ASSUME TypeOK, [Next]_vars
    PROVE  \/ Silent \/ PosterFills \/ PosterRefused \/ ThreadFills \/ OnlyEnds
           \/ LoopEnds \/ Emptied \/ Dequeue
<1> USE DEF TypeOK, loop, posters, stopping, Goto
<1>1. CASE UNCHANGED vars
    BY <1>1 DEF vars, Silent
<1>2. ASSUME NEW c \in Callers, NEW m \in Messages, PostEnqueue(c, m)
      PROVE  PosterFills
    BY <1>2 DEF PostEnqueue, PosterFills
<1>3. ASSUME NEW c \in Callers, PostBusy(c)
      PROVE  PosterRefused
    BY <1>3 DEF PostBusy, PosterRefused
<1>4. ASSUME NEW c \in Callers, PostCheck(c) \/ PostWake(c)
      PROVE  Silent
    BY <1>4 DEF PostCheck, PostWake, Silent
<1>5. CASE StartComponents \/ Spin \/ Announce \/ Recheck \/ Cancel
    BY <1>5 DEF StartComponents, Spin, Announce, Recheck, Cancel, Silent
<1>6. CASE LoopCheck
    BY <1>6 DEF LoopCheck, LoopEnds, Silent
<1>7. CASE EpollReturn \/ EpollEvent \/ Awake \/ TimersDone
    BY <1>7 DEF EpollReturn, EpollEvent, Awake, TimersDone, Silent
<1>8. CASE Poll \/ DispatchNotify \/ DispatchEnd \/ DequeueEmpty
    BY <1>8 DEF Poll, DispatchNotify, DispatchEnd, DequeueEmpty, Silent
<1>9. ASSUME NEW t \in Timers, FireTimer(t)
      PROVE  Silent \/ ThreadFills
    BY <1>9 DEF FireTimer, OwnPost, Messages, Silent, ThreadFills
<1>10. CASE DispatchIo
    BY <1>10 DEF DispatchIo, OwnPost, Silent, ThreadFills
<1>11. CASE OnMsg
    BY <1>11 DEF OnMsg, OwnPost, Messages, OnlyEnds, ThreadFills, HandlerEnds
<1>12. ASSUME NEW t \in Timers, Expire(t)
       PROVE  Silent
    BY <1>12 DEF Expire, Silent
<1>13. CASE StopRequest \/ StopNotify
    BY <1>13 DEF StopRequest, StopNotify, Silent
<1>14. CASE Deinit
    BY <1>14 DEF Deinit, Emptied
<1> QED
    BY <1>1, <1>2, <1>3, <1>4, <1>5, <1>6, <1>7, <1>8, <1>9, <1>10, <1>11, <1>12,
       <1>13, <1>14, NextCases DEF Worker

\* RInv holds of a thread that nos_scheduler_init_thread has set up.
LEMMA InitRInv == Init => RInv
<1> SUFFICES ASSUME Init PROVE RInv
    OBVIOUS
<1>1. Waiting = 0
    BY DEF Init, Waiting
<1> QED
    BY <1>1, InitIInv, NoMsgAssumption DEF Init, RInv, WaitingAreMessages, InHand

\* Posts, deliveries and the shutdown keep the ring's messages and the one in
\* hand what they are.
LEMMA RInvStep == ASSUME RInv, [Next]_vars PROVE RInv'
<1>1. TypeOK /\ TypeOK' /\ IInv'
    BY TypeStep, ProtocolStep DEF RInv, IInv
<1> SUFFICES WaitingAreMessages' /\ InHand'
    BY <1>1 DEF RInv
<1>2. ASSUME UNCHANGED ring
      PROVE  WaitingAreMessages'
    BY <1>2, RingStays DEF RInv, WaitingAreMessages, ring
<1>3. ASSUME NEW m \in Messages, Enqueue(m)
      PROVE  WaitingAreMessages'
  <2>1. /\ Waiting' = Waiting + 1
        /\ \A i \in 1 .. Waiting :
              msg_queue'[SlotAt(head', i)] = msg_queue[SlotAt(head, i)]
        /\ msg_queue'[SlotAt(head', Waiting + 1)] = m
    BY <1>1, <1>3, EnqueueFills
  <2>2. Waiting \in Nat
    BY <1>1, WaitingType
  <2>3. \A i \in 1 .. Waiting + 1 : i \in 1 .. Waiting \/ i = Waiting + 1
    BY <2>2
  <2> QED
    BY <2>1, <2>2, <2>3 DEF RInv, WaitingAreMessages
<1>4. CASE Silent
    BY <1>2, <1>4 DEF Silent, RInv, InHand
<1>5. CASE PosterFills
    BY <1>3, <1>5 DEF PosterFills, RInv, InHand
<1>6. CASE PosterRefused
    BY <1>2, <1>6 DEF PosterRefused, RInv, InHand
<1>7. CASE ThreadFills
    BY <1>3, <1>7, NoMsgAssumption DEF ThreadFills, HandlerEnds, RInv, InHand
<1>8. CASE OnlyEnds
    BY <1>2, <1>8, NoMsgAssumption DEF OnlyEnds, HandlerEnds, RInv, InHand
<1>9. CASE LoopEnds
    BY <1>2, <1>9 DEF LoopEnds, RInv, InHand
<1>10. CASE Emptied
  <2>1. Waiting' = 0
    BY <1>1, <1>10 DEF Emptied, Waiting, TypeOK
  <2> QED
    BY <1>10, <2>1 DEF Emptied, RInv, InHand, WaitingAreMessages
<1>11. CASE Dequeue
  <2>1. /\ Waiting \in 1 .. QueueSize - 1 /\ Waiting' = Waiting - 1
        /\ buf' = msg_queue[SlotAt(head, 1)]
        /\ \A i \in 1 .. Waiting - 1 :
              msg_queue'[SlotAt(head', i)] = msg_queue[SlotAt(head, i + 1)]
    BY <1>1, <1>11, DequeueMoves
  <2>2. buf' \in Messages /\ pc' = "on_msg"
    BY <1>11, <2>1, QueueSizeAssumption DEF Dequeue, Goto, RInv, WaitingAreMessages
  <2>3. \A i \in 1 .. Waiting - 1 : i + 1 \in 1 .. Waiting
    BY <2>1, QueueSizeAssumption
  <2> QED
    BY <2>1, <2>2, <2>3 DEF RInv, WaitingAreMessages, InHand
<1> QED
    BY <1>1, <1>4, <1>5, <1>6, <1>7, <1>8, <1>9, <1>10, <1>11, StepKinds

\* Each kind of step, seen through the mapping, is a step of the mailbox.
LEMMA MailboxStep ==
    ASSUME RInv, RInv', [Next]_vars
    PROVE  [Mailbox!MNext]_Mailbox!mvars
<1>1. TypeOK /\ InHand
    BY DEF RInv, IInv
<1>2. Len(Pending) = Waiting /\ (RingFull <=> Waiting = QueueSize - 1)
    BY <1>1, PendingIs, WaitingType DEF PendingElements
<1>3. CASE Silent
  <2>1. Pending' = Pending /\ buf' = buf /\ rc' = rc
    BY <1>3, RingStays DEF Silent
  <2>2. (pc' # "exited") = (pc # "exited")
    BY <1>3 DEF Silent
  <2> QED
    BY <2>1, <2>2 DEF Mailbox!mvars
<1>4. CASE PosterFills
  <2>1. PICK c \in Callers, m \in Messages :
           /\ Enqueue(m) /\ rc' = [rc EXCEPT ![c] = "ok"]
           /\ UNCHANGED <<buf, pc>>
    BY <1>4 DEF PosterFills
  <2>2. Len(Pending) < QueueSize - 1 /\ Pending' = Append(Pending, m)
    BY <2>1, EnqueueAppends
  <2>3. Mailbox!Accept(c, m)
    BY <2>1, <2>2 DEF Mailbox!Accept
  <2> QED
    BY <2>3 DEF Mailbox!MNext
<1>5. CASE PosterRefused
  <2>1. PICK c \in Callers :
           /\ RingFull /\ rc' = [rc EXCEPT ![c] = "busy"]
           /\ UNCHANGED <<ring, buf, pc>>
    BY <1>5 DEF PosterRefused
  <2>2. Pending' = Pending /\ Len(Pending) = QueueSize - 1
    BY <1>2, <2>1, RingStays
  <2>3. Mailbox!Refuse(c)
    BY <2>1, <2>2 DEF Mailbox!Refuse
  <2> QED
    BY <2>3 DEF Mailbox!MNext
<1>6. CASE ThreadFills
  <2>1. PICK m \in Messages :
           /\ Enqueue(m) /\ rc' = rc
           /\ HandlerEnds \/ (pc \notin {"on_msg", "exited"} /\ UNCHANGED <<pc, buf>>)
    BY <1>6 DEF ThreadFills
  <2>2. Len(Pending) < QueueSize - 1 /\ Pending' = Append(Pending, m)
    BY <2>1, EnqueueAppends
  <2>3. pc # "exited" /\ pc' # "exited" /\ buf' \in {buf, NoMsg}
    BY <2>1 DEF HandlerEnds
  <2>4. Mailbox!OwnPost(m)
    BY <2>1, <2>2, <2>3 DEF Mailbox!OwnPost
  <2> QED
    BY <2>4 DEF Mailbox!MNext
<1>7. CASE OnlyEnds
  <2>1. Pending' = Pending /\ rc' = rc /\ buf' = NoMsg
    BY <1>7, RingStays DEF OnlyEnds, HandlerEnds
  <2>2. pc # "exited" /\ pc' # "exited"
    BY <1>7 DEF OnlyEnds, HandlerEnds
  <2>3. buf # NoMsg
    BY <1>1, <1>7, NoMsgAssumption DEF OnlyEnds, HandlerEnds, InHand
  <2>4. Mailbox!Finish
    BY <2>1, <2>2, <2>3 DEF Mailbox!Finish
  <2> QED
    BY <2>4 DEF Mailbox!MNext
<1>8. CASE LoopEnds
  <2>1. Pending' = Pending /\ buf' = buf /\ rc' = rc
    BY <1>8, RingStays DEF LoopEnds
  <2>2. buf = NoMsg
    BY <1>1, <1>8 DEF LoopEnds, InHand, TypeOK
  <2>3. pc # "exited" /\ pc' = "exited"
    BY <1>8 DEF LoopEnds
  <2>4. Mailbox!Close
    BY <2>1, <2>2, <2>3 DEF Mailbox!Close
  <2> QED
    BY <2>4 DEF Mailbox!MNext
<1>9. CASE Emptied
  <2>1. Waiting' = 0
    BY <1>1, <1>9 DEF Emptied, Waiting, TypeOK
  <2>2. PendingElements'
    BY PendingIs, PTL
  <2>3. Pending' = <<>>
    BY <2>1, <2>2 DEF PendingElements
  <2>4. Mailbox!Discard
    BY <1>9, <2>3 DEF Emptied, Mailbox!Discard
  <2> QED
    BY <2>4 DEF Mailbox!MNext
<1>10. CASE Dequeue
  <2>1. Pending # <<>> /\ buf' = Head(Pending) /\ Pending' = Tail(Pending)
    BY <1>10, DequeueTakes
  <2>2. pc = "msgs" /\ pc' = "on_msg" /\ rc' = rc
    BY <1>10 DEF Dequeue, Goto, posters
  <2>3. buf = NoMsg
    BY <1>1, <2>2 DEF InHand, TypeOK
  <2>4. Mailbox!Deliver
    BY <2>1, <2>2, <2>3 DEF Mailbox!Deliver
  <2> QED
    BY <2>4 DEF Mailbox!MNext
<1> QED
    BY <1>1, <1>3, <1>4, <1>5, <1>6, <1>7, <1>8, <1>9, <1>10, StepKinds

\* A new thread is an empty mailbox that is open.
LEMMA MailboxInit == Init => Mailbox!MInit
<1> SUFFICES ASSUME Init PROVE Mailbox!MInit
    OBVIOUS
<1>1. PendingElements /\ Waiting = 0
    BY InitRInv, PendingIs DEF Init, Waiting
<1>2. Pending = <<>>
    BY <1>1 DEF PendingElements
<1> QED
    BY <1>2 DEF Init, Mailbox!MInit

\* A scheduler thread (nos_transport_local_send, run_loop, deinit_thread) is
\* a bounded first-in first-out mailbox: no accepted message is lost,
\* duplicated or reordered while the loop runs, and none is refused while
\* there is room.
THEOREM ThreadIsMailbox == Spec => ImplementsMailbox
<1>1. RInv /\ [Next]_vars => RInv'
    BY RInvStep
<1>2. RInv /\ RInv' /\ [Next]_vars => [Mailbox!MNext]_Mailbox!mvars
    BY MailboxStep
<1> QED
    BY InitRInv, MailboxInit, <1>1, <1>2, PTL DEF Spec, ImplementsMailbox, Mailbox!MSpec

-----------------------------------------------------------------------------
(***************************************************************************)
(* The timers of the same thread, for every number of timers, capacity and *)
(* set of intervals: types, a heap that holds each running timer once, its *)
(* order, and with it that process_timers leaves no due timer behind.      *)
(***************************************************************************)

\* A set of naturals has a least element.
LEMMA LeastNatural ==
    ASSUME NEW T, T \subseteq Nat, T # {}
    PROVE  \E m \in T : \A l \in T : m <= l
  <1>1. PICK m \in T : \A l \in T : ~(<<l, m>> \in OpToRel(<, Nat))
    BY NatLessThanWellFounded, WFMin, Zenon
  <1>2. \A l \in T : ~(<<l, m>> \in {ss \in Nat \X Nat : ss[1] < ss[2]})
    BY <1>1, Zenon DEF OpToRel
  <1>3. \A l \in T : ~(l < m)
    BY <1>2
  <1> QED
    BY <1>3

Runs(f, m, body, s) == f = [k \in 0 .. m |-> IF k = 0 THEN s ELSE body[f[k - 1]]]

\* The passes of a loop are well defined: the least number of passes that
\* were not would have one before it that is, and one more pass.
LEMMA LoopRuns ==
    ASSUME NEW n \in Nat, NEW body, NEW s
    PROVE  \E f : Runs(f, n, body, s)
  <1> DEFINE T == {m \in Nat : ~\E f : Runs(f, m, body, s)}
  <1>1. SUFFICES ASSUME T # {} PROVE FALSE
    OBVIOUS
  <1>2. PICK m \in T : \A l \in T : m <= l
    BY <1>1, LeastNatural
  <1>3. CASE m = 0
    <2>1. Runs([k \in 0 .. 0 |-> s], 0, body, s)
      BY DEF Runs
    <2> QED
      BY <2>1, <1>2, <1>3
  <1>4. CASE m # 0
    <2>1. m - 1 \in Nat /\ ~(m - 1 \in T)
      BY <1>2, <1>4
    <2>2. PICK g : Runs(g, m - 1, body, s)
      BY <2>1
    <2> DEFINE h == [k \in 0 .. m |-> IF k = m THEN body[g[m - 1]] ELSE g[k]]
    <2>3. ASSUME NEW k \in 0 .. m
          PROVE  h[k] = IF k = 0 THEN s ELSE body[h[k - 1]]
      <3>1. CASE k = m
        <4>1. h[k] = body[g[m - 1]] /\ h[k - 1] = g[m - 1]
          BY <3>1, <1>4
        <4> QED
          BY <4>1, <3>1, <1>4
      <3>2. CASE k # m
        <4>1. k \in 0 .. m - 1 /\ h[k] = g[k]
          BY <3>2, <1>2
        <4>2. g[k] = IF k = 0 THEN s ELSE body[g[k - 1]]
          BY <4>1, <2>2 DEF Runs
        <4>3. k # 0 => h[k - 1] = g[k - 1]
          BY <4>1
        <4> QED
          BY <4>1, <4>2, <4>3
      <3> QED
        BY <3>1, <3>2
    <2>4. Runs(h, m, body, s)
      BY <2>3 DEF Runs
    <2> QED
      BY <2>4, <1>2
  <1> QED
    BY <1>3, <1>4

\* What holds before a loop and is handed on by each pass holds after it.
LEMMA LoopKeeps ==
    ASSUME NEW n \in Nat, NEW body, NEW s, NEW J,
           s \in J[0],
           \A k \in 0 .. n - 1 : \A x \in J[k] : body[x] \in J[k + 1]
    PROVE  Loop(body, s, n) \in J[n]
  <1> DEFINE f == CHOOSE g : Runs(g, n, body, s)
             T == {m \in Nat : m <= n /\ ~(f[m] \in J[m])}
  <1>1. Runs(f, n, body, s)
    BY LoopRuns
  <1>2. Loop(body, s, n) = f[n]
    BY DEF Loop, Runs
  <1> HIDE DEF f
  <1>3. \A k \in 0 .. n : f[k] = IF k = 0 THEN s ELSE body[f[k - 1]]
    BY <1>1 DEF Runs
  <1>4. SUFFICES ASSUME T # {} PROVE FALSE
    BY <1>2
  <1>5. PICK m \in T : \A l \in T : m <= l
    BY <1>4, LeastNatural
  <1>6. m # 0
    BY <1>3, <1>5
  <1>7. m - 1 \in 0 .. n - 1 /\ f[m - 1] \in J[m - 1]
    BY <1>5, <1>6
  <1>8. f[m] = body[f[m - 1]]
    BY <1>3, <1>5, <1>6
  <1>9. body[f[m - 1]] \in J[(m - 1) + 1]
    BY <1>7
  <1>10. (m - 1) + 1 = m
    BY <1>5
  <1> QED
    BY <1>5, <1>8, <1>9, <1>10

\* The array a holds the timers of S in its first n slots, each once.
Holds(a, n, S) ==
    /\ a \in Arrays
    /\ {a[i] : i \in 0 .. n - 1} = S
    /\ \A i, j \in 0 .. n - 1 : a[i] = a[j] => i = j

\* Two slots changing places leave what the array holds.
LEMMA SwapKeeps ==
    ASSUME Capacity \in Nat, NEW n \in 0 .. Capacity, NEW S, NEW a, Holds(a, n, S),
           NEW i \in 0 .. n - 1, NEW j \in 0 .. n - 1
    PROVE  Holds(Swap(a, i, j), n, S)
  <1> DEFINE b == Swap(a, i, j)
             p(k) == IF k = i THEN j ELSE IF k = j THEN i ELSE k
  <1>1. a \in [0 .. Capacity - 1 -> TimerObjects \cup {Nil}]
    BY DEF Holds, Arrays, Slots
  <1>2. b \in Arrays /\ \A k \in 0 .. n - 1 : b[k] = a[p(k)] /\ p(k) \in 0 .. n - 1
    BY <1>1 DEF Swap, Arrays, Slots
  <1>3. \A k \in 0 .. n - 1 : p(p(k)) = k
    OBVIOUS
  <1> HIDE DEF b, p
  <1>4. {b[k] : k \in 0 .. n - 1} = S
    <2>1. \A k \in 0 .. n - 1 : b[k] \in S
      BY <1>2 DEF Holds
    <2>2. ASSUME NEW k \in 0 .. n - 1 PROVE a[k] \in {b[q] : q \in 0 .. n - 1}
      BY <1>2, <1>3
    <2> QED
      BY <2>1, <2>2 DEF Holds
  <1>5. ASSUME NEW k \in 0 .. n - 1, NEW q \in 0 .. n - 1, b[k] = b[q] PROVE k = q
    <2>1. p(k) = p(q)
      BY <1>2, <1>5 DEF Holds
    <2> QED
      BY <2>1, <1>3
  <1> QED
    BY <1>2, <1>4, <1>5 DEF Holds, b

\* The parent of a slot, and the slots a parent has.
LEMMA ParentFacts ==
    /\ \A i \in Nat \ {0} : /\ Parent(i) \in Nat /\ Parent(i) < i
                            /\ \/ i = 2 * Parent(i) + 1
                               \/ i = 2 * Parent(i) + 2
    /\ \A i \in Nat : Parent(2 * i + 1) = i /\ Parent(2 * i + 2) = i
BY DEF Parent

\* The passes of the two loops over arrays that hold S in n slots.
Held(n, S) == {x \in Arrays \X Slots : Holds(x[1], n, S)}

\* heapify_up only moves the timers of the heap about.
LEMMA UpKeeps ==
    ASSUME Capacity \in Nat, NEW n \in 0 .. Capacity, NEW S, NEW a, Holds(a, n, S),
           NEW i \in 0 .. n - 1, NEW e
    PROVE  Holds(HeapifyUp(a, i, e), n, S)
  <1> DEFINE X == {x \in Held(n, S) : x[2] < n}
             J == [k \in Nat |-> X]
             body == UpBody(e)
  <1>1. <<a, i>> \in J[0]
    BY DEF Held, Holds, Slots
  <1>2. ASSUME NEW x \in X PROVE body[x] \in X
    <2>1. x \in Arrays \X Slots
      BY DEF Held
    <2> DEFINE b == x[1]
               q == x[2]
               r == Parent(q)
    <2>2. x = <<b, q>> /\ q \in 0 .. n - 1 /\ Holds(b, n, S)
      BY <2>1 DEF Held, Slots
    <2>3. body[x] = IF q = 0 \/ e[b[q]] >= e[b[r]] THEN x
                    ELSE <<Swap(b, q, r), r>>
      BY <2>1 DEF UpBody
    <2>4. CASE q = 0
      BY <2>3, <2>4
    <2>5. CASE q # 0
      <3>1. r \in 0 .. n - 1
        BY <2>2, <2>5, ParentFacts
      <3>2. Holds(Swap(b, q, r), n, S)
        BY <2>2, <3>1, SwapKeeps
      <3>3. <<Swap(b, q, r), r>> \in X
        BY <3>1, <3>2 DEF Held, Holds, Slots
      <3> QED
        BY <2>3, <3>3
    <2> QED
      BY <2>4, <2>5
  <1>3. \A k \in 0 .. Capacity - 1 : \A x \in J[k] : body[x] \in J[k + 1]
    BY <1>2
  <1> HIDE DEF J, body
  <1>4. Loop(body, <<a, i>>, Capacity) \in J[Capacity]
    BY <1>1, <1>3, LoopKeeps
  <1> QED
    BY <1>4 DEF J, body, Held, HeapifyUp

\* So does heapify_down, from a slot of the heap or from its end.
LEMMA DownKeeps ==
    ASSUME Capacity \in Nat, NEW n \in 0 .. Capacity, NEW S, NEW a, Holds(a, n, S),
           NEW i \in Slots, NEW e
    PROVE  Holds(HeapifyDown(a, i, n, e), n, S)
  <1> DEFINE X == Held(n, S)
             J == [k \in Nat |-> X]
             body == DownBody(n, e)
  <1>1. <<a, i>> \in J[0]
    BY DEF Held, Holds
  <1>2. ASSUME NEW x \in X PROVE body[x] \in X
    <2>1. x \in Arrays \X Slots
      BY DEF Held
    <2> DEFINE b == x[1]
               q == x[2]
               c == Child(b, q, n, e)
    <2>2. x = <<b, q>> /\ q \in 0 .. Capacity - 1 /\ Holds(b, n, S)
      BY <2>1 DEF Held, Slots
    <2>3. body[x] = IF 2 * q + 1 >= n \/ e[b[q]] <= e[b[c]] THEN x
                    ELSE <<Swap(b, q, c), c>>
      BY <2>1 DEF DownBody
    <2>4. CASE 2 * q + 1 >= n
      BY <2>3, <2>4
    <2>5. CASE 2 * q + 1 < n
      <3>1. c \in 0 .. n - 1 /\ q \in 0 .. n - 1
        BY <2>2, <2>5 DEF Child
      <3>2. Holds(Swap(b, q, c), n, S)
        BY <2>2, <3>1, SwapKeeps
      <3>3. <<Swap(b, q, c), c>> \in X
        BY <3>1, <3>2 DEF Held, Holds, Slots
      <3> QED
        BY <2>3, <3>3
    <2> QED
      BY <2>2, <2>4, <2>5
  <1>3. \A k \in 0 .. Capacity - 1 : \A x \in J[k] : body[x] \in J[k + 1]
    BY <1>2
  <1> HIDE DEF J, body
  <1>4. Loop(body, <<a, i>>, Capacity) \in J[Capacity]
    BY <1>1, <1>3, LoopKeeps
  <1> QED
    BY <1>4 DEF J, body, Held, HeapifyDown

\* A timer put behind the last one is held with the others.
LEMMA AppendHolds ==
    ASSUME Capacity \in Nat, NEW n \in 0 .. Capacity - 1, NEW S, NEW a, Holds(a, n, S),
           NEW t \in TimerObjects, t \notin S
    PROVE  Holds([a EXCEPT ![n] = t], n + 1, S \cup {t})
  <1> DEFINE b == [a EXCEPT ![n] = t]
  <1>1. a \in [0 .. Capacity - 1 -> TimerObjects \cup {Nil}]
    BY DEF Holds, Arrays, Slots
  <1>2. b \in Arrays /\ b[n] = t /\ \A i \in 0 .. n - 1 : b[i] = a[i]
    BY <1>1 DEF Arrays, Slots
  <1> HIDE DEF b
  <1>3. \A i \in 0 .. n : i = n \/ i \in 0 .. n - 1
    OBVIOUS
  <1>4. {b[i] : i \in 0 .. (n + 1) - 1} = S \cup {t}
    <2>1. \A i \in 0 .. n : b[i] \in S \cup {t}
      BY <1>2, <1>3 DEF Holds
    <2>2. ASSUME NEW s \in S PROVE s \in {b[i] : i \in 0 .. n}
      <3>1. PICK i \in 0 .. n - 1 : s = a[i]
        BY DEF Holds
      <3>2. i \in 0 .. n /\ s = b[i]
        BY <3>1, <1>2
      <3> QED
        BY <3>2
    <2>3. t \in {b[i] : i \in 0 .. n}
      <3>1. n \in 0 .. n /\ t = b[n]
        BY <1>2
      <3> QED
        BY <3>1
    <2>4. 0 .. (n + 1) - 1 = 0 .. n
      OBVIOUS
    <2> QED
      BY <2>1, <2>2, <2>3, <2>4
  <1>5. ASSUME NEW i \in 0 .. (n + 1) - 1, NEW j \in 0 .. (n + 1) - 1, b[i] = b[j]
        PROVE  i = j
    <2>1. \A k \in 0 .. n - 1 : b[k] # t
      BY <1>2 DEF Holds
    <2>2. (i = n \/ i \in 0 .. n - 1) /\ (j = n \/ j \in 0 .. n - 1)
      BY <1>3
    <2> QED
      BY <2>1, <2>2, <1>2, <1>5 DEF Holds
  <1> QED
    BY <1>2, <1>4, <1>5 DEF Holds, b

\* The last timer put in the place of another: the others are held.
Replaced(a, n, i) == [a EXCEPT ![i] = a[n - 1], ![n - 1] = Nil]

LEMMA ReplaceHolds ==
    ASSUME Capacity \in Nat, NEW n \in 1 .. Capacity, NEW S, NEW a, Holds(a, n, S),
           NEW i \in 0 .. n - 1
    PROVE  Holds(Replaced(a, n, i), n - 1, S \ {a[i]})
  <1> DEFINE b == Replaced(a, n, i)
             p(k) == IF k = i THEN n - 1 ELSE k
  <1>1. a \in [0 .. Capacity - 1 -> TimerObjects \cup {Nil}]
    BY DEF Holds, Arrays, Slots
  <1>2. b \in Arrays
    BY <1>1 DEF Arrays, Slots, Replaced
  <1>3. ASSUME NEW k \in 0 .. n - 2 PROVE b[k] = a[p(k)] /\ p(k) \in 0 .. n - 1 /\ p(k) # i
    BY <1>1 DEF Replaced
  <1>4. \A k \in 0 .. n - 1 : k # i => \E q \in 0 .. n - 2 : p(q) = k
    <2> TAKE k \in 0 .. n - 1
    <2> HAVE k # i
    <2>1. CASE k = n - 1
      <3>1. i \in 0 .. n - 2 /\ p(i) = k
        BY <2>1
      <3> QED
        BY <3>1
    <2>2. CASE k # n - 1
      <3>1. k \in 0 .. n - 2 /\ p(k) = k
        BY <2>2
      <3> QED
        BY <3>1
    <2> QED
      BY <2>1, <2>2
  <1>5. \A k, q \in 0 .. n - 2 : p(k) = p(q) => k = q
    OBVIOUS
  <1>6. 0 .. (n - 1) - 1 = 0 .. n - 2
    OBVIOUS
  <1> HIDE DEF b, p
  <1>7. {b[k] : k \in 0 .. n - 2} = S \ {a[i]}
    <2>1. \A k \in 0 .. n - 2 : b[k] \in S \ {a[i]}
      BY <1>3 DEF Holds
    <2>2. ASSUME NEW s \in S \ {a[i]} PROVE s \in {b[k] : k \in 0 .. n - 2}
      <3>1. PICK k \in 0 .. n - 1 : s = a[k]
        BY DEF Holds
      <3>2. PICK q \in 0 .. n - 2 : p(q) = k
        BY <3>1, <1>4
      <3>3. s = b[q]
        BY <3>1, <3>2, <1>3
      <3> QED
        BY <3>3
    <2> QED
      BY <2>1, <2>2
  <1>8. ASSUME NEW k \in 0 .. n - 2, NEW q \in 0 .. n - 2, b[k] = b[q] PROVE k = q
    <2>1. p(k) = p(q)
      BY <1>3, <1>8 DEF Holds
    <2> QED
      BY <2>1, <1>5
  <1> QED
    BY <1>2, <1>6, <1>7, <1>8 DEF Holds, b

\* What a heap holds has as many members as the heap.
LEMMA HoldsCount ==
    ASSUME Capacity \in Nat, NEW n \in 0 .. Capacity, NEW S, NEW a, Holds(a, n, S)
    PROVE  IsFiniteSet(S) /\ Cardinality(S) = n
  <1> DEFINE f == [k \in 0 .. n - 1 |-> a[k]]
  <1>1. f \in Bijection(0 .. n - 1, S)
    <2>1. f \in [0 .. n - 1 -> S] /\ \A k \in 0 .. n - 1 : f[k] = a[k]
      BY DEF Holds
    <2> HIDE DEF f
    <2>2. \A s \in S : \E k \in 0 .. n - 1 : f[k] = s
      BY <2>1 DEF Holds
    <2>3. \A k, q \in 0 .. n - 1 : f[k] = f[q] => k = q
      BY <2>1 DEF Holds
    <2> QED
      BY <2>1, <2>2, <2>3 DEF Bijection, Injection, Surjection, IsInjective
  <1>2. IsFiniteSet(0 .. n - 1) /\ Cardinality(0 .. n - 1) = n
    <2>1. n - 1 \in Int
      OBVIOUS
    <2> QED
      BY <2>1, FS_Interval
  <1>3. ExistsBijection(0 .. n - 1, S)
    BY <1>1 DEF ExistsBijection
  <1> QED
    BY <1>2, <1>3, FS_Bijection

-----------------------------------------------------------------------------
RunningTimers == {t \in created : is_running[t]}

\* A timer whose callback is being called exists, and runs only if it was
\* started again as one that is not periodic: what process_timers relies on
\* when it pushes a periodic timer back.
CallbackTimer ==
    place = "callback" => /\ timer \in created
                          /\ period[timer] > 0 => ~is_running[timer]

HeapInv ==
    /\ TimerTypeOK
    /\ Holds(nodes, size, RunningTimers)
    /\ \A t \in TimerObjects : is_running[t] => t \in created
    /\ CallbackTimer

\* What the invariant says of the heap is the property the runs check.
LEMMA HoldsRunning == TimerTypeOK => (HeapInv <=> HeapHoldsRunning /\ CallbackTimer)
BY DEF HeapInv, HeapHoldsRunning, Holds, RunningTimers, TimerTypeOK

\* A push adds its timer to what the heap holds.
LEMMA PushHolds ==
    ASSUME TimerTypeOK, NEW S, Holds(nodes, size, S), NEW t \in TimerObjects, t \notin S,
           size < Capacity, NEW e, Push(t, e)
    PROVE  /\ Holds(nodes', size', S \cup {t})
           /\ nodes' \in Arrays /\ size' \in 0 .. Capacity
  <1> DEFINE b == [nodes EXCEPT ![size] = t]
  <1>1. Capacity \in Nat /\ size \in 0 .. Capacity - 1
    BY TimerAssumption DEF TimerTypeOK
  <1>2. Holds(b, size + 1, S \cup {t})
    BY <1>1, AppendHolds
  <1>3. size + 1 \in 0 .. Capacity /\ size \in 0 .. (size + 1) - 1
    BY <1>1
  <1>4. Holds(HeapifyUp(b, size, e), size + 1, S \cup {t})
    BY <1>1, <1>2, <1>3, UpKeeps
  <1>5. nodes' = HeapifyUp(b, size, e) /\ size' = size + 1
    BY DEF Push
  <1> HIDE DEF b
  <1>6. Holds(nodes', size', S \cup {t})
    BY <1>4, <1>5
  <1> QED
    BY <1>3, <1>5, <1>6 DEF Holds

\* A removal takes away its timer and no other.
LEMMA RemoveHolds ==
    ASSUME TimerTypeOK, NEW S, Holds(nodes, size, S), NEW i \in 0 .. size - 1,
           Remove(i)
    PROVE  /\ Holds(nodes', size', S \ {nodes[i]})
           /\ nodes' \in Arrays /\ size' \in 0 .. Capacity /\ misplaced' \in BOOLEAN
  <1>1. Capacity \in Nat /\ size \in 1 .. Capacity
    BY TimerAssumption DEF TimerTypeOK
  <1>2. Holds(Replaced(nodes, size, i), size - 1, S \ {nodes[i]})
    BY <1>1, ReplaceHolds
  <1>3. size - 1 \in 0 .. Capacity /\ i \in Slots
    BY <1>1 DEF Slots
  <1>4. Holds(HeapifyDown(Replaced(nodes, size, i), i, size - 1, expire_at),
              size - 1, S \ {nodes[i]})
    BY <1>1, <1>2, <1>3, DownKeeps
  <1>5. /\ nodes' = HeapifyDown(Replaced(nodes, size, i), i, size - 1, expire_at)
        /\ size' = size - 1
    BY DEF Remove, Replaced
  <1>6. misplaced' \in BOOLEAN
    BY DEF Remove
  <1> QED
    BY <1>3, <1>4, <1>5, <1>6 DEF Holds

\* What nos_scheduler_init_thread sets up satisfies the invariant.
LEMMA HeapInit == TimerInit => HeapInv
  <1> SUFFICES ASSUME TimerInit PROVE HeapInv
    OBVIOUS
  <1>0. misplaced \in BOOLEAN
    BY DEF TimerInit
  <1>1. TimerTypeOK
    BY <1>0, TimerAssumption DEF TimerInit, TimerTypeOK, Arrays, Slots
  <1>2. Holds(nodes, size, RunningTimers)
    BY <1>1 DEF TimerInit, Holds, RunningTimers, TimerTypeOK
  <1> QED
    BY <1>1, <1>2 DEF HeapInv, CallbackTimer, TimerInit

\* nos_timer_start keeps the invariant.
LEMMA StartStep ==
    ASSUME HeapInv, NEW t \in TimerObjects, NEW d \in Intervals, NEW p \in BOOLEAN,
           Start(t, d, p)
    PROVE  HeapInv'
  <1> USE DEF HeapInv
  <1>1. t \in created /\ t \notin RunningTimers /\ size < Capacity /\ Push(t, expire_at')
    BY DEF Start, MayTouch, RunningTimers
  <1>2. /\ Holds(nodes', size', RunningTimers \cup {t})
        /\ nodes' \in Arrays /\ size' \in 0 .. Capacity
    BY <1>1, PushHolds
  <1>3. RunningTimers' = RunningTimers \cup {t}
    BY <1>1 DEF Start, RunningTimers, TimerTypeOK
  <1>4. TimerTypeOK'
    BY <1>2, TimerAssumption DEF Start, TimerTypeOK, locals
  <1>5. CallbackTimer'
    BY <1>1 DEF Start, MayTouch, CallbackTimer, TimerTypeOK, locals
  <1> QED
    BY <1>1, <1>2, <1>3, <1>4, <1>5 DEF Start, TimerTypeOK

\* A timer that leaves the heap runs no more: nos_timer_stop, nos_timer_delete
\* and the top of process_timers' loop.
LEMMA LeaveStep ==
    ASSUME HeapInv, NEW i \in 0 .. size - 1, Remove(i),
           Cleared(nodes[i]), created' \in {created, created \ {nodes[i]}}
    PROVE  /\ nodes[i] \in TimerObjects /\ nodes[i] \in created /\ is_running[nodes[i]]
           /\ Holds(nodes', size', RunningTimers') /\ \A t \in TimerObjects : is_running'[t] => t \in created'
           /\ nodes' \in Arrays /\ size' \in 0 .. Capacity /\ misplaced' \in BOOLEAN
           /\ expire_at' \in [TimerObjects -> Nat] /\ is_running' \in [TimerObjects -> BOOLEAN]
  <1> USE DEF HeapInv
  <1>1. nodes[i] \in RunningTimers
    BY DEF Holds
  <1>2. nodes[i] \in TimerObjects /\ nodes[i] \in created /\ is_running[nodes[i]]
    BY <1>1 DEF RunningTimers, TimerTypeOK
  <1>3. /\ Holds(nodes', size', RunningTimers \ {nodes[i]})
        /\ nodes' \in Arrays /\ size' \in 0 .. Capacity /\ misplaced' \in BOOLEAN
    BY RemoveHolds
  <1>4. RunningTimers' = RunningTimers \ {nodes[i]}
    BY <1>2 DEF Cleared, RunningTimers, TimerTypeOK
  <1>5. expire_at' \in [TimerObjects -> Nat] /\ is_running' \in [TimerObjects -> BOOLEAN]
    BY DEF Cleared, TimerTypeOK
  <1>6. \A t \in TimerObjects : is_running'[t] => t \in created'
    BY <1>2 DEF Cleared, TimerTypeOK
  <1> QED
    BY <1>2, <1>3, <1>4, <1>5, <1>6

\* nos_timer_stop keeps the invariant.
LEMMA StopStep ==
    ASSUME HeapInv, NEW t \in TimerObjects, Stop(t)
    PROVE  HeapInv'
  <1> USE DEF HeapInv
  <1>1. PICK i \in 0 .. size - 1 : nodes[i] = t /\ Remove(i)
    BY DEF Stop
  <1>2. Cleared(nodes[i]) /\ created' = created
    BY <1>1 DEF Stop
  <1>3. /\ Holds(nodes', size', RunningTimers') /\ \A u \in TimerObjects : is_running'[u] => u \in created'
        /\ nodes' \in Arrays /\ size' \in 0 .. Capacity /\ misplaced' \in BOOLEAN
        /\ expire_at' \in [TimerObjects -> Nat] /\ is_running' \in [TimerObjects -> BOOLEAN]
    BY <1>1, <1>2, LeaveStep
  <1>4. TimerTypeOK'
    BY <1>3 DEF Stop, TimerTypeOK, locals
  <1>5. CallbackTimer'
    BY DEF Stop, Cleared, CallbackTimer, TimerTypeOK, locals
  <1> QED
    BY <1>3, <1>4, <1>5

\* nos_timer_delete keeps the invariant, whether the timer runs or not.
LEMMA DeleteStep ==
    ASSUME HeapInv, NEW t \in TimerObjects, Delete(t)
    PROVE  HeapInv'
  <1> USE DEF HeapInv
  <1>1. CASE is_running[t]
    <2>1. PICK i \in 0 .. size - 1 : nodes[i] = t /\ Remove(i)
      BY <1>1 DEF Delete
    <2>2. Cleared(nodes[i]) /\ created' = created \ {nodes[i]}
      BY <2>1 DEF Delete
    <2>3. /\ Holds(nodes', size', RunningTimers') /\ \A u \in TimerObjects : is_running'[u] => u \in created'
          /\ nodes' \in Arrays /\ size' \in 0 .. Capacity /\ misplaced' \in BOOLEAN
          /\ expire_at' \in [TimerObjects -> Nat] /\ is_running' \in [TimerObjects -> BOOLEAN]
      BY <2>1, <2>2, LeaveStep
    <2>4. TimerTypeOK'
      BY <2>3 DEF Delete, TimerTypeOK, locals
    <2>5. CallbackTimer'
      BY DEF Delete, Cleared, CallbackTimer, TimerTypeOK, locals
    <2> QED
      BY <2>3, <2>4, <2>5
  <1>2. CASE ~is_running[t]
    <2>1. UNCHANGED <<nodes, size, misplaced>>
      BY <1>2 DEF Delete, heap
    <2>2. RunningTimers' = RunningTimers
      BY <1>2 DEF Delete, Cleared, RunningTimers, TimerTypeOK
    <2>3. TimerTypeOK'
      BY <2>1 DEF Delete, Cleared, TimerTypeOK, locals
    <2>4. CallbackTimer'
      BY DEF Delete, Cleared, CallbackTimer, TimerTypeOK, locals
    <2>5. \A u \in TimerObjects : is_running'[u] => u \in created'
      BY <1>2 DEF Delete, Cleared, TimerTypeOK
    <2> QED
      BY <2>1, <2>2, <2>3, <2>4, <2>5
  <1> QED
    BY <1>1, <1>2

\* process_timers takes the earliest timer out and calls its callback.
LEMMA FireStep ==
    ASSUME HeapInv, Fire
    PROVE  HeapInv'
  <1> USE DEF HeapInv
  <1>1. 0 \in 0 .. size - 1 /\ Remove(0) /\ Cleared(nodes[0]) /\ created' = created
    BY DEF Fire, Due, TimerTypeOK
  <1>2. /\ nodes[0] \in TimerObjects /\ nodes[0] \in created /\ is_running[nodes[0]]
        /\ Holds(nodes', size', RunningTimers') /\ \A u \in TimerObjects : is_running'[u] => u \in created'
        /\ nodes' \in Arrays /\ size' \in 0 .. Capacity /\ misplaced' \in BOOLEAN
        /\ expire_at' \in [TimerObjects -> Nat] /\ is_running' \in [TimerObjects -> BOOLEAN]
    BY <1>1, LeaveStep
  <1>3. TimerTypeOK'
    BY <1>2 DEF Fire, TimerTypeOK
  <1>4. CallbackTimer'
    BY <1>2 DEF Fire, Cleared, CallbackTimer, TimerTypeOK
  <1> QED
    BY <1>2, <1>3, <1>4

\* A periodic timer is pushed back without a look at the capacity: there is
\* room, because the heap holds each of the other timers at most once.
LEMMA RoomToReturn ==
    ASSUME HeapInv, Return, period[timer] > 0
    PROVE  size < Capacity
  <1> USE DEF HeapInv
  <1>1. timer \in TimerObjects /\ timer \notin RunningTimers
    BY DEF Return, CallbackTimer, TimerTypeOK, RunningTimers
  <1>2. Capacity \in Nat /\ IsFiniteSet(TimerObjects) /\ Cardinality(TimerObjects) <= Capacity
    BY TimerAssumption
  <1>3. size \in 0 .. Capacity
    BY DEF TimerTypeOK
  <1>4. Cardinality(RunningTimers) = size /\ RunningTimers \in SUBSET (TimerObjects \ {timer})
    BY <1>1, <1>2, <1>3, HoldsCount DEF RunningTimers, TimerTypeOK
  <1>5. IsFiniteSet(TimerObjects \ {timer}) /\ Cardinality(TimerObjects \ {timer}) = Cardinality(TimerObjects) - 1
    BY <1>1, <1>2, FS_RemoveElement
  <1>6. Cardinality(RunningTimers) <= Cardinality(TimerObjects \ {timer})
    BY <1>4, <1>5, FS_Subset
  <1>7. Cardinality(TimerObjects) \in Nat
    BY <1>2, FS_CardinalityType
  <1> QED
    BY <1>2, <1>4, <1>5, <1>6, <1>7, <1>3

\* The timer is pushed back when its callback returns, or left alone.
LEMMA ReturnStep ==
    ASSUME HeapInv, Return
    PROVE  HeapInv'
  <1> USE DEF HeapInv
  <1>1. timer \in created /\ timer \in TimerObjects /\ place = "callback"
    BY DEF Return, CallbackTimer, TimerTypeOK
  <1>2. CASE period[timer] > 0
    <2>1. timer \notin RunningTimers /\ Push(timer, expire_at')
      BY <1>1, <1>2 DEF Return, CallbackTimer, RunningTimers
    <2>2. size < Capacity
      BY <1>2, RoomToReturn
    <2>3. /\ Holds(nodes', size', RunningTimers \cup {timer})
          /\ nodes' \in Arrays /\ size' \in 0 .. Capacity
      BY <1>1, <2>1, <2>2, PushHolds
    <2>4. RunningTimers' = RunningTimers \cup {timer}
      BY <1>1, <1>2 DEF Return, RunningTimers, TimerTypeOK
    <2>5. TimerTypeOK'
      <3>1. clock + period[timer] \in Nat
        <4>1. PICK d \in Intervals \cup {0} : d = period[timer]
          BY <1>1 DEF TimerTypeOK
        <4>2. d \in Nat
          BY TimerAssumption
        <4>3. clock \in Nat
          BY TimerAssumption DEF TimerTypeOK
        <4> QED
          BY <4>1, <4>2, <4>3
      <3>2. expire_at' \in [TimerObjects -> Nat] /\ is_running' \in [TimerObjects -> BOOLEAN]
        BY <1>2, <3>1 DEF Return, TimerTypeOK
      <3> QED
        BY <2>3, <3>2 DEF Return, TimerTypeOK
    <2>6. CallbackTimer' /\ \A u \in TimerObjects : is_running'[u] => u \in created'
      BY <1>1, <1>2 DEF Return, CallbackTimer, TimerTypeOK
    <2> QED
      BY <2>3, <2>4, <2>5, <2>6
  <1>3. CASE ~(period[timer] > 0)
    <2>1. UNCHANGED <<nodes, size, created, is_running, expire_at>>
      BY <1>3 DEF Return, heap
    <2>2. TimerTypeOK' /\ CallbackTimer'
      BY <2>1 DEF Return, TimerTypeOK, CallbackTimer
    <2> QED
      BY <2>1, <2>2 DEF RunningTimers
  <1> QED
    BY <1>2, <1>3

\* Every step of the timers keeps the invariant.
LEMMA HeapStep == HeapInv /\ [TimerNext]_timerVars => HeapInv'
  <1> SUFFICES ASSUME HeapInv, [TimerNext]_timerVars PROVE HeapInv'
    OBVIOUS
  <1>1. CASE Tick \/ Begin \/ End \/ UNCHANGED timerVars
    BY <1>1, TimerAssumption DEF HeapInv, Tick, Begin, End, timerVars, heap, fields,
       locals, TimerTypeOK, RunningTimers, CallbackTimer
  <1>2. ASSUME NEW t \in TimerObjects, Create(t) PROVE HeapInv'
    <2>1. RunningTimers' = RunningTimers
      BY <1>2 DEF Create, HeapInv, fields, RunningTimers, TimerTypeOK
    <2> QED
      BY <1>2, <2>1 DEF HeapInv, Create, heap, fields, locals, TimerTypeOK,
         CallbackTimer
  <1>3. CASE Component
    BY <1>2, <1>3, StopStep, DeleteStep, StartStep DEF Component
  <1> QED
    BY <1>1, <1>3, FireStep, ReturnStep DEF TimerNext, ProcessTimers

LEMMA HeapAlways == TimerSpec => []HeapInv
  <1>1. TimerInit => HeapInv
    BY HeapInit
  <1>2. HeapInv /\ [TimerNext]_timerVars => HeapInv'
    BY HeapStep
  <1> QED
    BY <1>1, <1>2, PTL DEF TimerSpec

\* The heap, the timers and the locals of process_timers keep their types.
THEOREM TimersTypeCorrect == TimerSpec => []TimerTypeOK
  <1>1. HeapInv => TimerTypeOK
    BY DEF HeapInv
  <1> QED
    BY <1>1, HeapAlways, PTL

\* The heap of the thread holds exactly the running timers, each once.
THEOREM HeapExact == TimerSpec => []HeapHoldsRunning
  <1>1. HeapInv => HeapHoldsRunning
    BY HoldsRunning DEF HeapInv
  <1> QED
    BY <1>1, HeapAlways, PTL

-----------------------------------------------------------------------------
\* In a heap of n slots a parent is a slot before its children's.
LEMMA ParentInHeap ==
    ASSUME NEW n \in Nat, NEW j \in 1 .. n - 1
    PROVE  Parent(j) \in 0 .. n - 1 /\ Parent(j) < j
  <1>1. j \in Nat \ {0}
    OBVIOUS
  <1>2. PICK p \in Nat : p = Parent(j) /\ p < j
    BY <1>1, ParentFacts
  <1> QED
    BY <1>2

\* The order of the heap, on the times v of its n slots: no slot is earlier
\* than its parent.
Ordered(v, n) == \A j \in 1 .. n - 1 : v[Parent(j)] <= v[j]

\* The order in the middle of a sift: but between i and its parent (going up)
\* or between i and its children (going down), and around i.
Around(v, n, i) ==
    i > 0 => \A j \in 1 .. n - 1 : Parent(j) = i => v[Parent(i)] <= v[j]
Rising(v, n, i) ==
    /\ \A j \in 1 .. n - 1 : j # i => v[Parent(j)] <= v[j]
    /\ Around(v, n, i)
Sinking(v, n, i) ==
    /\ \A j \in 1 .. n - 1 : Parent(j) # i => v[Parent(j)] <= v[j]
    /\ Around(v, n, i)

\* The time of slot i is one to swap with that of slot j.
Swapped(v, w, n, i, j) ==
    /\ w[i] = v[j] /\ w[j] = v[i]
    /\ \A k \in 0 .. n - 1 : k # i /\ k # j => w[k] = v[k]

\* A pass of heapify_up.
LEMMA UpPass ==
    ASSUME NEW n \in Nat, NEW v \in [0 .. n - 1 -> Nat], NEW w \in [0 .. n - 1 -> Nat],
           NEW i \in 1 .. n - 1, Rising(v, n, i), v[i] < v[Parent(i)],
           Swapped(v, w, n, i, Parent(i))
    PROVE  Rising(w, n, Parent(i))
  <1> DEFINE p == Parent(i)
  <1>1. p \in 0 .. n - 1 /\ p < i
    BY ParentInHeap
  <1>2. ASSUME NEW j \in 1 .. n - 1
        PROVE  Parent(j) \in 0 .. n - 1 /\ Parent(j) < j
    BY ParentInHeap
  <1>3. v[i] \in Nat /\ v[p] \in Nat
    BY <1>1
  <1>4. ASSUME NEW j \in 1 .. n - 1, j # p PROVE w[Parent(j)] <= w[j]
    <2>0. PICK q \in 0 .. n - 1 : q = Parent(j)
      BY <1>2
    <2>1. v[j] \in Nat /\ v[q] \in Nat
      OBVIOUS
    <2>2. CASE j = i
      BY <2>0, <2>2, <1>3 DEF Swapped
    <2>3. CASE j # i /\ Parent(j) = i
      BY <2>0, <2>1, <2>3, <1>1, <1>3, <1>4 DEF Swapped, Rising, Around
    <2>4. CASE j # i /\ Parent(j) = p
      BY <2>0, <2>1, <2>4, <1>3, <1>4 DEF Swapped, Rising
    <2>5. CASE j # i /\ Parent(j) # i /\ Parent(j) # p
      BY <2>0, <2>1, <2>5, <1>4 DEF Swapped, Rising
    <2> QED
      BY <2>2, <2>3, <2>4, <2>5
  <1>5. ASSUME p > 0, NEW j \in 1 .. n - 1, Parent(j) = p PROVE w[Parent(p)] <= w[j]
    <2>1. p \in 1 .. n - 1 /\ p # i
      BY <1>1, <1>5
    <2>2. Parent(p) \in 0 .. n - 1 /\ Parent(p) < p /\ v[Parent(p)] \in Nat
      BY <2>1, <1>2
    <2>3. v[Parent(p)] <= v[p]
      BY <2>1 DEF Rising
    <2>4. w[Parent(p)] = v[Parent(p)]
      <3>1. Parent(p) # i /\ Parent(p) # p
        BY <2>2, <1>1
      <3> QED
        BY <3>1, <2>2 DEF Swapped
    <2>5. CASE j = i
      BY <2>3, <2>4, <2>5 DEF Swapped
    <2>6. CASE j # i
      <3>1. v[p] <= v[j] /\ j # p /\ w[j] = v[j] /\ v[j] \in Nat
        BY <2>6, <1>2, <1>5 DEF Rising, Swapped
      <3> QED
        BY <3>1, <2>2, <2>3, <2>4, <1>3
    <2> QED
      BY <2>5, <2>6
  <1> QED
    BY <1>4, <1>5 DEF Rising, Around

\* A pass of heapify_down, to a child c that is not later than the other.
LEMMA DownPass ==
    ASSUME NEW n \in Nat, NEW v \in [0 .. n - 1 -> Nat], NEW w \in [0 .. n - 1 -> Nat],
           NEW i \in 0 .. n - 1, NEW c \in 1 .. n - 1, Parent(c) = i,
           \A j \in 1 .. n - 1 : Parent(j) = i => v[c] <= v[j],
           Sinking(v, n, i), v[c] < v[i], Swapped(v, w, n, i, c)
    PROVE  Sinking(w, n, c)
  <1>1. ASSUME NEW j \in 1 .. n - 1
        PROVE  Parent(j) \in 0 .. n - 1 /\ Parent(j) < j
    BY ParentInHeap
  <1>2. v[i] \in Nat /\ v[c] \in Nat /\ i < c
    BY <1>1
  <1>3. ASSUME NEW j \in 1 .. n - 1, Parent(j) # c PROVE w[Parent(j)] <= w[j]
    <2>0. PICK q \in 0 .. n - 1 : q = Parent(j) /\ q < j
      BY <1>1
    <2>1. v[j] \in Nat /\ v[q] \in Nat
      OBVIOUS
    <2>2. CASE j = c
      BY <2>0, <2>2, <1>2 DEF Swapped
    <2>3. CASE j # c /\ Parent(j) = i
      BY <2>0, <2>1, <2>3 DEF Swapped
    <2>4. CASE j = i
      <3>1. w[j] = v[c] /\ w[Parent(j)] = v[Parent(j)]
        BY <2>0, <2>1, <2>4, <1>2 DEF Swapped
      <3>2. v[Parent(j)] <= v[c]
        BY <2>4 DEF Sinking, Around
      <3> QED
        BY <3>1, <3>2
    <2>5. CASE j # c /\ j # i /\ Parent(j) # i
      BY <2>0, <2>1, <2>5, <1>3 DEF Swapped, Sinking
    <2> QED
      BY <2>2, <2>3, <2>4, <2>5
  <1>4. ASSUME NEW j \in 1 .. n - 1, Parent(j) = c PROVE w[Parent(c)] <= w[j]
    <2>1. v[c] <= v[j] /\ j # i /\ j # c
      BY <1>1, <1>2, <1>4 DEF Sinking
    <2> QED
      BY <2>1 DEF Swapped
  <1> QED
    BY <1>3, <1>4 DEF Sinking, Around

\* In an ordered heap the root is among the earliest: a slot with an earlier
\* time, the first of them, would have a parent that is earlier too.
LEMMA RootEarliest ==
    ASSUME NEW n \in Nat, NEW v \in [0 .. n - 1 -> Nat], Ordered(v, n), NEW i \in 0 .. n - 1
    PROVE  v[0] <= v[i]
  <1> DEFINE T == {k \in 0 .. n - 1 : v[k] < v[0]}
  <1>1. SUFFICES ASSUME T # {} PROVE FALSE
    OBVIOUS
  <1>2. PICK m \in T : \A l \in T : m <= l
    <2>1. T \subseteq Nat
      OBVIOUS
    <2> QED
      BY <1>1, <2>1, LeastNatural
  <1>3. m \in 1 .. n - 1
    BY <1>2
  <1>4. Parent(m) \in 0 .. n - 1 /\ Parent(m) < m
    BY <1>3, ParentInHeap
  <1>5. v[Parent(m)] <= v[m] /\ v[Parent(m)] \in Nat /\ v[m] \in Nat /\ v[0] \in Nat
    BY <1>3, <1>4 DEF Ordered
  <1>6. Parent(m) \in T
    BY <1>2, <1>4, <1>5
  <1> QED
    BY <1>2, <1>3, <1>4, <1>6

\* The times of the first n slots of an array.
Times(a, n, e) == [k \in 0 .. n - 1 |-> e[a[k]]]

LEMMA TimesType ==
    ASSUME NEW n, NEW S \in SUBSET TimerObjects, NEW a, Holds(a, n, S), NEW e \in [TimerObjects -> Nat]
    PROVE  /\ Times(a, n, e) \in [0 .. n - 1 -> Nat]
           /\ \A k \in 0 .. n - 1 : Times(a, n, e)[k] = e[a[k]]
  <1>1. \A k \in 0 .. n - 1 : e[a[k]] \in Nat
    BY DEF Holds
  <1> QED
    BY <1>1 DEF Times

\* To swap two timers is to swap their times.
LEMMA SwapTimes ==
    ASSUME Capacity \in Nat, NEW n \in 0 .. Capacity, NEW S, NEW a, Holds(a, n, S),
           NEW i \in 0 .. n - 1, NEW j \in 0 .. n - 1, NEW e
    PROVE  Swapped(Times(a, n, e), Times(Swap(a, i, j), n, e), n, i, j)
  <1> DEFINE b == Swap(a, i, j)
  <1>1. a \in [0 .. Capacity - 1 -> TimerObjects \cup {Nil}]
    BY DEF Holds, Arrays, Slots
  <1>2. /\ b[i] = a[j] /\ b[j] = a[i]
        /\ \A k \in 0 .. n - 1 : k # i /\ k # j => b[k] = a[k]
    BY <1>1 DEF Swap
  <1> HIDE DEF b
  <1> QED
    BY <1>2 DEF Swapped, Times, b

\* heapify_up puts a heap in order that is in order but for the slot it is
\* called for: the slot it looks at moves to the root, or the loop ends.
LEMMA UpOrders ==
    ASSUME Capacity \in Nat, NEW n \in 0 .. Capacity, NEW S \in SUBSET TimerObjects, NEW a,
           Holds(a, n, S), NEW i \in 0 .. n - 1, NEW e \in [TimerObjects -> Nat],
           Rising(Times(a, n, e), n, i)
    PROVE  Ordered(Times(HeapifyUp(a, i, e), n, e), n)
  <1> DEFINE Good(x, k) == \/ Ordered(Times(x[1], n, e), n)
                           \/ Rising(Times(x[1], n, e), n, x[2]) /\ x[2] + k <= i
             X == {x \in Held(n, S) : x[2] < n}
             J == [k \in Nat |-> {x \in X : Good(x, k)}]
             body == UpBody(e)
  <1>1. <<a, i>> \in J[0]
    BY DEF Held, Holds, Slots
  <1>2. ASSUME NEW k \in 0 .. Capacity - 1, NEW x \in X, Good(x, k)
        PROVE  body[x] \in X /\ Good(body[x], k + 1)
    <2>1. x \in Arrays \X Slots
      BY DEF Held
    <2>2. PICK b, q : b = x[1] /\ q = x[2]
      OBVIOUS
    <2> DEFINE r == Parent(q)
               v == Times(b, n, e)
    <2>3. x = <<b, q>> /\ q \in 0 .. n - 1 /\ Holds(b, n, S)
      BY <2>1, <2>2 DEF Held, Slots
    <2>4. v \in [0 .. n - 1 -> Nat] /\ \A j \in 0 .. n - 1 : v[j] = e[b[j]]
      <3>1. v \in [0 .. n - 1 -> Nat]
        BY <2>3, TimesType
      <3> QED
        BY <3>1 DEF Times
    <2>5. body[x] = IF q = 0 \/ e[b[q]] >= e[b[r]] THEN x
                    ELSE <<Swap(b, q, r), r>>
      BY <2>1, <2>2 DEF UpBody
    <2> HIDE DEF v, body
    <2>6. CASE q = 0
      <3>1. Rising(v, n, q) => Ordered(v, n)
        BY <2>6 DEF Rising, Ordered
      <3> QED
        BY <2>2, <2>5, <2>6, <3>1, <1>2 DEF v
    <2>7. CASE q # 0
      <3>1. r \in 0 .. n - 1 /\ r < q
        BY <2>3, <2>7, ParentInHeap
      <3>2. e[b[q]] = v[q] /\ e[b[r]] = v[r] /\ v[q] \in Nat /\ v[r] \in Nat
        BY <2>3, <2>4, <3>1
      <3>3. CASE v[q] >= v[r]
        <4>1. body[x] = x
          BY <2>5, <3>2, <3>3
        <4>2. Ordered(v, n)
          BY <1>2, <2>2, <3>2, <3>3 DEF Rising, Ordered, v
        <4> QED
          BY <2>2, <4>1, <4>2 DEF v
      <3>4. CASE v[q] < v[r]
        <4>1. body[x] = <<Swap(b, q, r), r>>
          BY <2>5, <2>7, <3>2, <3>4
        <4>2. PICK c : c = Swap(b, q, r)
          OBVIOUS
        <4>3. Holds(c, n, S) /\ Swapped(v, Times(c, n, e), n, q, r)
          BY <2>3, <3>1, <4>2, SwapKeeps, SwapTimes DEF v
        <4>4. ~Ordered(v, n) /\ q \in 1 .. n - 1
          BY <2>3, <2>7, <3>2, <3>4 DEF Ordered
        <4>5. Rising(v, n, q) /\ q + k <= i
          BY <4>4, <1>2, <2>2 DEF v
        <4>6. Rising(Times(c, n, e), n, r)
          <5>1. Times(c, n, e) \in [0 .. n - 1 -> Nat]
            BY <4>3, TimesType
          <5>2. n \in Nat
            OBVIOUS
          <5> QED
            BY <5>1, <5>2, <4>3, <4>4, <4>5, <2>4, <3>4, UpPass
        <4>7. r + (k + 1) <= i
          BY <3>1, <2>3, <4>5
        <4>8. <<c, r>> \in X
          BY <4>3, <3>1 DEF Held, Holds, Slots
        <4> QED
          BY <4>1, <4>2, <4>6, <4>7, <4>8
      <3> QED
        BY <3>2, <3>3, <3>4
    <2> QED
      BY <2>6, <2>7
  <1>3. \A k \in 0 .. Capacity - 1 : \A x \in J[k] : body[x] \in J[k + 1]
    BY <1>2
  <1>4. \A x \in J[Capacity] : Ordered(Times(x[1], n, e), n)
    <2>1. \A x \in X : x[2] \in 0 .. Capacity - 1
      BY DEF Held, Slots
    <2> QED
      BY <2>1
  <1> HIDE DEF J, body
  <1>5. Loop(body, <<a, i>>, Capacity) \in J[Capacity]
    BY <1>1, <1>3, LoopKeeps
  <1> QED
    BY <1>4, <1>5 DEF body, HeapifyUp

\* heapify_down puts a heap in order that is in order but below the slot it
\* is called for: the slot it looks at moves to the leaves, or the loop ends.
LEMMA DownOrders ==
    ASSUME Capacity \in Nat, NEW n \in 0 .. Capacity, NEW S \in SUBSET TimerObjects, NEW a,
           Holds(a, n, S), NEW i \in Slots, NEW e \in [TimerObjects -> Nat],
           Sinking(Times(a, n, e), n, i)
    PROVE  Ordered(Times(HeapifyDown(a, i, n, e), n, e), n)
  <1> DEFINE Good(x, k) == \/ Ordered(Times(x[1], n, e), n)
                           \/ Sinking(Times(x[1], n, e), n, x[2]) /\ x[2] >= k
             X == Held(n, S)
             J == [k \in Nat |-> {x \in X : Good(x, k)}]
             body == DownBody(n, e)
  <1>1. <<a, i>> \in J[0]
    BY DEF Held, Holds, Slots
  <1>2. ASSUME NEW k \in 0 .. Capacity - 1, NEW x \in X, Good(x, k)
        PROVE  body[x] \in X /\ Good(body[x], k + 1)
    <2>1. x \in Arrays \X Slots
      BY DEF Held
    <2>2. PICK b, q : b = x[1] /\ q = x[2]
      OBVIOUS
    <2>3. x = <<b, q>> /\ q \in 0 .. Capacity - 1 /\ Holds(b, n, S)
      BY <2>1, <2>2 DEF Held, Slots
    <2> DEFINE v == Times(b, n, e)
    <2>4. v \in [0 .. n - 1 -> Nat] /\ \A j \in 0 .. n - 1 : v[j] = e[b[j]]
      <3>1. v \in [0 .. n - 1 -> Nat]
        BY <2>3, TimesType
      <3> QED
        BY <3>1 DEF Times
    <2>5. PICK c : c = Child(b, q, n, e)
      OBVIOUS
    <2>6. body[x] = IF 2 * q + 1 >= n \/ e[b[q]] <= e[b[c]] THEN x
                    ELSE <<Swap(b, q, c), c>>
      BY <2>1, <2>2, <2>5 DEF DownBody
    <2> HIDE DEF v, body
    <2>7. ASSUME NEW j \in 1 .. n - 1, Parent(j) = q PROVE j = 2 * q + 1 \/ j = 2 * q + 2
      <3>1. j \in Nat \ {0}
        OBVIOUS
      <3> QED
        BY <3>1, <2>7, ParentFacts
    <2>8. CASE 2 * q + 1 >= n
      <3>1. \A j \in 1 .. n - 1 : Parent(j) # q
        BY <2>3, <2>7, <2>8
      <3>2. Sinking(v, n, q) => Ordered(v, n)
        BY <3>1 DEF Sinking, Ordered
      <3> QED
        BY <1>2, <2>2, <2>6, <2>8, <3>2 DEF v
    <2>9. CASE 2 * q + 1 < n
      <3>1. q \in 0 .. n - 1 /\ c \in 1 .. n - 1 /\ c \in {2 * q + 1, 2 * q + 2} /\ q < c
        BY <2>3, <2>5, <2>9 DEF Child
      <3>2. Parent(c) = q
        <4>1. q \in Nat
          BY <2>3
        <4> QED
          BY <3>1, <4>1, ParentFacts
      <3>3. ASSUME NEW j \in 1 .. n - 1, Parent(j) = q PROVE v[c] <= v[j]
        <4>1. v[j] \in Nat /\ v[c] \in Nat /\ v[j] = e[b[j]] /\ v[c] = e[b[c]]
          BY <2>4, <3>1
        <4>2. 2 * q + 1 \in 0 .. n - 1 /\ v[2 * q + 1] \in Nat /\ v[2 * q + 1] = e[b[2 * q + 1]]
          <5>1. 2 * q + 1 \in 0 .. n - 1
            BY <2>3, <2>9
          <5> QED
            BY <5>1, <2>4
        <4> QED
          BY <2>3, <2>5, <2>7, <3>3, <4>1, <4>2 DEF Child
      <3>4. e[b[q]] = v[q] /\ e[b[c]] = v[c] /\ v[q] \in Nat /\ v[c] \in Nat
        BY <2>4, <3>1
      <3>5. CASE v[q] <= v[c]
        <4>1. body[x] = x
          BY <2>6, <3>4, <3>5
        <4>2. \A j \in 1 .. n - 1 : Parent(j) = q => v[Parent(j)] <= v[j]
          BY <3>3, <3>4, <3>5, <2>4
        <4>3. Ordered(v, n)
          BY <1>2, <2>2, <4>2 DEF Sinking, Ordered, v
        <4> QED
          BY <2>2, <4>1, <4>3 DEF v
      <3>6. CASE v[c] < v[q]
        <4>1. body[x] = <<Swap(b, q, c), c>>
          BY <2>6, <2>9, <2>3, <3>4, <3>6
        <4>2. PICK d : d = Swap(b, q, c)
          OBVIOUS
        <4>3. Holds(d, n, S) /\ Swapped(v, Times(d, n, e), n, q, c)
          <5>1. c \in 0 .. n - 1
            BY <3>1
          <5> QED
            BY <2>3, <3>1, <5>1, <4>2, SwapKeeps, SwapTimes DEF v
        <4>4. ~Ordered(v, n)
          BY <3>1, <3>2, <3>4, <3>6 DEF Ordered
        <4>5. Sinking(v, n, q) /\ q >= k
          BY <4>4, <1>2, <2>2 DEF v
        <4>6. Sinking(Times(d, n, e), n, c)
          <5>1. Times(d, n, e) \in [0 .. n - 1 -> Nat]
            BY <4>3, TimesType
          <5>2. n \in Nat
            OBVIOUS
          <5> QED
            BY <5>1, <5>2, <4>3, <4>5, <2>4, <3>1, <3>2, <3>3, <3>6, DownPass
        <4>7. c >= k + 1
          BY <3>1, <2>3, <4>5
        <4>8. <<d, c>> \in X
          BY <4>3, <3>1 DEF Held, Holds, Slots
        <4> QED
          BY <4>1, <4>2, <4>6, <4>7, <4>8
      <3> QED
        BY <3>4, <3>5, <3>6
    <2> QED
      BY <2>3, <2>8, <2>9
  <1>3. \A k \in 0 .. Capacity - 1 : \A x \in J[k] : body[x] \in J[k + 1]
    BY <1>2
  <1>4. \A x \in J[Capacity] : Ordered(Times(x[1], n, e), n)
    <2>1. \A x \in X : x[2] \in 0 .. Capacity - 1
      BY DEF Held, Slots
    <2> QED
      BY <2>1
  <1> HIDE DEF J, body
  <1>5. Loop(body, <<a, i>>, Capacity) \in J[Capacity]
    BY <1>1, <1>3, LoopKeeps
  <1> QED
    BY <1>4, <1>5 DEF body, HeapifyDown

-----------------------------------------------------------------------------
\* No timer in the heap expires before the one at its parent.
InOrder == Ordered(Times(nodes, size, expire_at), size)

\* A push keeps the order, by the times e of the timers after it.
LEMMA PushOrders ==
    ASSUME HeapInv, InOrder, NEW t \in TimerObjects, t \notin RunningTimers, size < Capacity,
           NEW e \in [TimerObjects -> Nat], \A u \in TimerObjects \ {t} : e[u] = expire_at[u],
           Push(t, e)
    PROVE  Ordered(Times(nodes', size', e), size')
  <1>1. Capacity \in Nat /\ size \in 0 .. Capacity - 1 /\ RunningTimers \in SUBSET TimerObjects
    BY TimerAssumption DEF HeapInv, TimerTypeOK, RunningTimers
  <1>2. PICK n, b, S : n = size + 1 /\ b = [nodes EXCEPT ![size] = t] /\ S = RunningTimers \cup {t}
    OBVIOUS
  <1>3. Holds(nodes, size, RunningTimers)
    BY DEF HeapInv
  <1>4. Holds(b, n, S) /\ n \in 0 .. Capacity /\ size \in 0 .. n - 1 /\ S \in SUBSET TimerObjects
    <2>1. Holds([nodes EXCEPT ![size] = t], size + 1, RunningTimers \cup {t})
      BY <1>1, <1>3, AppendHolds
    <2>2. Holds(b, n, S)
      BY <2>1, <1>2
    <2> QED
      BY <2>2, <1>1, <1>2
  <1>5. \A k \in 0 .. size - 1 : b[k] = nodes[k] /\ nodes[k] \in TimerObjects \ {t}
    <2>1. nodes \in [0 .. Capacity - 1 -> TimerObjects \cup {Nil}]
      BY <1>3 DEF Holds, Arrays, Slots
    <2>2. \A k \in 0 .. size - 1 : nodes[k] \in RunningTimers
      BY <1>3 DEF Holds
    <2> QED
      BY <2>1, <2>2, <1>1, <1>2
  <1>6. \A k \in 0 .. size - 1 : Times(b, n, e)[k] = Times(nodes, size, expire_at)[k]
    BY <1>1, <1>2, <1>5 DEF Times
  <1>7. Rising(Times(b, n, e), n, size)
    <2>1. ASSUME NEW j \in 1 .. n - 1
          PROVE  Parent(j) \in 0 .. size - 1 /\ Parent(j) < j
      <3>1. n \in Nat
        BY <1>4
      <3>2. Parent(j) \in 0 .. n - 1 /\ Parent(j) < j
        BY <3>1, ParentInHeap
      <3> QED
        BY <3>2, <1>1, <1>2
    <2>2. ASSUME NEW j \in 1 .. n - 1, j # size
          PROVE  Times(b, n, e)[Parent(j)] <= Times(b, n, e)[j]
      <3>1. j \in 1 .. size - 1
        BY <2>2, <1>1, <1>2
      <3> QED
        BY <3>1, <2>1, <1>1, <1>6 DEF InOrder, Ordered
    <2>3. \A j \in 1 .. n - 1 : Parent(j) # size
      BY <2>1, <1>1
    <2> QED
      BY <2>2, <2>3 DEF Rising, Around
  <1>8. Ordered(Times(HeapifyUp(b, size, e), n, e), n)
    BY <1>1, <1>4, <1>7, UpOrders
  <1>9. nodes' = HeapifyUp(b, size, e) /\ size' = n
    BY <1>2 DEF Push
  <1> QED
    BY <1>8, <1>9

\* Where the last timer may be put without coming before the parent.
Fits(v, n, i) == i = 0 \/ i = n - 1 \/ v[Parent(i)] <= v[n - 1]

\* So does the removal of a timer that the last one may replace.
LEMMA RemoveOrders ==
    ASSUME HeapInv, InOrder, NEW i \in 0 .. size - 1,
           Fits(Times(nodes, size, expire_at), size, i), Remove(i)
    PROVE  Ordered(Times(nodes', size', expire_at), size')
  <1> DEFINE v == Times(nodes, size, expire_at)
  <1>1. Capacity \in Nat /\ size \in 1 .. Capacity /\ RunningTimers \in SUBSET TimerObjects
        /\ expire_at \in [TimerObjects -> Nat]
    BY TimerAssumption DEF HeapInv, TimerTypeOK, RunningTimers
  <1>2. PICK n, b, S : n = size - 1 /\ b = Replaced(nodes, size, i) /\ S = RunningTimers \ {nodes[i]}
    OBVIOUS
  <1>3. Holds(nodes, size, RunningTimers)
    BY DEF HeapInv
  <1>4. Holds(b, n, S) /\ n \in 0 .. Capacity /\ i \in Slots /\ S \in SUBSET TimerObjects
    BY <1>1, <1>2, <1>3, ReplaceHolds DEF Slots
  <1>5. v \in [0 .. size - 1 -> Nat]
    BY <1>1, <1>3, TimesType
  <1>6. PICK w : w = Times(b, n, expire_at)
    OBVIOUS
  <1>7. \A k \in 0 .. n - 1 : w[k] = IF k = i THEN v[n] ELSE v[k]
    <2>1. nodes \in [0 .. Capacity - 1 -> TimerObjects \cup {Nil}]
      BY <1>3 DEF Holds, Arrays, Slots
    <2>2. \A k \in 0 .. n - 1 : b[k] = IF k = i THEN nodes[n] ELSE nodes[k]
      BY <2>1, <1>1, <1>2 DEF Replaced
    <2> QED
      BY <2>2, <1>1, <1>2, <1>6 DEF Times
  <1> HIDE DEF v
  <1>8. Sinking(w, n, i)
    <2>1. ASSUME NEW j \in 1 .. n - 1
          PROVE  /\ Parent(j) \in 0 .. n - 1 /\ Parent(j) < j
                 /\ v[Parent(j)] <= v[j]
      <3>1. n \in Nat /\ j \in 1 .. size - 1
        BY <1>1, <1>2
      <3>2. Parent(j) \in 0 .. n - 1 /\ Parent(j) < j
        BY <3>1, ParentInHeap
      <3> QED
        BY <3>1, <3>2 DEF InOrder, Ordered, v
    <2>2. ASSUME NEW j \in 1 .. n - 1, Parent(j) # i PROVE w[Parent(j)] <= w[j]
      <3>1. CASE j # i
        BY <2>1, <2>2, <3>1, <1>7
      <3>2. CASE j = i
        <4>1. v[Parent(i)] <= v[n]
          BY <3>2, <1>1, <1>2 DEF Fits, v
        <4> QED
          BY <2>1, <2>2, <3>2, <4>1, <1>7
      <3> QED
        BY <3>1, <3>2
    <2>3. ASSUME i > 0, NEW j \in 1 .. n - 1, Parent(j) = i
          PROVE  w[Parent(i)] <= w[j]
      <3>1. i \in 1 .. n - 1 /\ j # i
        BY <2>1, <2>3
      <3>2. PICK p \in 0 .. n - 1 : p = Parent(i) /\ p < i /\ v[p] <= v[i]
        BY <2>1, <3>1
      <3>3. w[p] = v[p] /\ w[j] = v[j] /\ v[i] <= v[j]
        BY <2>1, <2>3, <3>1, <3>2, <1>7
      <3>4. v[p] \in Nat /\ v[i] \in Nat /\ v[j] \in Nat
        BY <3>1, <3>2, <1>1, <1>2, <1>5
      <3> QED
        BY <3>2, <3>3, <3>4
    <2> QED
      BY <2>2, <2>3 DEF Sinking, Around
  <1>9. Ordered(Times(HeapifyDown(b, i, n, expire_at), n, expire_at), n)
    BY <1>1, <1>4, <1>6, <1>8, DownOrders
  <1>10. nodes' = HeapifyDown(b, i, n, expire_at) /\ size' = n
    BY <1>2 DEF Remove, Replaced
  <1> QED
    BY <1>9, <1>10

\* A timer that leaves the heap leaves the others in order, unless the last one
\* was put below a later one.
LEMMA LeaveOrder ==
    ASSUME HeapInv, ~misplaced => InOrder, NEW i \in 0 .. size - 1,
           Remove(i), ~misplaced', Cleared(nodes[i]), created' \in {created, created \ {nodes[i]}}
    PROVE  InOrder'
  <1>1. Capacity \in Nat /\ size \in 1 .. Capacity /\ RunningTimers \in SUBSET TimerObjects
        /\ expire_at \in [TimerObjects -> Nat] /\ is_running \in [TimerObjects -> BOOLEAN]
    BY TimerAssumption DEF HeapInv, TimerTypeOK, RunningTimers
  <1>2. Holds(nodes, size, RunningTimers)
    BY DEF HeapInv
  <1>3. InOrder /\ Fits(Times(nodes, size, expire_at), size, i)
    <2>1. CASE size = 1
      BY <2>1 DEF InOrder, Ordered, Fits
    <2>2. CASE size > 1
      <3>1. InOrder /\ (i = 0 \/ ~(expire_at[nodes[size - 1]] < expire_at[nodes[Parent(i)]]))
        BY <2>2 DEF Remove
      <3>2. CASE i > 0
        <4>1. Parent(i) \in 0 .. size - 1 /\ size - 1 \in 0 .. size - 1
          BY <1>1, <3>2, ParentInHeap
        <4>2. Times(nodes, size, expire_at)[Parent(i)] <= Times(nodes, size, expire_at)[size - 1]
          <5>1. Times(nodes, size, expire_at) \in [0 .. size - 1 -> Nat]
            BY <1>1, <1>2, TimesType
          <5> QED
            BY <3>1, <3>2, <4>1, <5>1 DEF Times
        <4> QED
          BY <3>1, <4>2 DEF Fits
      <3> QED
        BY <3>1, <3>2 DEF Fits
    <2> QED
      BY <1>1, <2>1, <2>2
  <1>4. Ordered(Times(nodes', size', expire_at), size')
    BY <1>3, RemoveOrders
  <1>5. Holds(nodes', size', RunningTimers') /\ nodes[i] \in TimerObjects
    BY LeaveStep
  <1>6. \A k \in 0 .. size' - 1 : expire_at'[nodes'[k]] = expire_at[nodes'[k]]
    <2>1. \A k \in 0 .. size' - 1 : nodes'[k] \in RunningTimers'
      BY <1>5 DEF Holds
    <2>2. \A u \in RunningTimers' : u \in TimerObjects /\ u # nodes[i]
      BY <1>1, <1>5 DEF RunningTimers, Cleared, HeapInv, TimerTypeOK
    <2> QED
      BY <2>1, <2>2, <1>1 DEF Cleared
  <1>7. Times(nodes', size', expire_at') = Times(nodes', size', expire_at)
    BY <1>6 DEF Times
  <1> QED
    BY <1>4, <1>7 DEF InOrder

\* The heap stays in order while no removal has put a timer below a later one.
LEMMA OrderStep ==
    ASSUME HeapInv, ~misplaced => InOrder, [TimerNext]_timerVars, ~misplaced'
    PROVE  InOrder'
  <1>1. /\ expire_at \in [TimerObjects -> Nat] /\ is_running \in [TimerObjects -> BOOLEAN]
        /\ created \in SUBSET TimerObjects
    BY DEF HeapInv, TimerTypeOK
  <1>2. HeapInv' /\ expire_at' \in [TimerObjects -> Nat]
    <2>1. HeapInv'
      BY HeapStep
    <2> QED
      BY <2>1 DEF HeapInv, TimerTypeOK
  <1>3. CASE UNCHANGED <<nodes, size, expire_at, misplaced>>
    BY <1>3 DEF InOrder
  <1>4. ASSUME NEW t \in TimerObjects, NEW d \in Intervals, NEW p \in BOOLEAN, Start(t, d, p)
        PROVE  InOrder'
    <2>1. t \notin RunningTimers /\ size < Capacity /\ Push(t, expire_at') /\ misplaced' = misplaced
          /\ \A u \in TimerObjects \ {t} : expire_at'[u] = expire_at[u]
      BY <1>1, <1>4 DEF Start, RunningTimers
    <2>2. Ordered(Times(nodes', size', expire_at'), size')
      BY <2>1, <1>2, PushOrders
    <2> QED
      BY <2>2 DEF InOrder
  <1>5. ASSUME NEW t \in TimerObjects, Stop(t) PROVE InOrder'
    <2>1. PICK i \in 0 .. size - 1 : nodes[i] = t /\ Remove(i)
      BY <1>5 DEF Stop
    <2>2. Cleared(nodes[i]) /\ created' = created
      BY <1>5, <2>1 DEF Stop
    <2> QED
      BY <2>1, <2>2, LeaveOrder
  <1>6. ASSUME NEW t \in TimerObjects, Delete(t) PROVE InOrder'
    <2>1. CASE is_running[t]
      <3>1. PICK i \in 0 .. size - 1 : nodes[i] = t /\ Remove(i)
        BY <1>6, <2>1 DEF Delete
      <3>2. Cleared(nodes[i]) /\ created' = created \ {nodes[i]}
        BY <1>6, <3>1 DEF Delete
      <3> QED
        BY <3>1, <3>2, LeaveOrder
    <2>2. CASE ~is_running[t]
      <3>1. UNCHANGED <<nodes, size, misplaced>> /\ \A u \in TimerObjects \ {t} : expire_at'[u] = expire_at[u]
        BY <1>1, <1>6, <2>2 DEF Delete, heap, Cleared
      <3>2. \A k \in 0 .. size - 1 : nodes[k] \in TimerObjects \ {t}
        BY <1>1, <2>2 DEF HeapInv, Holds, RunningTimers
      <3>3. Times(nodes', size', expire_at') = Times(nodes, size, expire_at)
        BY <3>1, <3>2 DEF Times
      <3> QED
        BY <3>1, <3>3 DEF InOrder
    <2> QED
      BY <2>1, <2>2
  <1>7. CASE Fire
    <2>1. 0 \in 0 .. size - 1 /\ Remove(0) /\ Cleared(nodes[0]) /\ created' = created
      BY <1>7 DEF Fire, Due, HeapInv, TimerTypeOK
    <2> QED
      BY <2>1, LeaveOrder
  <1>8. CASE Return
    <2>1. CASE period[timer] > 0
      <3>1. timer \in TimerObjects /\ timer \notin RunningTimers /\ Push(timer, expire_at')
            /\ misplaced' = misplaced
            /\ \A u \in TimerObjects \ {timer} : expire_at'[u] = expire_at[u]
        BY <1>1, <1>8, <2>1 DEF Return, RunningTimers, HeapInv, CallbackTimer
      <3>2. size < Capacity
        BY <1>8, <2>1, RoomToReturn
      <3>3. Ordered(Times(nodes', size', expire_at'), size')
        BY <3>1, <3>2, <1>2, PushOrders
      <3> QED
        BY <3>3 DEF InOrder
    <2>2. CASE ~(period[timer] > 0)
      BY <1>3, <1>8, <2>2 DEF Return, heap
    <2> QED
      BY <2>1, <2>2
  <1>9. CASE Tick \/ Begin \/ End \/ (\E t \in TimerObjects : Create(t))
             \/ UNCHANGED timerVars
    BY <1>3, <1>9 DEF Tick, Begin, End, Create, timerVars, heap, fields
  <1> QED
    BY <1>4, <1>5, <1>6, <1>7, <1>8, <1>9 DEF TimerNext, Component, ProcessTimers

\* When process_timers ends, no running timer was due when it read the clock.
LEMMA NoneLeft ==
    ASSUME HeapInv, InOrder, [TimerNext]_timerVars, NEW t \in TimerObjects,
           place = "loop", place' = "handlers", is_running[t]
    PROVE  expire_at[t] > now
  <1>1. End
    BY DEF TimerNext, Component, ProcessTimers, Tick, Create, Start, Stop,
       Delete, Begin, Fire, Return, timerVars, locals, MayTouch,
       MayCall
  <1>2. Holds(nodes, size, RunningTimers) /\ t \in RunningTimers /\ size \in Nat /\ RunningTimers \in SUBSET TimerObjects
        /\ expire_at \in [TimerObjects -> Nat] /\ now \in Nat
    BY TimerAssumption DEF HeapInv, RunningTimers, TimerTypeOK
  <1>3. PICK i \in 0 .. size - 1 : t = nodes[i]
    BY <1>2 DEF Holds
  <1>4. PICK v : v = Times(nodes, size, expire_at)
    OBVIOUS
  <1>5. v \in [0 .. size - 1 -> Nat] /\ v[0] = expire_at[nodes[0]] /\ v[i] = expire_at[t]
    <2>1. v \in [0 .. size - 1 -> Nat]
      BY <1>2, <1>4, TimesType
    <2>2. 0 \in 0 .. size - 1
      BY <1>2, <1>3
    <2> QED
      BY <2>1, <2>2, <1>3, <1>4 DEF Times
  <1>6. v[0] <= v[i]
    BY <1>2, <1>4, <1>5, RootEarliest DEF InOrder
  <1>7. size > 0 /\ ~(now >= expire_at[nodes[0]])
    BY <1>1, <1>2, <1>3 DEF End, Due
  <1>8. v[0] \in Nat /\ v[i] \in Nat
    BY <1>2, <1>3, <1>5
  <1> QED
    BY <1>2, <1>5, <1>6, <1>7, <1>8

LEMMA InitInOrder == TimerInit => InOrder
BY DEF TimerInit, InOrder, Ordered

\* Whatever number of timers the thread has and whatever the components do to
\* them, process_timers leaves none behind that was due, unless a stop or a
\* deletion has put a timer below a later one since the heap was last empty.
THEOREM NeverOverdue == TimerSpec => NoneOverdue
  <1>1. TimerInit => (~misplaced => InOrder)
    BY InitInOrder
  <1>2. HeapInv /\ (~misplaced => InOrder) /\ [TimerNext]_timerVars => (~misplaced => InOrder)'
    BY OrderStep
  <1>3. HeapInv /\ (~misplaced => InOrder) /\ [TimerNext]_timerVars
        => [\A t \in TimerObjects :
              (place = "loop" /\ place' = "handlers" /\ ~misplaced /\ is_running[t])
                  => expire_at[t] > now]_timerVars
    BY NoneLeft
  <1> QED
    BY <1>1, <1>2, <1>3, HeapAlways, PTL DEF TimerSpec, NoneOverdue

\* A running timer stops running only when it fires.
OnlyFired == \A t \in TimerObjects : is_running[t] /\ ~is_running'[t] => place = "loop"

\* No timer is put below a later one, and so none is left behind, as long as
\* no running timer is stopped or deleted: the top of the heap is what fires.
THEOREM FiredNeverMisplaced ==
    TimerSpec /\ [][OnlyFired]_timerVars => []~misplaced
  <1>1. TimerInit => ~misplaced
    BY DEF TimerInit
  <1>2. HeapInv /\ ~misplaced /\ [TimerNext]_timerVars /\ [OnlyFired]_timerVars => ~misplaced'
    <2> SUFFICES ASSUME HeapInv, ~misplaced, TimerNext, OnlyFired
                 PROVE  ~misplaced'
      BY DEF timerVars
    <2>1. is_running \in [TimerObjects -> BOOLEAN]
      BY DEF HeapInv, TimerTypeOK
    <2>2. ASSUME NEW t \in TimerObjects, Stop(t) PROVE FALSE
      BY <2>1, <2>2 DEF OnlyFired, Stop, Cleared, MayTouch, MayCall
    <2>3. ASSUME NEW t \in TimerObjects, Delete(t) PROVE ~misplaced'
      BY <2>1, <2>3 DEF OnlyFired, Delete, Cleared, MayTouch, MayCall
    <2>4. CASE Fire
      BY <2>4 DEF Fire, Remove
    <2>5. CASE \/ Tick \/ Begin \/ Return \/ End
               \/ \E t \in TimerObjects : \/ Create(t)
                                         \/ \E d \in Intervals, p \in BOOLEAN : Start(t, d, p)
      BY <2>5 DEF Tick, Begin, Return, End, Create, Start
    <2> QED
      BY <2>2, <2>3, <2>4, <2>5 DEF TimerNext, Component, ProcessTimers
  <1> QED
    BY <1>1, <1>2, HeapAlways, PTL DEF TimerSpec
=============================================================================
