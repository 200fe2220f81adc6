--------------------------- MODULE LogRingProofs ---------------------------
(***************************************************************************)
(* What holds of LogRing for every number of writers, every ring size and  *)
(* however many messages are logged: types, the exclusive use of slots,    *)
(* and that no message is printed twice.                                   *)
(***************************************************************************)
EXTENDS LogRing, TLAPS

\* A number falls on a slot of the ring.
LEMMA SlotType ==
    ASSUME NEW n \in Nat
    PROVE  Slot(n) \in Slots
BY RingAssumption DEF Slot, Slots

\* a writer that has taken its number and not dropped or published its message
Active(w) == wpc[w] \in {"cas", "write", "publish"}

\* the consumer prints a slot that was ready, and stays ready till it is done
Printing == cpc = "print" => ready[Slot(read_idx)] = Ready

\* before the first number is taken nothing happens
FirstFirst ==
    write_idx = 0 => (\A w \in Writers : wpc[w] = "idle") /\ (\A s \in Slots : ready[s] = Empty)

\* the numbers that are under way: a writer has each for itself, what is in a
\* ready slot belongs there, and all of it is still to be printed
Numbered ==
    /\ \A w \in Writers : Active(w) => number[w] < write_idx
    /\ \A v, w \in Writers : Active(v) /\ Active(w) /\ v # w => number[v] # number[w]
    /\ \A w \in Writers : wpc[w] = "publish" => entry[Slot(number[w])] = number[w]
    /\ \A s \in Slots : ready[s] = Ready =>
          /\ entry[s] < write_idx /\ Slot(entry[s]) = s
          /\ \A w \in Writers : Active(w) => number[w] # entry[s]

PrintedBefore ==
    \A i \in 1 .. Len(printed) :
        /\ printed[i] < write_idx
        /\ \A w \in Writers : Active(w) => number[w] # printed[i]
        /\ \A s \in Slots : ready[s] = Ready => entry[s] # printed[i]

IInv == /\ TypeOK /\ Printing /\ SlotExclusive /\ FirstFirst
        /\ Numbered /\ PrintedBefore /\ PrintedOnce

\* The initial context of the log satisfies the invariant.
LEMMA InitIInv == Init => IInv
<1> SUFFICES ASSUME Init
             PROVE  IInv
    OBVIOUS
<1>1. TypeOK
  <2>1. printed \in Seq(Numbers)
      BY DEF Init
  <2>2. ready \in [Slots -> {Empty, Writing, Ready}] /\ entry \in [Slots -> Numbers \cup {0}]
      BY DEF Init
  <2>3. /\ wpc \in [Writers -> {"idle", "cas", "drop", "write", "publish"}]
        /\ number \in [Writers -> Numbers \cup {0}]
      BY DEF Init
  <2>4. /\ write_idx \in 0 .. MaxLogs /\ read_idx \in Nat
        /\ dropped_count \in Nat /\ keep_running \in {0, 1}
      BY RingAssumption DEF Init
  <2>5. cpc \in {"look", "print", "exited"} /\ overrun \in BOOLEAN
      BY Zenon DEF Init
  <2> QED
      BY <2>1, <2>2, <2>3, <2>4, <2>5 DEF TypeOK
<1>2. Printing /\ SlotExclusive /\ FirstFirst
    BY DEF Init, Printing, SlotExclusive, Filling, FirstFirst
<1>3. Numbered /\ PrintedBefore /\ PrintedOnce
    BY DEF Init, Numbered, Active, PrintedBefore, PrintedOnce, Empty, Ready
<1> QED
    BY <1>1, <1>2, <1>3 DEF IInv

\* The actions of Next, told apart.
LEMMA NextCases ==
    [Next]_vars => \/ \E w \in Writers : \/ Claim(w) \/ Swap(w) \/ SwapFails(w) \/ Drop(w)
                                         \/ Write(w) \/ Publish(w)
                   \/ Look \/ PrintEntry \/ ConsumerExit \/ Deinit \/ UNCHANGED vars
BY DEF Next, Log, Consumer, Terminated

\* No step of a writer, of the consumer or of nos_log_deinit leaves the types.
LEMMA TypeStep ==
    ASSUME IInv, [Next]_vars
    PROVE  TypeOK'
<1> USE DEF TypeOK, writers, consumer
<1>t. TypeOK
    BY DEF IInv
<1>1. ASSUME NEW w \in Writers, Claim(w)
      PROVE  TypeOK'
    BY <1>t, <1>1, RingAssumption DEF Claim, Numbers
<1>2. ASSUME NEW w \in Writers, Swap(w) \/ Publish(w)
      PROVE  TypeOK'
    BY <1>t, <1>2 DEF Swap, Publish
<1>3. ASSUME NEW w \in Writers, SwapFails(w) \/ Drop(w)
      PROVE  TypeOK'
    BY <1>t, <1>3 DEF SwapFails, Drop
<1>4. ASSUME NEW w \in Writers, Write(w)
      PROVE  TypeOK'
    BY <1>t, <1>4 DEF Write
<1>5. CASE Look \/ ConsumerExit
    BY <1>t, <1>5 DEF Look, ConsumerExit
<1>6. CASE PrintEntry
  <2>1. Slot(read_idx) \in Slots
      BY <1>t, SlotType
  <2>2. entry[Slot(read_idx)] \in Numbers
    <3>1. ready[Slot(read_idx)] = Ready
        BY <1>6 DEF PrintEntry, IInv, Printing
    <3>2. write_idx # 0
        BY <2>1, <3>1 DEF IInv, FirstFirst, Empty, Ready
    <3>3. 0 \in Numbers
        BY <1>t, <3>2, RingAssumption DEF Numbers
    <3> QED
        BY <1>t, <2>1, <3>3
  <2> QED
      BY <1>t, <1>6, <2>1, <2>2 DEF PrintEntry
<1>7. CASE Deinit
    BY <1>t, <1>7 DEF Deinit
<1>8. CASE UNCHANGED vars
    BY <1>t, <1>8 DEF vars
<1> QED
    BY <1>1, <1>2, <1>3, <1>4, <1>5, <1>6, <1>7, <1>8, NextCases

\* Only a writer that fills slot s leaves "writing" there, and only the
\* consumer empties it: no step of nos_log_impl or of the consumer breaks the
\* exclusive use of slots.
LEMMA ExclusiveStep ==
    ASSUME IInv, [Next]_vars
    PROVE  Printing' /\ SlotExclusive' /\ FirstFirst'
<1> USE DEF Printing, SlotExclusive, FirstFirst, Filling, writers, consumer
<1>t. TypeOK /\ Printing /\ SlotExclusive /\ FirstFirst
    BY DEF IInv
<1>s. (\A w \in Writers : Slot(number[w]) \in Slots) /\ Slot(read_idx) \in Slots
    BY <1>t, SlotType, RingAssumption DEF TypeOK, Numbers
<1>1. ASSUME NEW w \in Writers, Claim(w)
      PROVE  Printing' /\ SlotExclusive' /\ FirstFirst'
    BY <1>t, <1>s, <1>1 DEF Claim, TypeOK
<1>2. ASSUME NEW w \in Writers, Swap(w)
      PROVE  Printing' /\ SlotExclusive' /\ FirstFirst'
    BY <1>t, <1>s, <1>2 DEF Swap, TypeOK, Empty, Writing, Ready
<1>3. ASSUME NEW w \in Writers, SwapFails(w) \/ Drop(w) \/ Write(w)
      PROVE  Printing' /\ SlotExclusive' /\ FirstFirst'
    BY <1>t, <1>s, <1>3 DEF SwapFails, Drop, Write, TypeOK
<1>4. ASSUME NEW w \in Writers, Publish(w)
      PROVE  Printing' /\ SlotExclusive' /\ FirstFirst'
    BY <1>t, <1>s, <1>4 DEF Publish, TypeOK, Empty, Writing, Ready
<1>5. CASE Look \/ ConsumerExit
    BY <1>t, <1>s, <1>5 DEF Look, ConsumerExit, Writing, Ready
<1>6. CASE PrintEntry
    BY <1>t, <1>s, <1>6 DEF PrintEntry, TypeOK, Empty, Writing, Ready
<1>7. CASE Deinit \/ UNCHANGED vars
    BY <1>t, <1>s, <1>7 DEF Deinit, vars
<1> QED
    BY <1>1, <1>2, <1>3, <1>4, <1>5, <1>6, <1>7, NextCases

\* Numbers stay apart: a number is new when fetch-and-add hands it out, and a
\* slot that is written again has been emptied.
LEMMA NumberedStep ==
    ASSUME IInv, [Next]_vars
    PROVE  Numbered'
<1> USE DEF Numbered, Active, writers, consumer
<1>t. TypeOK /\ Numbered /\ SlotExclusive
    BY DEF IInv
<1>s. (\A w \in Writers : number[w] \in Nat /\ Slot(number[w]) \in Slots)
      /\ (\A s \in Slots : entry[s] \in Nat) /\ write_idx \in Nat
    BY <1>t, SlotType, RingAssumption DEF TypeOK, Numbers
<1>1. ASSUME NEW w \in Writers, Claim(w)
      PROVE  Numbered'
    BY <1>t, <1>s, <1>1 DEF Claim, TypeOK
<1>2. ASSUME NEW w \in Writers, Swap(w)
      PROVE  Numbered'
    BY <1>t, <1>s, <1>2 DEF Swap, TypeOK, Writing, Ready
<1>3. ASSUME NEW w \in Writers, SwapFails(w) \/ Drop(w)
      PROVE  Numbered'
  <2>1. UNCHANGED <<ready, entry, number, write_idx>>
      BY <1>3 DEF SwapFails, Drop
  <2>2. \A v \in Writers : wpc'[v] \in {"idle", "drop"} \/ wpc'[v] = wpc[v]
      BY <1>t, <1>3 DEF SwapFails, Drop, TypeOK
  <2> QED
      BY <1>t, <2>1, <2>2
<1>4. ASSUME NEW w \in Writers, Write(w)
      PROVE  Numbered'
    BY <1>t, <1>s, <1>4 DEF Write, TypeOK, SlotExclusive, Filling, Writing, Ready
<1>5. ASSUME NEW w \in Writers, Publish(w)
      PROVE  Numbered'
    BY <1>t, <1>s, <1>5 DEF Publish, TypeOK, Ready
<1>6. CASE Look \/ ConsumerExit \/ Deinit
    BY <1>t, <1>6 DEF Look, ConsumerExit, Deinit
<1>7. CASE PrintEntry
  <2>1. \A s \in Slots : ready'[s] = Ready => ready[s] = Ready
      BY <1>t, <1>7 DEF PrintEntry, TypeOK, Empty, Ready
  <2>2. UNCHANGED <<wpc, number, entry, write_idx>>
      BY <1>7 DEF PrintEntry
  <2> QED
      BY <1>t, <2>1, <2>2
<1>8. CASE UNCHANGED vars
    BY <1>t, <1>8 DEF vars
<1> QED
    BY <1>1, <1>2, <1>3, <1>4, <1>5, <1>6, <1>7, <1>8, NextCases

\* Who prints takes a message that is in no other place.
LEMMA PrintedStep ==
    ASSUME IInv, [Next]_vars
    PROVE  PrintedBefore' /\ PrintedOnce'
<1> USE DEF PrintedBefore, PrintedOnce, Active, writers, consumer
<1>t. TypeOK /\ Numbered /\ Printing /\ PrintedBefore /\ PrintedOnce
    BY DEF IInv
<1>s. /\ \A w \in Writers : number[w] \in Nat /\ Slot(number[w]) \in Slots
      /\ \A s \in Slots : entry[s] \in Nat
      /\ write_idx \in Nat /\ Slot(read_idx) \in Slots
      /\ Len(printed) \in Nat /\ \A i \in 1 .. Len(printed) : printed[i] \in Nat
    BY <1>t, SlotType, RingAssumption DEF TypeOK, Numbers
<1>1. ASSUME NEW w \in Writers, Claim(w)
      PROVE  PrintedBefore' /\ PrintedOnce'
  <2>1. UNCHANGED <<ready, entry, printed>> /\ write_idx' = write_idx + 1
      BY <1>1 DEF Claim
  <2>2. /\ number' = [number EXCEPT ![w] = write_idx]
        /\ wpc' = [wpc EXCEPT ![w] = "cas"]
      BY <1>1 DEF Claim
  <2>3. \A v \in Writers :
           Active(v)' => number'[v] = write_idx \/ (Active(v) /\ number'[v] = number[v])
      BY <1>t, <2>2 DEF TypeOK
  <2> QED
      BY <1>t, <1>s, <2>1, <2>3
<1>2. ASSUME NEW w \in Writers, Swap(w) \/ SwapFails(w) \/ Drop(w)
      PROVE  PrintedBefore' /\ PrintedOnce'
  <2>1. UNCHANGED <<entry, printed, number, write_idx>>
      BY <1>2 DEF Swap, SwapFails, Drop
  <2>2. \A v \in Writers : Active(v)' => Active(v)
      BY <1>t, <1>2 DEF Swap, SwapFails, Drop, TypeOK
  <2>3. \A s \in Slots : ready'[s] = Ready => ready[s] = Ready
      BY <1>t, <1>2 DEF Swap, SwapFails, Drop, TypeOK, Writing, Ready
  <2> QED
      BY <1>t, <2>1, <2>2, <2>3
<1>3. ASSUME NEW w \in Writers, Write(w)
      PROVE  PrintedBefore' /\ PrintedOnce'
  <2>1. UNCHANGED <<ready, printed, number, write_idx>>
      BY <1>3 DEF Write
  <2>2. \A v \in Writers : Active(v)' => Active(v)
      BY <1>t, <1>3 DEF Write, TypeOK
  <2>3. \A s \in Slots : entry'[s] = entry[s] \/ entry'[s] = number[w]
      BY <1>t, <1>3 DEF Write, TypeOK
  <2>4. Active(w)
      BY <1>3 DEF Write
  <2> QED
      BY <1>t, <2>1, <2>2, <2>3, <2>4
<1>4. ASSUME NEW w \in Writers, Publish(w)
      PROVE  PrintedBefore' /\ PrintedOnce'
  <2>1. UNCHANGED <<entry, printed, number, write_idx>>
      BY <1>4 DEF Publish
  <2>2. \A v \in Writers : Active(v)' => Active(v)
      BY <1>t, <1>4 DEF Publish, TypeOK
  <2>3. \A s \in Slots : ready'[s] = Ready => ready[s] = Ready \/ entry[s] = number[w]
      BY <1>t, <1>4 DEF Publish, TypeOK, Numbered
  <2>4. Active(w)
      BY <1>4 DEF Publish
  <2> QED
      BY <1>t, <2>1, <2>2, <2>3, <2>4
<1>5. CASE Look \/ ConsumerExit \/ Deinit \/ UNCHANGED vars
    BY <1>t, <1>5 DEF Look, ConsumerExit, Deinit, vars
<1>6. CASE PrintEntry
  <2> DEFINE s == Slot(read_idx)
             e == entry[s]
  <2>1. UNCHANGED <<entry, wpc, number, write_idx>>
      BY <1>6 DEF PrintEntry
  <2>2. /\ Len(printed') = Len(printed) + 1
        /\ \A i \in 1 .. Len(printed) : printed'[i] = printed[i]
        /\ printed'[Len(printed) + 1] = e
      BY <1>t, <1>6 DEF PrintEntry, TypeOK
  <2>3. ready[s] = Ready
      BY <1>t, <1>6 DEF PrintEntry, Printing
  <2>4. \A r \in Slots : ready'[r] = Ready => ready[r] = Ready /\ r # s
      BY <1>t, <1>s, <1>6 DEF PrintEntry, TypeOK, Empty, Ready
  <2>5. /\ e < write_idx
        /\ \A w \in Writers : Active(w) => number[w] # e
        /\ \A r \in Slots : ready'[r] = Ready => entry[r] # e
        /\ \A i \in 1 .. Len(printed) : printed[i] # e
      BY <1>t, <1>s, <2>3, <2>4 DEF Numbered
  <2>6. \A i \in 1 .. Len(printed') : i \in 1 .. Len(printed) \/ i = Len(printed) + 1
      BY <1>s, <2>2
  <2>7. PrintedBefore'
      BY <1>t, <2>1, <2>2, <2>4, <2>5, <2>6
  <2>8. PrintedOnce'
      BY <1>t, <2>2, <2>5, <2>6
  <2> QED
      BY <2>7, <2>8
<1> QED
    BY <1>1, <1>2, <1>3, <1>4, <1>5, <1>6, NextCases

\* IInv is inductive, so it holds of every reachable state.
THEOREM LogInvariance == Spec => []IInv
<1>1. IInv /\ [Next]_vars => IInv'
    BY TypeStep, ExclusiveStep, NumberedStep, PrintedStep DEF IInv
<1> QED
    BY InitIInv, <1>1, PTL DEF Spec

\* Types: the fields of the log context keep to their ranges.
THEOREM LogTypeCorrect == Spec => []TypeOK
<1>1. IInv => TypeOK
    BY DEF IInv
<1> QED
    BY LogInvariance, <1>1, PTL

\* However far the writers lap the consumer and each other, two of them never
\* fill one slot, and nobody fills the slot that is being printed.
THEOREM SlotsNeverShared == Spec => []SlotExclusive
<1>1. IInv => SlotExclusive
    BY DEF IInv
<1> QED
    BY LogInvariance, <1>1, PTL

\* No message is printed twice.
THEOREM NeverPrintedTwice == Spec => []PrintedOnce
<1>1. IInv => PrintedOnce
    BY DEF IInv
<1> QED
    BY LogInvariance, <1>1, PTL
=============================================================================
