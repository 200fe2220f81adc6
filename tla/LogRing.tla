------------------------------ MODULE LogRing ------------------------------
(***************************************************************************)
(* The asynchronous log of a node (nos_log.c): any thread logs by taking a *)
(* number from write_idx, claiming the slot the number falls on by         *)
(* compare-and-swap and filling it; one consumer thread prints the slots   *)
(* in the order of read_idx.  A message whose slot is not empty is dropped *)
(* and counted.                                                            *)
(*                                                                         *)
(* A message is identified with the number its writer got from write_idx.  *)
(* Both indices are uint32_t and the ring's size divides 2^32, so slots    *)
(* are the same as with unbounded indices.                                 *)
(***************************************************************************)
EXTENDS Naturals, Sequences, FiniteSets

CONSTANTS
    Writers,   \* the threads that log
    RingSize,  \* LOG_BUFFER_SIZE
    MaxLogs    \* bound of the model: how many messages are logged

ASSUME RingAssumption == RingSize \in Nat \ {0} /\ MaxLogs \in Nat

Slots == 0 .. RingSize - 1
Numbers == 0 .. MaxLogs - 1

Empty == 0    \* the values of nos_log_entry_t.ready
Writing == 1
Ready == 2

VARIABLES
    ready,          \* per slot, its state
    entry,          \* per slot, the message last written
    write_idx, read_idx,
    dropped_count,
    keep_running,
    wpc, number,    \* per writer, where it is in nos_log_impl and its number
    cpc,            \* where the consumer is
    printed,        \* what was printed so far
    overrun         \* history: some writer took a number RingSize or more
                    \* ahead of the consumer

writers == <<wpc, number>>
consumer == <<cpc, read_idx, printed>>
vars == <<ready, entry, write_idx, dropped_count, keep_running, writers, consumer, overrun>>

Init ==
    /\ ready = [s \in Slots |-> Empty] /\ entry = [s \in Slots |-> 0]
    /\ write_idx = 0 /\ read_idx = 0 /\ dropped_count = 0 /\ keep_running = 1
    /\ wpc = [w \in Writers |-> "idle"] /\ number = [w \in Writers |-> 0]
    /\ cpc = "look" /\ printed = <<>>
    /\ overrun = FALSE

Slot(n) == n % RingSize
-----------------------------------------------------------------------------
(* nos_log_impl, once the message has passed the level filter.              *)

\* The last thread that logs is the one that calls nos_log_deinit.
Claim(w) ==
    /\ keep_running = 1 /\ wpc[w] = "idle" /\ write_idx < MaxLogs
    /\ wpc' = [wpc EXCEPT ![w] = "cas"]
    /\ number' = [number EXCEPT ![w] = write_idx]
    /\ write_idx' = write_idx + 1
    /\ overrun' = (overrun \/ write_idx >= read_idx + RingSize)
    /\ UNCHANGED <<ready, entry, dropped_count, keep_running, consumer>>

SwapUnlessReady(w) ==   \* faulty variant: a slot being written is taken as well
    LET s == Slot(number[w]) IN
    /\ wpc[w] = "cas"
    /\ ready[s] # Ready
    /\ ready' = [ready EXCEPT ![s] = Writing]
    /\ wpc' = [wpc EXCEPT ![w] = "write"]
    /\ UNCHANGED <<entry, write_idx, dropped_count, keep_running, number, consumer, overrun>>

SwapByIncrement(w) ==   \* faulty variant: the slot's state is incremented, whatever it is
    LET s == Slot(number[w]) IN
    /\ wpc[w] = "cas"
    /\ ready' = [ready EXCEPT ![s] = @ + 1]
    /\ wpc' = [wpc EXCEPT ![w] = "write"]
    /\ UNCHANGED <<entry, write_idx, dropped_count, keep_running, number, consumer, overrun>>

Swap(w) ==
    LET s == Slot(number[w]) IN
    /\ wpc[w] = "cas"
    /\ ready[s] = Empty
    /\ ready' = [ready EXCEPT ![s] = Writing]
    /\ wpc' = [wpc EXCEPT ![w] = "write"]
    /\ UNCHANGED <<entry, write_idx, dropped_count, keep_running, number, consumer, overrun>>

SwapFails(w) ==
    /\ wpc[w] = "cas"
    /\ ready[Slot(number[w])] # Empty
    /\ wpc' = [wpc EXCEPT ![w] = "drop"]
    /\ UNCHANGED <<ready, entry, write_idx, dropped_count, keep_running, number, consumer, overrun>>

Drop(w) ==
    /\ wpc[w] = "drop"
    /\ wpc' = [wpc EXCEPT ![w] = "idle"]
    /\ dropped_count' = dropped_count + 1
    /\ UNCHANGED <<ready, entry, write_idx, keep_running, number, consumer, overrun>>

Write(w) ==
    /\ wpc[w] = "write"
    /\ entry' = [entry EXCEPT ![Slot(number[w])] = number[w]]
    /\ wpc' = [wpc EXCEPT ![w] = "publish"]
    /\ UNCHANGED <<ready, write_idx, dropped_count, keep_running, number, consumer, overrun>>

Publish(w) ==
    /\ wpc[w] = "publish"
    /\ ready' = [ready EXCEPT ![Slot(number[w])] = Ready]
    /\ wpc' = [wpc EXCEPT ![w] = "idle"]
    /\ UNCHANGED <<entry, write_idx, dropped_count, keep_running, number, consumer, overrun>>
-----------------------------------------------------------------------------
(* nos_log_consumer_thread and nos_log_deinit.                              *)

ReadEarly ==   \* faulty variant: a slot being written is printed as well
    /\ cpc = "look" /\ ready[Slot(read_idx)] # Empty
    /\ cpc' = "print"
    /\ UNCHANGED <<ready, entry, write_idx, dropped_count, keep_running, writers, read_idx,
                   printed, overrun>>

Look ==
    /\ cpc = "look" /\ ready[Slot(read_idx)] = Ready
    /\ cpc' = "print"
    /\ UNCHANGED <<ready, entry, write_idx, dropped_count, keep_running, writers, read_idx,
                   printed, overrun>>

PrintAndStay ==   \* faulty variant: read_idx does not move
    /\ cpc = "print" /\ cpc' = "look"
    /\ printed' = Append(printed, entry[Slot(read_idx)])
    /\ ready' = [ready EXCEPT ![Slot(read_idx)] = Empty]
    /\ UNCHANGED <<entry, write_idx, read_idx, dropped_count, keep_running, writers, overrun>>

PrintEntry ==
    /\ cpc = "print" /\ cpc' = "look"
    /\ printed' = Append(printed, entry[Slot(read_idx)])
    /\ ready' = [ready EXCEPT ![Slot(read_idx)] = Empty]
    /\ read_idx' = read_idx + 1
    /\ UNCHANGED <<entry, write_idx, dropped_count, keep_running, writers, overrun>>

\* It goes on after keep_running is cleared only while its next slot is ready.
ConsumerExit ==
    /\ cpc = "look" /\ cpc' = "exited"
    /\ keep_running = 0 /\ ready[Slot(read_idx)] # Ready
    /\ UNCHANGED <<ready, entry, write_idx, dropped_count, keep_running, writers, read_idx,
                   printed, overrun>>

\* The main thread calls it last, when no other thread is left.
Deinit ==
    /\ keep_running = 1 /\ keep_running' = 0
    /\ \A w \in Writers : wpc[w] = "idle"
    /\ UNCHANGED <<ready, entry, write_idx, dropped_count, writers, consumer, overrun>>

Terminated == cpc = "exited" /\ UNCHANGED vars
-----------------------------------------------------------------------------
Log(w) == Swap(w) \/ SwapFails(w) \/ Drop(w) \/ Write(w) \/ Publish(w)

Consumer == Look \/ PrintEntry \/ ConsumerExit

Next == (\E w \in Writers : Claim(w) \/ Log(w)) \/ Consumer \/ Deinit \/ Terminated

\* Every thread that can take a step takes it; nobody has to log.
Fairness == WF_vars(Consumer) /\ \A w \in Writers : WF_vars(Log(w))

Spec == Init /\ [][Next]_vars /\ Fairness
-----------------------------------------------------------------------------
(* Properties. *)

\* Types of the log context's fields.
TypeOK ==
    /\ ready \in [Slots -> {Empty, Writing, Ready}]
    /\ entry \in [Slots -> Numbers \cup {0}]
    /\ write_idx \in 0 .. MaxLogs /\ read_idx \in Nat
    /\ dropped_count \in Nat /\ keep_running \in {0, 1}
    /\ wpc \in [Writers -> {"idle", "cas", "drop", "write", "publish"}]
    /\ number \in [Writers -> Numbers \cup {0}]
    /\ cpc \in {"look", "print", "exited"}
    /\ printed \in Seq(Numbers) /\ overrun \in BOOLEAN

Filling(w) == wpc[w] \in {"write", "publish"}

\* A slot is filled by one writer at a time, and by nobody while the consumer
\* reads it: what the three states of "ready" are there for ("to prevent race
\* conditions during rapid wrap-around").
SlotExclusive ==
    \A w \in Writers : Filling(w) =>
        /\ ready[Slot(number[w])] = Writing
        /\ \A v \in Writers \ {w} : Filling(v) => Slot(number[v]) # Slot(number[w])
        /\ ~(cpc = "print" /\ Slot(read_idx) = Slot(number[w]))

\* No message is printed twice, whatever the writers' relative speeds.
PrintedOnce ==
    \A i, j \in 1 .. Len(printed) : printed[i] = printed[j] => i = j

\* A message that was accepted is printed, even if the shutdown begins first, as
\* long as no writer has taken a number a full ring ahead of the consumer.
PrintedUnlessOverrun ==
    \A s \in Slots :
        (ready[s] = Ready /\ ~overrun) ~> (ready[s] = Empty \/ overrun)

=============================================================================
