----------------------------- MODULE TimerHeap -----------------------------
(***************************************************************************)
(* The timers of a scheduler thread (nos_scheduler.c): a binary min-heap   *)
(* of timer pointers ordered by expire_at_ms, changed by the components of *)
(* the thread, in their handlers and in the timers' own callbacks, and     *)
(* emptied of what is due by process_timers.  Everything here runs on that *)
(* one thread; only the clock moves by itself.                             *)
(*                                                                         *)
(* Fields nobody reads again before they are written (those of a timer     *)
(* that does not run, the array behind the heap's end) are cleared.        *)
(***************************************************************************)
EXTENDS Integers, FiniteSets

CONSTANTS
    TimerObjects,
    Capacity,   \* of the heap
    Intervals,  \* in clock ticks
    MaxTime,    \* bound of the model: where the clock stops
    Nil         \* no timer

\* A heap with room for every timer: process_timers does not look at the
\* capacity when it pushes a periodic timer back.
ASSUME TimerAssumption ==
    /\ IsFiniteSet(TimerObjects) /\ Nil \notin TimerObjects
    /\ Capacity \in Nat /\ Cardinality(TimerObjects) <= Capacity
    /\ Intervals \subseteq Nat \ {0} /\ MaxTime \in Nat

Slots == 0 .. Capacity - 1

VARIABLES
    nodes, size,            \* nos_timer_heap_t
    created,                \* the timers that exist
    expire_at, is_running,
    period,                 \* interval_ms of a periodic timer, else 0
    clock,                  \* CLOCK_MONOTONIC
    place,                  \* "handlers", or in process_timers: "loop", "callback"
    now, timer,             \* the locals of process_timers
    misplaced               \* history: since the heap was last empty a removal has
                            \* put a timer below a later one

heap == <<nodes, size>>
fields == <<expire_at, is_running, period>>
locals == <<place, now, timer>>
timerVars == <<heap, created, fields, clock, locals, misplaced>>

TimerInit ==
    /\ nodes = [i \in Slots |-> Nil] /\ size = 0
    /\ created = {}
    /\ expire_at = [t \in TimerObjects |-> 0] /\ is_running = [t \in TimerObjects |-> FALSE]
    /\ period = [t \in TimerObjects |-> 0]
    /\ clock = 0
    /\ place = "handlers" /\ now = 0 /\ timer = Nil
    /\ misplaced = FALSE

Tick ==
    /\ clock < MaxTime /\ clock' = clock + 1
    /\ UNCHANGED <<heap, created, fields, locals, misplaced>>
-----------------------------------------------------------------------------
(* heapify_up and heapify_down, on an array a with the times in e.          *)

Swap(a, i, j) == [a EXCEPT ![i] = a[j], ![j] = a[i]]

Arrays == [Slots -> TimerObjects \cup {Nil}]

\* A while loop, given n times to end: from an array and an index on, as long as
\* its body says; a body that finds the loop at its end leaves them alone.
Loop(body, s, n) ==
    LET after[k \in 0 .. n] == IF k = 0 THEN s ELSE body[after[k - 1]]
    IN  after[n]

Parent(i) == (i - 1) \div 2

UpBody(e) ==
    [s \in Arrays \X Slots |->
        LET a == s[1] i == s[2]
        IN  IF i = 0 \/ e[a[i]] >= e[a[Parent(i)]] THEN s
            ELSE <<Swap(a, i, Parent(i)), Parent(i)>>]
HeapifyUp(arr, idx, e) == Loop(UpBody(e), <<arr, idx>>, Capacity)[1]

ChildLeft(a, i, n, e) == 2 * i + 1   \* faulty variant: the right child is not looked at

\* The earlier of the children of i in a heap of n; the left one on a tie.
Child(a, i, n, e) ==
    LET left == 2 * i + 1 right == 2 * i + 2
    IN  IF right < n /\ e[a[right]] < e[a[left]] THEN right ELSE left

DownBody(n, e) ==
    [s \in Arrays \X Slots |->
        LET a == s[1] i == s[2] c == Child(a, i, n, e)
        IN  IF 2 * i + 1 >= n \/ e[a[i]] <= e[a[c]] THEN s ELSE <<Swap(a, i, c), c>>]
HeapifyDown(arr, idx, n, e) == Loop(DownBody(n, e), <<arr, idx>>, Capacity)[1]

\* A timer is pushed at the end and sifted up.
Push(t, e) ==
    /\ nodes' = HeapifyUp([nodes EXCEPT ![size] = t], size, e)
    /\ size' = size + 1

RemoveTwice(i) ==   \* faulty variant: the size is decremented twice
    /\ nodes' = HeapifyDown([nodes EXCEPT ![i] = nodes[size - 1], ![size - 1] = Nil],
                            i, size - 1, expire_at)
    /\ size' = size - 2
    /\ UNCHANGED misplaced

\* The last timer takes the place of the removed one and is sifted down only:
\* from another branch of the heap it can be earlier than its new parent.
Remove(i) ==
    /\ nodes' = HeapifyDown([nodes EXCEPT ![i] = nodes[size - 1], ![size - 1] = Nil],
                            i, size - 1, expire_at)
    /\ size' = size - 1
    /\ misplaced' =
          /\ size > 1
          /\ misplaced \/ (i > 0 /\ expire_at[nodes[size - 1]] < expire_at[nodes[Parent(i)]])
-----------------------------------------------------------------------------
(* What the components may do, in a handler or in a timer's callback.       *)

MayCall == place \in {"handlers", "callback"}

\* A callback does not start, stop or delete the periodic timer it is called
\* for, nor start its own timer as a periodic one: process_timers looks at
\* is_periodic after the callback and pushes the timer (again).
MayTouch(t) == MayCall /\ t \in created /\ ~(t = timer /\ period[t] > 0)

Create(t) ==
    /\ MayCall /\ t \notin created
    /\ created' = created \cup {t}
    /\ UNCHANGED <<heap, fields, clock, locals, misplaced>>

StartAgain(t, i, p) ==   \* faulty variant: a running timer is started again
    /\ MayTouch(t) /\ ~(t = timer /\ p) /\ size < Capacity
    /\ expire_at' = [expire_at EXCEPT ![t] = clock + i]
    /\ period' = [period EXCEPT ![t] = IF p THEN i ELSE 0]
    /\ is_running' = [is_running EXCEPT ![t] = TRUE]
    /\ Push(t, expire_at')
    /\ UNCHANGED <<created, clock, locals, misplaced>>

\* nos_timer_start; a call it refuses changes nothing.
Start(t, i, p) ==
    /\ MayTouch(t) /\ ~(t = timer /\ p)
    /\ ~is_running[t] /\ size < Capacity
    /\ expire_at' = [expire_at EXCEPT ![t] = clock + i]
    /\ period' = [period EXCEPT ![t] = IF p THEN i ELSE 0]
    /\ is_running' = [is_running EXCEPT ![t] = TRUE]
    /\ Push(t, expire_at')
    /\ UNCHANGED <<created, clock, locals, misplaced>>

\* The timer runs no more.
Cleared(t) ==
    /\ expire_at' = [expire_at EXCEPT ![t] = 0]
    /\ is_running' = [is_running EXCEPT ![t] = FALSE]

Stop(t) ==
    /\ MayTouch(t) /\ is_running[t]
    /\ \E i \in 0 .. size - 1 : nodes[i] = t /\ Remove(i)
    /\ Cleared(t) /\ period' = [period EXCEPT ![t] = 0]
    /\ UNCHANGED <<created, clock, locals>>

Delete(t) ==
    /\ MayTouch(t) /\ t # timer
    /\ IF is_running[t] THEN \E i \in 0 .. size - 1 : nodes[i] = t /\ Remove(i)
       ELSE UNCHANGED <<heap, misplaced>>
    /\ created' = created \ {t}
    /\ Cleared(t) /\ period' = [period EXCEPT ![t] = 0]
    /\ UNCHANGED <<clock, locals>>
-----------------------------------------------------------------------------
(* process_timers *)

Begin ==
    /\ place = "handlers" /\ place' = "loop"
    /\ now' = clock
    /\ UNCHANGED <<heap, created, fields, clock, timer, misplaced>>

Due == size > 0 /\ now >= expire_at[nodes[0]]

\* The earliest timer leaves the heap before its callback is called.
Fire ==
    /\ place = "loop" /\ place' = "callback"
    /\ Due
    /\ timer' = nodes[0]
    /\ Remove(0)
    /\ Cleared(nodes[0])
    /\ UNCHANGED <<created, period, clock, now>>

\* A periodic timer is pushed back; the clock is read again.
Return ==
    /\ place = "callback" /\ place' = "loop"
    /\ IF period[timer] > 0
       THEN /\ expire_at' = [expire_at EXCEPT ![timer] = clock + period[timer]]
            /\ is_running' = [is_running EXCEPT ![timer] = TRUE]
            /\ Push(timer, expire_at')
       ELSE UNCHANGED <<heap, expire_at, is_running>>
    /\ now' = clock /\ timer' = Nil
    /\ UNCHANGED <<created, period, clock, misplaced>>

\* now is dead from here on.
End ==
    /\ place = "loop" /\ place' = "handlers"
    /\ ~Due
    /\ now' = 0
    /\ UNCHANGED <<heap, created, fields, clock, timer, misplaced>>
-----------------------------------------------------------------------------
Component ==
    \E t \in TimerObjects :
        \/ Create(t) \/ Stop(t) \/ Delete(t)
        \/ \E i \in Intervals, p \in BOOLEAN : Start(t, i, p)

ProcessTimers == Begin \/ Fire \/ Return \/ End

TimerNext == Tick \/ Component \/ ProcessTimers

TimerSpec == TimerInit /\ [][TimerNext]_timerVars
-----------------------------------------------------------------------------
(* Properties. *)

\* Types of the heap, the timers' fields and the locals.
TimerTypeOK ==
    /\ nodes \in Arrays /\ size \in 0 .. Capacity
    /\ created \subseteq TimerObjects
    /\ expire_at \in [TimerObjects -> Nat] /\ is_running \in [TimerObjects -> BOOLEAN]
    /\ period \in [TimerObjects -> Intervals \cup {0}]
    /\ clock \in 0 .. MaxTime /\ now \in 0 .. MaxTime
    /\ place \in {"handlers", "loop", "callback"}
    /\ timer \in TimerObjects \cup {Nil} /\ misplaced \in BOOLEAN

\* The heap holds exactly the running timers, each once: a timer that was
\* deleted leaves no pointer behind, and none fires twice for one start.
HeapHoldsRunning ==
    /\ {nodes[i] : i \in 0 .. size - 1} = {t \in created : is_running[t]}
    /\ \A i, j \in 0 .. size - 1 : nodes[i] = nodes[j] => i = j
    /\ \A t \in TimerObjects : is_running[t] => t \in created

\* process_timers leaves no timer behind that was due when it last read the
\* clock, whatever its callbacks did to the heap: unless a stop or a deletion
\* has put a timer below a later one since the heap was last empty.
NoneOverdue ==
    [][\A t \in TimerObjects :
          (place = "loop" /\ place' = "handlers" /\ ~misplaced /\ is_running[t])
              => expire_at[t] > now]_timerVars
=============================================================================
