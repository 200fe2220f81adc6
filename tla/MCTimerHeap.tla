---------------------------- MODULE MCTimerHeap ----------------------------
(* Small instances of TimerHeap for TLC. *)
EXTENDS TimerHeap

CONSTANTS m1, m2, m3, m4, m5, m6

SixTimers == {m1, m2, m3, m4, m5, m6}
MCIntervals == {1, 2}

\* Bound: two periodic timers at a time.
FewPeriodic == Cardinality({t \in TimerObjects : period[t] > 0}) <= 2

\* A state but for which timer is which: the heap by the fields of its timers,
\* what is being called, and how many others exist.  Two states of one view are
\* the same up to a permutation of the timers as long as the invariants hold,
\* and whether they hold is part of it.
UpToNames ==
    LET Fields(t) == IF t = Nil THEN Nil ELSE <<expire_at[t], period[t], t = timer>>
        idle == {t \in created : ~is_running[t]}
    IN  <<[i \in Slots |-> Fields(nodes[i])], size, Cardinality(idle),
          IF timer = Nil THEN Nil ELSE <<timer \in created, timer \in idle, period[timer]>>,
          clock, place, now, misplaced, TimerTypeOK /\ HeapHoldsRunning>>
=============================================================================
