\* Six timers, two intervals, and a clock that ticks twice.
SPECIFICATION TimerSpec
CONSTANTS
    m1 = m1
    m2 = m2
    m3 = m3
    m4 = m4
    m5 = m5
    m6 = m6
    Nil = Nil
    TimerObjects <- SixTimers
    Capacity = 6
    Intervals <- MCIntervals
    MaxTime = 2
CONSTRAINT FewPeriodic
VIEW UpToNames
INVARIANTS
    TimerTypeOK
    HeapHoldsRunning
PROPERTIES
    NoneOverdue
