\* Two writers, a ring of 2 slots and 5 messages: two laps and a half.
SPECIFICATION Spec
CONSTANTS
    w1 = w1
    w2 = w2
    Writers <- MCWriters
    RingSize = 2
    MaxLogs = 5
INVARIANTS
    TypeOK
    SlotExclusive
    PrintedOnce
PROPERTIES
    PrintedUnlessOverrun
