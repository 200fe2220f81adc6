\* One worker that sends two messages, two sockets, a socket buffer of one
\* packet: the second message finds HELLO and the first one in the ring and is
\* refused.  The peer connects once and dies once.
SPECIFICATION Spec
CONSTANTS
    w1 = w1
    w2 = w2
    Workers <- OneWorker
    MaxFds = 2
    TableSize = 4
    RingSize = 4
    HighMark = 1
    SockBuf = 1
    RxBuf = 1
    MaxMsgs = 2
    MaxDeaths = 1
    MaxConnects = 1
CHECK_DEADLOCK FALSE
INVARIANTS
    TypeOK
    RingInOrder
    CongestedHasBacklog
PROPERTY
    BacklogDrained
