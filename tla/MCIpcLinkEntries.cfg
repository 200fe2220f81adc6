\* One worker, two sockets and one death of the peer; asked of every step of the
\* management thread.
SPECIFICATION Spec
CONSTANTS
    w1 = w1
    w2 = w2
    Workers <- OneWorker
    MaxFds = 2
    TableSize = 4
    RingSize = 4
    HighMark = 1
    SockBuf = 1
    RxBuf = 1
    MaxMsgs = 2
    MaxDeaths = 1
    MaxConnects = 1
CHECK_DEADLOCK FALSE
PROPERTY
    EntriesStay
