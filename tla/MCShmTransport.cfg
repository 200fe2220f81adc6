\* Two senders, two blocks, a queue of three slots.
SPECIFICATION Spec
CONSTANTS
    s1 = s1
    s2 = s2
    b1 = b1
    b2 = b2
    None = None
    Link = link
    Worker = worker
    Senders <- TwoSenders
    Blocks <- TwoBlocks
    QueueSize = 3
SYMMETRY SenderSymmetry
\* what becomes of a torn list is not followed
CONSTRAINT Whole
INVARIANTS
    TypeOK
    RefsCounted
    BlockInOnePlace
    QueueIsFifo
    NoneStranded
