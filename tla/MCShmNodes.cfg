\* Two nodes, three entries, a queue of two places, two messages.  A node
\* that may never start again, and messages that are all sent, end the run.
SPECIFICATION Spec
CONSTANTS
    n1 = n1
    n2 = n2
    None = None
    Nodes <- TwoNodes
    Entries = 3
    QueueSize = 2
    MaxMsgs = 2
    MaxCrashes = 2
    MaxRestarts = 1
CHECK_DEADLOCK FALSE
INVARIANTS
    TypeOK
    NameIsQueue
PROPERTIES
    RungIsServed
