\* One posting thread next to the handlers' own posts, a ring of 3 slots (2
\* messages fit), a message whose handler may post and one whose handler does
\* not, and a periodic timer.
SPECIFICATION Spec
CONSTANTS
    c1 = c1
    request = request
    reply = reply
    tick = tick
    NoMsg = NoMsg
    QueueSize = 3
    Callers <- OneCaller
    Requests <- OneRequest
    Replies <- OneReply
    Timers <- OneTimer
    Periodic <- OneTimer
INVARIANTS
    TypeOK
    NoLostWakeup
    NoLostStop
PROPERTIES
    ImplementsMailbox
    QueueServed
    StopHonoured
    TimersServed
