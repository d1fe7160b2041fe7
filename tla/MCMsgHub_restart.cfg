\* A pool of two, two senders, and three lives of the hub.
CONSTANTS
    Entry = {e1, e2}
    Sender = {s1, s2}
    MaxStart = 3
SPECIFICATION FairSpec
CHECK_DEADLOCK FALSE
INVARIANTS
    PoolInv
    StopCompletesAll
    Forwarded
PROPERTIES
    StopReturns
    MsgServed
