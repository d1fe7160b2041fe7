\* Two submissions over two lives of the command thread.
CONSTANTS
    Cmd = {c1, c2}
    Kinds <- Mixed
    MaxStart = 2
SPECIFICATION FairSpec
CHECK_DEADLOCK FALSE
INVARIANTS
    SharingInv
    WakeupPending
PROPERTIES
    StopReturns
