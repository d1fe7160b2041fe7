\* The two rings of a station compete for one record; one buffer of each kind, rings
\* of two requests that wrap around, a transfer that fails, removal, and a
\* stop at any moment of a turn.
CONSTANTS
    Sta = {a}
    RingSize = 3
    NSts = 1
    NBuf = 1
    MaxReq = 4
    MaxFail = 1
    None = None
SPECIFICATION FairSpec
CHECK_DEADLOCK FALSE
INVARIANTS
    PoolInv
    
    SentInOrder
PROPERTIES
    ReqServed
