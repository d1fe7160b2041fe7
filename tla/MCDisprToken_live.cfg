\* One CPU without preemption and the fairness of the scheduler; three requests in
\* two entries, so that handles outlive their requests.
CONSTANTS
    NReq = 2
    Client = {c1, c2}
    MaxReq = 3
    MaxCall = 1
    Cpu = "nopreempt"
    Calls = {"cancel", "free", "abortmsg"}
    MayStop = TRUE
    MsgFail = FALSE
    None = None
SPECIFICATION FairSpec
CHECK_DEADLOCK FALSE
INVARIANTS EntryInv
PROPERTIES CancelEnds EveryoneServed StopReturns
