CONSTANTS
    NReq = 2
    Client = {c1, c2}
    MaxReq = 2
    MaxCall = 1
    Cpu = "nopreempt"
    Calls = {"cancel", "abortmsg"}
    MayStop = FALSE
    MsgFail = FALSE
    None = None
SPECIFICATION Spec
CHECK_DEADLOCK FALSE
INVARIANTS AbortMsgBeforeNextReq
