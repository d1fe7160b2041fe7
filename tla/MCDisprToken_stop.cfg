\* Two entries and two callers that can be preempted anywhere; cancels,
\* dispr_is_fg_empty, sends that may fail, and a stop at any moment.
CONSTANTS
    NReq = 2
    Client = {c1, c2}
    MaxReq = 2
    MaxCall = 1
    Cpu = "preempt"
    Calls = {"cancel", "fgempty"}
    MayStop = TRUE
    MsgFail = TRUE
    None = None
SPECIFICATION Spec
SYMMETRY Perms
CHECK_DEADLOCK FALSE
INVARIANTS TypeOK TokenMatchesCur OnlyCurRuns PhyOnWhileHeld LeaveEndsAll EntryInv NoSleepOnOp
PROPERTIES KeepsPromise FgEmptyMissesOne
