CONSTANTS
    NMsg = 1
    Sender = {s1}
    ModuleQ <- TwoModules
    Prio <- PrioOf
    Ctrl = Ctrl
    Fg = Fg
    Kinds <- Pendable
    LowEvt = {}
    Cpu = "nopreempt"
    Calls = {"io", "stop"}
    Rets = {"ok", "fail"}
    MaxMsg = 2
    MaxCall = 2
    MaxTok = 0
    MaxPend = 0
    None = None
    role = role
    opt = opt
    mandA = mandA
    mandB = mandB
SPECIFICATION FairSpec
CHECK_DEADLOCK FALSE
PROPERTIES MsgCompletes ResumeReleases MsgStopReturns
