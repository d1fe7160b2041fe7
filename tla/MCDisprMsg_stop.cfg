CONSTANTS
    NMsg = 2
    Sender = {s1}
    ModuleQ <- TwoModules
    Prio <- PrioOf
    Ctrl = Ctrl
    Fg = Fg
    Kinds <- Plain
    LowEvt = {"e2"}
    Cpu = "preempt"
    Calls = {"stop"}
    Rets = {"ok", "pending"}
    MaxMsg = 2
    MaxCall = 0
    MaxTok = 2
    MaxPend = 1
    None = None
    role = role
    opt = opt
    mandA = mandA
    mandB = mandB
SPECIFICATION Spec
CHECK_DEADLOCK FALSE
INVARIANTS WakeupPerMsg LeaveCompletesAll
