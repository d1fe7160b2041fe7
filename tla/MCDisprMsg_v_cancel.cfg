\* A cancel against the thread that walks the modules.
CONSTANTS
    NMsg = 1
    Sender = {s1}
    ModuleQ <- TwoModules
    Prio <- PrioOf
    Ctrl = Ctrl
    Fg = Fg
    Kinds <- Pendable
    LowEvt = {"e2"}
    Cpu = "preempt"
    Calls = {"cancel"}
    Rets = {"ok", "fail", "pending"}
    MaxMsg = 1
    MaxCall = 1
    MaxTok = 0
    MaxPend = 1
    None = None
    role = role
    opt = opt
    mandA = mandA
    mandB = mandB
SPECIFICATION Spec
CHECK_DEADLOCK FALSE
PROPERTIES NoForwardAfterCancel
