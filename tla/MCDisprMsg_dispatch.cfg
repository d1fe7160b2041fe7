CONSTANTS
    NMsg = 1
    Sender = {s1, s2}
    ModuleQ <- AllModules
    Prio <- PrioOf
    Ctrl = Ctrl
    Fg = Fg
    Kinds <- Mixed
    LowEvt = {"e2"}
    Cpu = "preempt"
    Calls = {"cancel", "clr", "io"}
    Rets = {"ok", "pending"}
    MaxMsg = 2
    MaxCall = 2
    MaxTok = 0
    MaxPend = 1
    None = None
    role = role
    opt = opt
    mandA = mandA
    mandB = mandB
SPECIFICATION Spec
SYMMETRY Perms
CHECK_DEADLOCK FALSE
INVARIANTS HandledOnce PhaseOrder SuccessMeansHandled PoolInv CompletedOnce PendEvtBacked
