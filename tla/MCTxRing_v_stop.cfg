\* The stop of the data path against a turn of the tasklet.
CONSTANTS
    Sta = {a}
    RingSize = 3
    NSts = 1
    NBuf = 1
    MaxReq = 2
    MaxFail = 0
    None = None
SPECIFICATION Spec
CHECK_DEADLOCK FALSE
INVARIANTS
    RingOutlives
