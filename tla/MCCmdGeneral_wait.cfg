\* Two commands of any of the kinds callers use.
CONSTANTS
    Cmd = {c1, c2}
    Kinds <- Callers
SPECIFICATION FairSpec
CHECK_DEADLOCK FALSE
INVARIANTS
    SharingInv
    VerdictsAgree
PROPERTIES
    WaitersReturn
