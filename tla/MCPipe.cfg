SPECIFICATION FairSpec
CONSTANTS
    Proc = {p1, p2}
    NoProc = NoProc
    Byte = {a, b}
    PIPESIZE = 2
    UintMod = 4
    Counts = {3}
INVARIANTS
    NoLostWakeup
    NoUseAfterFree
PROPERTIES
    IsChannel
    BlockedCallsEnd
CHECK_DEADLOCK FALSE
