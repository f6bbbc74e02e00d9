SPECIFICATION PartsSpec
CONSTANTS
    CPU = {c1, c2}
    NoCpu = NoCpu
    Thread = {t1}
    NLock = 2
    MaxFrames = 3
    NoProc = NoProc
INVARIANTS
    NoSelfDeadlock
    FlagRestored
    NoOversleep
PROPERTIES
    
    KilledSleepReturns
