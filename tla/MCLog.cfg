SPECIFICATION FairSpec
CONSTANTS
    Op = {o1, o2}
    Block = {b1, b2}
    Val = {v1, v2}
    NotCached = NotCached
    LOGSIZE = 4
    MAXOPBLOCKS = 2
    nlog = 4
    OpBlocks = 2
PROPERTIES
    IsAtomicDisk
    CallsReturn
