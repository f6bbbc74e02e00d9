SPECIFICATION Spec
CONSTANTS
    NPROC = 3
    CPU = {c0, c1}
    NoCpu = NoCpu
    Chan = {disk}
    DEFAULT_TICKETS = 100
    AssignValues = {7}
    KillPids = {2}
    MaxPid = 3
SYMMETRY CpuSymmetry
INVARIANTS
    StackExclusive
    LockFollowsSwitch
    NoLostWait
    ParentCanReap
