SPECIFICATION FairSpec
CONSTANTS
    NPROC = 3
    CPU = {c0}
    NoCpu = NoCpu
    Chan = {}
    DEFAULT_TICKETS = 100
    AssignValues = {}
    KillPids = {2}
    MaxPid = 3
PROPERTIES
    OrphansReaped
    KilledProcessExits
CHECK_DEADLOCK FALSE
