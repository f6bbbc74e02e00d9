SPECIFICATION PartsSpec
CONSTANTS
    NPROC = 4
    TicketValues = {1, 3}
    MAX_TICKETS_PER_PROCESS = 3
    LimitMod = 13
    IntMax = 50
    Cpu = {c1, c2}
    NoCpu = NoCpu
    Pid = {q1, q2, q3}
    NoPid = NoPid
    Booted = {c1}
    MaxDispatches = 5
    Limits = {3, 10, 65535}
    PeriodLimit = 10
SYMMETRY OrderSymmetry
INVARIANTS
    WinnerHoldsTicket
    ReportIsExact
    NonzeroRegister
    EvenOverPeriod
PROPERTIES
    IdleOnlyIfNothingRunnable
