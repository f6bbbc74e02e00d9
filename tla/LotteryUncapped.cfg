SPECIFICATION Spec
CONSTANTS
    NPROC = 2
    TicketValues = {1, 15, 16}
    MAX_TICKETS_PER_PROCESS = 7
    LimitMod = 16
    IntMax = 127
INVARIANTS
    NoDivideError
