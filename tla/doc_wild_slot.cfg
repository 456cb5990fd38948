\* fork fails while a group grows.
CONSTANTS
    Names = {g}
    Pids = {p1, p2}
    SIGTERM = SIGTERM
    SIGKILL = SIGKILL
    Signals = {SIGTERM, SIGKILL}
    NULL = NULL
    WILD = WILD
    MaxInst = 2
    ErrorMax = 1
    ForkMayFail = TRUE
    MaxCaught = 1
    MaxSame = 1
    AllowExit = FALSE
    StartReqs <- PlainStart
    UpdateReqs <- GrowUpdate
    LoadReqs <- NoReqs
SPECIFICATION Spec
INVARIANTS SlotsInitialised
CHECK_DEADLOCK FALSE
