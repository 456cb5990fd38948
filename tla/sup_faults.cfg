\* Forks that fail, the crash a wild pointer leads to (so the server may
\* really stop), the age limit and the heartbeat; two tasks at a time.
CONSTANTS
    Names = {g}
    Pids = {p1, p2}
    SIGTERM = SIGTERM
    SIGKILL = SIGKILL
    Signals = {SIGTERM, SIGKILL}
    NULL = NULL
    WILD = WILD
    MaxInst = 2
    ErrorMax = 2
    ForkMayFail = TRUE
    MaxCaught = 1
    MaxSame = 1
    AllowExit = TRUE
    StartReqs <- FaultStart
    UpdateReqs <- FaultUpdate
    LoadReqs <- NoReqs
SYMMETRY PidSymmetry
SPECIFICATION Spec
INVARIANTS SlotsOwned MembersSlotted
PROPERTIES StartsOnlyWhenRunning SignalsOnlyChildren
CHECK_DEADLOCK FALSE
