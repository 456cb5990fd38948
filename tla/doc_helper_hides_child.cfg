\* A heartbeat helper and a child die together.
CONSTANTS
    Names = {g}
    Pids = {p1, p2}
    SIGTERM = SIGTERM
    SIGKILL = SIGKILL
    Signals = {SIGTERM, SIGKILL}
    NULL = NULL
    WILD = WILD
    MaxInst = 1
    ErrorMax = 1
    ForkMayFail = FALSE
    MaxCaught = 1
    MaxSame = 1
    AllowExit = FALSE
    StartReqs <- HeartbeatStart
    UpdateReqs <- NoReqs
    LoadReqs <- NoReqs
SPECIFICATION FairSpec
PROPERTIES DeadChildReaped
