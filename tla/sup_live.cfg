\* Liveness: one instance, an age limit, no helpers and no dump; the process
\* of a group and one it has lost.
CONSTANTS
    Names = {g}
    Pids = {p1, p2}
    SIGTERM = SIGTERM
    SIGKILL = SIGKILL
    Signals = {SIGTERM, SIGKILL}
    NULL = NULL
    WILD = WILD
    MaxInst = 1
    ErrorMax = 1
    ForkMayFail = FALSE
    MaxCaught = 2
    MaxSame = 1
    AllowExit = FALSE
    StartReqs <- LiveStart
    UpdateReqs <- LiveUpdate
    LoadReqs <- NoReqs
SPECIFICATION FairSpec
INVARIANTS NoLostChild
PROPERTIES DeadChildReaped OverAgeDies
