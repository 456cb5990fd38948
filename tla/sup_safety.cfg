\* One group of up to two instances, the fatal helper, a dump; three tasks
\* at a time.
CONSTANTS
    Names = {g}
    Pids = {p1, p2, p3}
    SIGTERM = SIGTERM
    SIGKILL = SIGKILL
    Signals = {SIGTERM, SIGKILL}
    NULL = NULL
    WILD = WILD
    MaxInst = 2
    ErrorMax = 1
    ForkMayFail = FALSE
    MaxCaught = 1
    MaxSame = 2
    AllowExit = FALSE
    StartReqs <- SafetyStart
    UpdateReqs <- SafetyUpdate
    LoadReqs <- SafetyLoad
SYMMETRY PidSymmetry
SPECIFICATION Spec
INVARIANTS TypeOK HashedUnreaped SlotsOwned MembersSlotted FullStrength SubscriberView
PROPERTIES StartsOnlyWhenRunning
