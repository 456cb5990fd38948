\* Four errors, no more than three of them in any period of two seconds.
CONSTANTS
    Names = {g1}
    Pids = {p1}
    SIGTERM = SIGTERM
    SIGKILL = SIGKILL
    Signals = {SIGTERM, SIGKILL}
    NULL = NULL
    WILD = WILD
    MaxInst = 2
    ErrorMax = 2
    Period = 2
    MaxTime = 7
    MaxErrors = 6
    Start <- StartTwo
    Updates <- NoUpdates
SPECIFICATION Spec
PROPERTIES BrokenOnlyByBurst
