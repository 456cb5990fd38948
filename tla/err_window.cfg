\* A period of two seconds, two errors per instance, two instances, a clock
\* that runs for three periods.
CONSTANTS
    Names = {g1}
    Pids = {p1}
    SIGTERM = SIGTERM
    SIGKILL = SIGKILL
    Signals = {SIGTERM, SIGKILL}
    NULL = NULL
    WILD = WILD
    MaxInst = 2
    ErrorMax = 2
    Period = 2
    MaxTime = 7
    MaxErrors = 6
    Start <- StartTwo
    Updates <- AllUpdates
SPECIFICATION Spec
INVARIANTS TypeOK CounterIsLastRun
PROPERTIES BurstBreaks BreaksOnlySteadily StoppedStaysStopped
