SPECIFICATION FairSpec
CONSTANTS
    Jobs = {j1, j2}
    Keyed = {j1, j2}
    Cap = 1
    Workers = {w1}
    Stoppable = {}
    Slots = 1
    ReportFirst = TRUE
    Delays = {0, 1}
    MaxTimer = 1
    MaxTime = 1
    MaxErrors = 1
    MaxCuts = 1
    MaxFaults = 1
    MaxReturns = 1
    None = None
CHECK_DEADLOCK FALSE
PROPERTY EveryJobSettles
