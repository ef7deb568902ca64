SPECIFICATION FairSpec
CONSTANTS
    Jobs = {j1, j2}
    Keyed = {j1, j2}
    Cap = 1
    Workers = {w1, w2}
    Stoppable = {}
    Slots = 1
    ReportFirst = FALSE
    Delays = {0}
    MaxTimer = 1
    MaxTime = 0
    MaxErrors = 0
    MaxCuts = 0
    MaxFaults = 0
    MaxReturns = 0
    None = None
CHECK_DEADLOCK FALSE
PROPERTY EveryJobSettles
