SPECIFICATION Spec
CONSTANTS
    Jobs = {j1, j2}
    Keyed = {}
    Cap = 1
    Workers = {w1, w2}
    Stoppable = {w1, w2}
    Slots = 1
    ReportFirst = FALSE
    Delays = {0, 1, 3}
    MaxTimer = 2
    MaxTime = 3
    MaxErrors = 2
    MaxCuts = 1
    MaxFaults = 2
    MaxReturns = 1
    None = None
CONSTRAINT Bound
SYMMETRY MCSymmetry
CHECK_DEADLOCK FALSE
INVARIANTS TypeOK NoLostWakeup FutureJobHasTimer LeaseHasReclaimer LeaseIsTracked
