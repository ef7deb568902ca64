SPECIFICATION LocalSpec
CONSTANTS
    LocalJobs = {j1}
    LocalKeyed = {}
    MaxAtOnce = 1
    LocalDelays = {0, 1}
    LocalEnd = 1
    MaxRuns = 1
    MaxFailures = 0
    MaxRestarts = 0
    NoFlight = NoFlight
INVARIANT ScheduledRuns
CHECK_DEADLOCK FALSE
