SPECIFICATION MCSpec
CONSTANTS
    Jobs = {j1, j2, j3}
    Handoffs = {h1, h2, h3}
    Workers = {w1}
    FixedKeys = {f1}
    QueueKeys = {k1}
    ScheduleKeys = {s1}
    Idents = {i1}
    Caps = {1, 2}
    RetryLimits = {1}
    RetryDelays <- MCRetryDelays
    Delays = {0}
    OrphanAge = 1
    Retention = 1
    BatchSize = 2
    MaxTime = 2
    None = None
SYMMETRY MCSymmetry
CHECK_DEADLOCK FALSE
INVARIANTS
    TypeOK ConcurrencyExact LeaseEndsOnce AttemptsExact RetryBudget CountsMatch
    OwnerIsLive OnlyOwnerStarts
PROPERTIES
    CapRespected SettledIsFinal ImplementsJobLease
