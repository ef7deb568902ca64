SPECIFICATION MCSpec
CONSTANTS
    Children = {c1, c2, c3}
    RunnerCount = 2
    RunnerSlots = 1
    MaxInline = 1
    ProcessOpen = TRUE
    PooledJobs = 3
    InlineJobs = 1
    MaxRefusals = 1
    MaxFaults = 1
    None = None
    Jobs = {1, 2, 3}
    Mains = {1, 2}
    Settings = {0, 1, 2}
    Overlap = FALSE
    MaxCrashes = 1
    NoTx = NoTx
    Callers = {p1, p2}
    Scopes = {"mailers", "default"}
    Digests = {"a", "b"}
    Isolation = {"committed", "snapshot"}
    MaxTries = 2
    MaxMishaps = 2
    Nothing = Nothing
    Attempts = {a1, a2, a3}
    Window = 2
    MaxClock = 4
    RunnerJobs = {1, 2}
    Modes = {"pooled", "forked", "spawned"}
    MaxProcs = 2
    ChildSlots = 2
    MaxLeases = 3
    MaxTroubles = 1
    HandoffJobs = {h1}
    HandoffWorkers = {w1, w2}
    Frail = {w1}
    SocketMax = 2
    LeaseMax = 2
    OutageMax = 1
    CrashMax = 1
    Mutators = {q1, q2}
    Starter = q0
    LockJobs = {r1, r2}
    LockKeys = {k1, k2}
CHECK_DEADLOCK FALSE
INVARIANTS CreditsSpentOnce AdmissionInv CountExact ReconcileInv IdemInv MailInv RunnerInv HandoffInv OnlyKnownJams
