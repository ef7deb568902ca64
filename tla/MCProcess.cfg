SPECIFICATION MCSpec
CONSTANTS
    First = {f1}
    Second = {g1}
    EventMax = 3
    PublishFaults = 1
    ItemMax = 2
    Writers = {w1, w2}
    PublishMax = 2
    BatchSize = 1
    BreakMax = 2
    CallMax = 5
    BridgeFaults = 2
    OwnClients = {TRUE, FALSE}
    LocalJobs = {l1, l2}
    LocalKeyed = {l1, l2}
    MaxAtOnce = 2
    LocalDelays = {0, 1}
    LocalEnd = 2
    MaxRuns = 2
    MaxFailures = 2
    MaxRestarts = 1
    NoFlight = NoFlight
SYMMETRY Sym
INVARIANTS ChannelInv FeedInv BridgeInv LocalInv
CHECK_DEADLOCK FALSE
