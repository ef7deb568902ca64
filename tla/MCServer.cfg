SPECIFICATION MCSpec
CONSTANTS
    RequestMax = 3
    NoRequest = NoRequest
    Sockets = {s1, s2, s3}
    Channels = {h1}
    Connections = {k1}
    Resolvers = {TRUE, FALSE}
    MaxPending = 1
    PausedCap = 1
    MessageMax = 2
    BroadcastMax = 2
    NoSession = NoSession
SYMMETRY Sym
INVARIANTS PipelineInv SessionInv
PROPERTY EndedIsSilent
CHECK_DEADLOCK FALSE
