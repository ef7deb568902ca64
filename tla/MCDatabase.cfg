SPECIFICATION MCSpec
CONSTANTS
    Clients = {a, b}
    Conns = {c1, c2, c3}
    ReuseKeys = {k1, k2}
    PoolMax = 1
    PoolFaults = 1
    Closes = 1
    Ticks = FALSE
    Drainer = Drainer
    Reaper = Reaper
    Closer = Closer
    NoConn = NoConn
    Ordinary = {o1}
    Operations = {a, b}
    Victims = {a, b}
    Catches = {"plain"}
    DeadlockTries = 2
    NestMax = 2
    FrameMax = 2
    TxnFaults = 2
    NoOne = NoOne
SYMMETRY Sym
INVARIANTS PoolInv TxnInv
CHECK_DEADLOCK FALSE
