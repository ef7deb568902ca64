SPECIFICATION ReconcileSpec
CONSTANTS
    Jobs = {j1, j2, j3}
    Mains = {m1, m2}
    Settings = {0, 1, 2}
    Overlap = TRUE
    MaxCrashes = 2
    NoTx = NoTx
CHECK_DEADLOCK FALSE
INVARIANT CountExact
