SPECIFICATION SyncSpec
CONSTANTS
    Devices = {d1, d2}
    Fields = {f1, f2}
    MutationMax = 3
    PostMax = 3
    FaultMax = 1
    Nobody = Nobody
INVARIANT SyncedIsApplied
CHECK_DEADLOCK FALSE
