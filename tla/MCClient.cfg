SPECIFICATION MCSpec
CONSTANTS
    Devices = {a, b}
    Fields = {k1, k2}
    MutationMax = 3
    PostMax = 3
    FaultMax = 1
    Nobody = Nobody
    Users = {a, b}
    Databases = {k1, k2}
    Caps = {1, 2}
    EntryMax = 3
    UpsetMax = 1
    NoBase = NoBase
    Starters = {a, b}
    Known = {TRUE, FALSE}
    WriteMax = 3
    SaveFaults = 1
    NoStarter = NoStarter
    Tenants = {k1, k2}
    Callers = {a, b, c}
    Generations = {g1, g2}
    MaxHandles = 1
    HandleFaults = 1
    NoGeneration = NoGeneration
SYMMETRY Sym
INVARIANTS SyncInv SingleInv WebInv TenantInv
CHECK_DEADLOCK FALSE
