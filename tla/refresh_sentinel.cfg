CONSTANTS
    s = s
    x = x
    y = y
    f = f
    Items = {s, x, f}
    Selectors <- SentinelFirst
    Listed <- ListedAsSelected
    FfSelectors = {3}
    Watched = {s, x}
    RefreshAll = {s}
    RegisterAll = FALSE
    Callers = {c1, c2}
    Clients = 2
    SecretRefresh = FALSE
    Removable = {x}
    MaxWrites = 3
    MaxPushes = 1
    MaxFaults = 1
    MaxPrepareFaults = 0
SPECIFICATION Spec
INVARIANTS
    TypeOK
    GateExclusive
    StaleIsDetectable
    SentinelCovers
PROPERTIES
    PushKeptByChanges
    ImplementsVersionCache
SYMMETRY Symmetry
