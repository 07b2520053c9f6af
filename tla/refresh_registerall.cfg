CONSTANTS
    s = s
    x = x
    y = y
    f = f
    Items = {x, y, f}
    Selectors <- Overlapping
    Listed <- ListedAsSelected
    FfSelectors = {3}
    Watched = {}
    RefreshAll = {}
    RegisterAll = TRUE
    Callers = {c1}
    Clients = 2
    SecretRefresh = TRUE
    Removable = {y, f}
    MaxWrites = 3
    MaxPushes = 0
    MaxFaults = 1
    MaxPrepareFaults = 1
SPECIFICATION FairSpec
INVARIANTS
    StaleIsDetectable
    PublishedIsMapped
PROPERTIES
    ReloadOnlyOnChange
    EventuallyFresh
