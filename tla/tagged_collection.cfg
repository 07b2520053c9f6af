CONSTANTS
    s = s
    x = x
    y = y
    f = f
    Items = {x, y, f}
    Selectors <- Plain
    Listed <- ListedWithTag
    FfSelectors = {2}
    Watched = {}
    RefreshAll = {}
    RegisterAll = TRUE
    Callers = {c1, c2}
    Clients = 2
    SecretRefresh = TRUE
    Removable = {y, f}
    MaxWrites = 3
    MaxPushes = 0
    MaxFaults = 1
    MaxPrepareFaults = 1
SPECIFICATION Spec
PROPERTIES
    ReloadOnlyOnChange
