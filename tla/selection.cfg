CONSTANTS
    f = f
    r = r
    x = x
    xp = xp
    flag = flag
    ref = ref
    key = key
    inside = inside
    None = None
    Order <- FourItems
    KeyOf <- TheirKeys
    Contents <- InSnapshots
    Missing <- MissingEntries
    Dropped <- DroppedEntries
    PageSize = 2
    DefaultQuery <- NoLabel
    Filters <- SomeFilters
    FlagFilters = {{f}}
    Snapshots = {{x}}
    Registrations <- WatchedKeys
    MaxCalls = 3
    MaxWrites = 3
SPECIFICATION Spec
INVARIANTS
    TypeOK
    AsIfReloaded
