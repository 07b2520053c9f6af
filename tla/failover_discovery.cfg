CONSTANTS
    a = a
    b = b
    r1 = r1
    r2 = r2
    None = None
    Static <- OneEndpoint
    Replicas = {r1, r2}
    Discovery = TRUE
    LongWidth = 5
    MinBackoff = 2
    MaxBackoff = 4
    MinimalInterval = 2
    ExpireInterval = 3
    MaxFailures = 2
    MaxFaults = 3
SPECIFICATION Spec
INVARIANTS
    LookupsSucceed
