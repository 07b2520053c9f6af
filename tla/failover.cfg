CONSTANTS
    a = a
    b = b
    r1 = r1
    r2 = r2
    None = None
    Static <- TwoEndpoints
    Replicas = {r1}
    Discovery = TRUE
    LongWidth = 5
    MinBackoff = 2
    MaxBackoff = 4
    MinimalInterval = 2
    ExpireInterval = 3
    MaxFailures = 2
    MaxFaults = 2
SPECIFICATION FairSpec
INVARIANTS
    TypeOK
    GivesUpAfterAll
    AlarmHasCause
PROPERTIES
    RestsAfterFailure
    FailsBack
    EveryEndpointServes
    HealthRecovers
