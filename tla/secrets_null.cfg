CONSTANTS
    r1 = r1
    r2 = r2
    Null = Null
    Absent = Absent
    Never = Never
    Refs = {r1, r2}
    Intervals <- OneOrBoth
    LongWidth = 5
    MinBackoff = 1
    MaxBackoff = 20
    MinimumSecretRefreshInterval = 2
    MaxParallel = 2
    MaxRotations = 1
    MaxFaults = 2
SPECIFICATION Spec
INVARIANTS
    NeverPublishedNull
