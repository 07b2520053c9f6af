CONSTANTS
    p1 = p1
    p2 = p2
    p3 = p3
    Requests = {p1, p2, p3}
    MinimumRefreshInterval = 2
    Start = 2
    MaxClock = 5
SPECIFICATION Spec
SYMMETRY Symmetry
INVARIANTS
    IInv
PROPERTIES
    StartsApart
