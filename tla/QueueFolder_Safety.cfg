CONSTANTS
    q1 = q1
    q2 = q2
    w1 = w1
    w2 = w2
    w3 = w3
    f1 = f1
    f2 = f2
    s1 = s1
    s2 = s2
    g1 = g1
    None = None
    Null = Null
    Missing = Missing
    Deleted = Deleted
    Processes = {q1, q2}
    OrderNames = {w1, w2}
    ReportNames = {f1}
    Sources = {s1}
    Repositories = {g1}
    MaxFiles = 2
    DiscoveryLimit = 1
SPECIFICATION PartSpec
CHECK_DEADLOCK FALSE
SYMMETRY FileSymmetry
INVARIANTS
    UniqueDelegation
    GateIsGrounded
    BusyIsExact
PROPERTIES
    DisplayFollowsClicks
    IdentifiersStay
