CONSTANTS
    o1 = o1
    b1 = b1
    b2 = b2
    d1 = d1
    c1 = c1
    c2 = c2
    e1 = e1
    None = None
    Orders = {o1}
    Bodies = {b1, b2}
    Desktop = {d1}
    Cli = {c1}
    Editors = {e1}
    ExternalWrites = TRUE
    DiskFaults = TRUE
    MaxCrashes = 1
    Nobody = Nobody
    Absent = Absent
SPECIFICATION PartSpec
CHECK_DEADLOCK FALSE
INVARIANTS
    OneRunPerOrder
    ExclusiveOwnership
    AddedIsAccountedFor
PROPERTIES
    UsersDecide
