CONSTANTS
    o1 = o1
    b1 = b1
    b2 = b2
    d1 = d1
    c1 = c1
    c2 = c2
    e1 = e1
    Orders = {o1}
    Bodies = {b1, b2}
    Desktop = {d1}
    Cli = {c1}
    Editors = {e1}
    ExternalWrites = FALSE
    DiskFaults = FALSE
    MaxCrashes = 0
    Nobody = Nobody
    Absent = Absent
SPECIFICATION Spec
CHECK_DEADLOCK FALSE
PROPERTIES
    RejectedPreviewIsNoFailure
