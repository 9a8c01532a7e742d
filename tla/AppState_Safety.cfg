CONSTANTS
    w1 = w1
    w2 = w2
    s1 = s1
    a = a
    b = b
    None = None
    Outdated = Outdated
    Asked = Asked
    Failed = Failed
    Absent = Absent
    Registry = Registry
    Windows = {w1, w2}
    Settings = {s1}
    Values = {a, b}
    Default = a
    MaxClock = 2
    MaxFailures = 1
SPECIFICATION Spec
SYMMETRY WindowSymmetry
INVARIANTS
    EditsAreKept
PROPERTIES
    RegistrationsStay
    ShownNeverGoesBack
