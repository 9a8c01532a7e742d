SPECIFICATION Spec
CONSTANTS
    a1 = a1
    a2 = a2
    c1 = c1
    d1 = d1
    d2 = d2
    k1 = k1
    p1 = p1
    Desktops = {d1, d2}
    Clis = {c1}
    Agents = {a1, a2}
    Personas = {p1}
    Keys = {k1}
    NoPersona = NoPersona
    Unborn = Unborn
    Gone = Gone
    Nobody = Nobody
    MaxOps = 3
    MaxFaults = 1
    MaxCrashes = 1
SYMMETRY Interchangeable
INVARIANTS
    CountedOnce
PROPERTIES
    RegistriesAdvance
    EvaluationsStay
    SummariesAgree
CHECK_DEADLOCK FALSE
