SPECIFICATION FairSpec
CONSTANTS
    a1 = a1
    a2 = a2
    c1 = c1
    d1 = d1
    k1 = k1
    p1 = p1
    Desktops = {d1}
    Clis = {c1}
    Agents = {a1, a2}
    Personas = {p1}
    Keys = {k1}
    NoPersona = NoPersona
    Unborn = Unborn
    Gone = Gone
    Nobody = Nobody
    MaxOps = 3
    MaxFaults = 1
    MaxCrashes = 1
PROPERTIES
    WorkflowsEnd
CHECK_DEADLOCK FALSE
