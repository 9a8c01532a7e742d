CONSTANTS
    Null = Null
    Repositories = {r1}
    MaxVisits = 2
    MaxCalls = 2
    MaxOutside = 1
    MaxFaults = 2
SPECIFICATION BoardSpec
INVARIANTS
    BusyIsWork
PROPERTIES
    LinkedClonesAreWhole
    OperationsEnd
CHECK_DEADLOCK FALSE
