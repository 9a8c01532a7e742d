CONSTANTS
    None = None
    NoValue = NoValue
    Unset = Unset
    Capacity = 1
    r1 = r1
    r2 = r2
    p1 = p1
    p2 = p2
    w1 = w1
    Repos = {r1}
    MaxAttempts = 2
    MaxMade = 3
    MaxInputs = 5
    MaxFailures = 1
SPECIFICATION PartSpec
INVARIANTS
    SchedulerIsExact
    QuietViewIsSession
    TasksAreToldRight
PROPERTIES
    SelectedAreInspected
    LockIsFinal
    EditsSurvive
    SyncIsExact
    ResultsAreShown
    ListCatchesUp
CHECK_DEADLOCK FALSE
