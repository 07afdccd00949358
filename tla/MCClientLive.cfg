SPECIFICATION Spec
CONSTANTS
    Keys = {k1, k2}
    Reset = Reset
    MaxEvents = 3
    SocketLimit = 1
    PauseLimit = 1
    Budgets <- LiveBudgets
INVARIANTS
    TypeOK
    ShowsEverythingReceived
    LiveMeansConnected
PROPERTIES
    ImplementsContract
    CatchesUp
CHECK_DEADLOCK FALSE
