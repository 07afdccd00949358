SPECIFICATION Spec
CONSTANTS
    Keys = {k1}
    Reset = Reset
    MaxEvents = 3
    SocketLimit = 2
    PauseLimit = 2
    Budgets <- PausedBudgets
INVARIANTS
    ResumeCatchesUp
CHECK_DEADLOCK FALSE
