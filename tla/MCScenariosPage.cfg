SPECIFICATION Spec
CONSTANTS
    MaxScenarios = 2
    Layouts = {1, 2}
    Links <- SomeLinks
    MaxRetries = 1
    MaxCalls = 5
    Histories <- SomeHistories
    Budgets <- SomeBudgets
INVARIANTS
    TypeOK
    ComparesCandidate
    RevisesReturned
    BusyIsAwaited

    
CHECK_DEADLOCK FALSE
