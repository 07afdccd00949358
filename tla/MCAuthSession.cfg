SPECIFICATION SmallSpec
CONSTANTS
    Accounts = {designer, monitor}
    Designers = {designer}
    ToastLimit = 1
    MaxSessions = 2
    MaxRequests = 1
    Budgets <- SmallBudgets
INVARIANTS
    ShellTypeOK
    UserIsSignedIn
    ExpiryIsHeard
PROPERTIES
    LostUserIsLedOn
    LoadingEnds
CHECK_DEADLOCK FALSE
