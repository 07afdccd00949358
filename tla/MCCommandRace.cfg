SPECIFICATION Spec
CONSTANTS
    Scenarios = {s1}
    Bridges = {b1}
    Monitors = {m1, m2}
    MaxOps = 2
    MaxRetries = 2
    Timeout = 1
CONSTRAINT FewInFlight
SYMMETRY Symmetric
INVARIANTS
    OneActivePerScenario
    RaceNeedsBudget
    AttemptsAgree
    AppliedIsBacked
PROPERTY ImplementsContract
