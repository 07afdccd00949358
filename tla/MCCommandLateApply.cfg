SPECIFICATION Spec
CONSTANTS
    Scenarios = {s1}
    Bridges = {b1}
    Monitors = {m1}
    MaxOps = 2
    MaxRetries = 0
    Timeout = 1
PROPERTY CreatesOnlyForApproved
