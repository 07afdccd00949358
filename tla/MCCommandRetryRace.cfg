SPECIFICATION Spec
CONSTANTS
    Scenarios = {s1}
    Bridges = {b1}
    Monitors = {m1, m2}
    MaxOps = 1
    MaxRetries = 2
    Timeout = 1
PROPERTY RetriesOnlyEnded
