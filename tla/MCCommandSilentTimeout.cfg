SPECIFICATION Spec
CONSTANTS
    Scenarios = {s1}
    Bridges = {b1}
    Monitors = {m1}
    MaxOps = 1
    MaxRetries = 1
    Timeout = 1
PROPERTY TimeoutsReported
