SPECIFICATION FairSpec
CONSTANTS
    Scenarios = {s1}
    Bridges = {b1}
    Monitors = {m1}
    MaxOps = 1
    MaxRetries = 1
    Timeout = 2
INVARIANTS
    TypeOK
    AttemptsAgree
    AppliedIsBacked
    ExecutesOnlyAcknowledged
PROPERTIES
    AttemptsImmutable
    CompletedIsFinal
    CommandsEnd
