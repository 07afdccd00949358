SPECIFICATION Spec
CONSTANTS
    Scenarios = {s1, s2, s3}
    Users = {u1, u2}
    Requests = {r1, r2}
    MockEnabled = TRUE
SYMMETRY Symmetry
INVARIANTS
    TypeOK
    FactoryFollowsApplied
    HealthFollowsApplied
    VersionTracksStatus
    UpdatedRowMatches
PROPERTIES
    DecisionsStand
    ImplementsContract
