CONSTANTS
    BatteryBuffer <- Buffer
    MarriageStation <- Marriage
    ChargingStation <- Charging
    Points = {1, 3}
    Widths = {0, 2, 3}
    ZoneIds <- TypedIds
    MinCorners = 1
    MaxCorners = 1
    InitialContent <- Content0
    Layouts = {1, 2}
    MaxPath = 3
    MaxRoutes = 3
    MaxZones = 3
    Budgets <- SomeBudgets
SPECIFICATION Spec
INVARIANTS
    TypeOK
    OneDrawing
    RoutesStand
    DiffIsExact
    BusyIsAwaited
PROPERTIES
    RoutesStayJoined
CHECK_DEADLOCK FALSE
