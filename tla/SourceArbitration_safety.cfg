SPECIFICATION Spec
CONSTANTS
    r1 = r1
    r2 = r2
    Requests = {r1, r2}
    MaxTime = 1
    MaxDelay = 0
    Tick = 100
    DriverStale = 35
    DriverGone = 180
    GpsStale = 45
    GpsGone = 90
    Gap = 25
    StickyWindow = 120
    LastGoodHold = 120
    MaxDisturbances = 1
    Nothing = Nothing
SYMMETRY RequestSymmetry
CHECK_DEADLOCK FALSE
INVARIANTS
    OneRowSelected
    StoresAgree
    EndedIsCold
PROPERTY
    BestStatusWins
