SPECIFICATION Spec
CONSTANTS
    r1 = r1
    r2 = r2
    r3 = r3
    Requests = {r1, r2, r3}
    LastStop = 3
    Places <- MCPlaces
    MaxTime = 2
    Dwell = 1
    OriginDwell = 1
    Nothing = Nothing
SYMMETRY Symmetry
INVARIANTS
    NoStopSkipped
    AnnouncedOnce
    DetectionGoesOn
    PhaseEndsAtStart
PROPERTIES
    StayedBeforeStart
    NoBounceBack
CHECK_DEADLOCK FALSE
