SPECIFICATION Spec
CONSTANTS
    t1 = t1
    t2 = t2
    Trips = {t1, t2}
    StaleAfter = 1
    EndAfter = 2
    MaxAge = 2
    Never = Never
    NoTrip = NoTrip
    MaxFailures = 1
SYMMETRY TripSymmetry
CHECK_DEADLOCK FALSE
INVARIANTS
    OneAlertPerSilence
    EndedForSilence
