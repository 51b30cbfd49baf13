SPECIFICATION FairSpec
CONSTANTS
    t1 = t1
    t2 = t2
    Trips = {t1, t2}
    StaleAfter = 1
    EndAfter = 1
    MaxAge = 1
    Never = Never
    NoTrip = NoTrip
    MaxFailures = 1
CHECK_DEADLOCK FALSE
PROPERTY
    SilentTripEnds
