SPECIFICATION Spec
CONSTANTS
    r1 = r1
    r2 = r2
    Requests = {r1, r2}
    b1 = b1
    Buses = {b1}
    d1 = d1
    Drivers = {d1}
    NoDriver = NoDriver
    Nobody = Nobody
    Schedules <- OneSchedule
    t1 = t1
    t2 = t2
    Trips = {t1, t2}
    NoTrip = NoTrip
    NoSchedule = NoSchedule
SYMMETRY LifecycleSymmetry
CHECK_DEADLOCK FALSE
INVARIANTS
    OneDirectTripPerBus
    EndIsLogged
    LocksAreGivenBack
    MutualExclusion
    NoKeyLeftBehind
PROPERTIES
    ServiceAsPromised
    OnlyHolderReleases
