SPECIFICATION FairSpec
CONSTANTS
    r1 = r1
    r2 = r2
    r3 = r3
    Requests = {r1, r2, r3}
    k1 = k1
    Keys = {k1}
    f1 = f1
    f2 = f2
    Prints = {f1, f2}
    NoRecord = NoRecord
CHECK_DEADLOCK FALSE
INVARIANTS
    ReplayIsFaithful
    OneAtWorkUnlessRobbed
    ActedOnce
    RetryIsNotBlocked
PROPERTY
    EveryRequestEnds
