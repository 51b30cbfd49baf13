SPECIFICATION Spec
CONSTANTS
    r1 = r1
    r2 = r2
    r3 = r3
    Requests = {r1, r2, r3}
    MaxAdminActs = 2
    First = First
    Nothing = Nothing
SYMMETRY Symmetry
INVARIANTS
    ReuseMeansTwice
    OldPasswordIsOut
    LockedOutIsOut
PROPERTY SessionsAsPromised
CHECK_DEADLOCK FALSE
