SPECIFICATION Spec
CONSTANTS
    r1 = r1
    r2 = r2
    r3 = r3
    Requests = {r1, r2, r3}
    MaxAttempts = 1
    Ttl = 2
    Cooldown = 2
    MaxNow = 3
    First = First
    Nothing = Nothing
SYMMETRY Symmetry
INVARIANT
    SingleUse
CHECK_DEADLOCK FALSE
