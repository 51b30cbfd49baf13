SPECIFICATION FairSpec
CONSTANTS
    d1 = d1
    d2 = d2
    Devices = {d1, d2}
    Registered = {d2}
    Newest <- MCNewest
    Slots = {1, 2}
    h1 = h1
    Handlers = {h1}
    MaxFaults = 1
    None = None
INVARIANTS
    OneCarrier
    StopIsFinal
    NothingForgotten
PROPERTIES
    OneConnection
    SafetyNet
    RowCatchesUp
