SPECIFICATION EventsSpec
CONSTANTS
    Check = {g1, g2}
    Delay = 2
    MayFail = TRUE
    NoEvent = NoEvent
    MaxEvents = 8
    MaxTime = 6
SYMMETRY Symmetry
INVARIANTS EventsTypeOK NewsReported
CHECK_DEADLOCK FALSE
