SPECIFICATION LiveSpec
CONSTANTS
    Client = {c1}
    Cacher = {k1, k2}
    ListId = {l1, l2}
    NoList = NoList
    CacheLen = 1
    ReadCount = 1
    StreamLen = 1
    Tries = 2
    RefreshAfter = 0
    IdleAfter = 0
    ListRaces = FALSE
    MaxFrame = 1
    LastCall = 1
    MaxTime = 2
INVARIANTS LenBounded
PROPERTIES CachingStops
CHECK_DEADLOCK FALSE
