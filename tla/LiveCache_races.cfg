SPECIFICATION Spec
CONSTANTS
    Client = {c1}
    Cacher = {k1, k2}
    ListId = {l1, l2, l3}
    NoList = NoList
    CacheLen = 2
    ReadCount = 2
    StreamLen = 2
    Tries = 1
    RefreshAfter = 0
    IdleAfter = 0
    ListRaces = TRUE
    MaxFrame = 2
    LastCall = 2
    MaxTime = 2
SYMMETRY Symmetry
INVARIANTS TypeOK NoOrphanCache
