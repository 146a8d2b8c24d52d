SPECIFICATION Spec
CONSTANTS
    Client = {c1, c2}
    Cacher = {k1}
    ListId = {l1, l2}
    NoList = NoList
    CacheLen = 2
    ReadCount = 2
    StreamLen = 2
    Tries = 2
    RefreshAfter = 0
    IdleAfter = 2
    ListRaces = FALSE
    MaxFrame = 4
    LastCall = 4
    MaxTime = 4
PROPERTIES Ordered IsFeed
