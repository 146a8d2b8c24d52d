SPECIFICATION LiveSpec
CONSTANTS
    Account = {a, b}
    Kept = {a}
    Handler = {h1, h2}
    Reporter = {r1}
    MaxGateway = 1
    MaxPosts = 1
    MaxRestarts = 1
    Empty = Empty
    Torn = Torn
INVARIANTS TypeOK CacheIsWhole CredsMatch
PROPERTIES StaleMended
