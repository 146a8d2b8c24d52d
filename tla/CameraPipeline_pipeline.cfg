SPECIFICATION LiveSpec
CONSTANTS
    Uses = {{"images"}, {"rtmp", "disk"}}
    MaxGroup = 3
    MaxIndex = 3
    MaxOpens = 2
    None = None
INVARIANTS TypeOK QueueIsOneGroup DecoderLives GroupsWhole
PROPERTIES DecodedInOrder Forwarded ThreadsGoOn
CHECK_DEADLOCK FALSE
