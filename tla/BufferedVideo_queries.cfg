SPECIFICATION LiveSpec
CONSTANTS
    Request = {r1}
    Container = {c1}
    Device = c1
    BufferLen = 2
    QueryCount = 2
    ReadCount = 2
    DecodedLen = 2
    Second = 2
    MaxTime = 4
INVARIANTS TypeOK
PROPERTIES SentInOrder CallsReturn ProcessesEnd
