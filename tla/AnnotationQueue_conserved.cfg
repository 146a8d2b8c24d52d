SPECIFICATION LiveSpec
CONSTANTS
    Payload = {a, b}
    MaxAccepted = 3
    UnackedLimit = 2
    MaxBatchSize = 2
    MayLackKey = TRUE
    MaxAgain = 2
INVARIANTS TypeOK Conserved
PROPERTIES AllSent IsOutbox
