SPECIFICATION LiveSpec
CONSTANTS
    Camera = {a}
    Handler = {h1, h2}
    MaxCalls = 4
    MaxOut = 1
    None = None
INVARIANTS TypeOK BoundIsInstalled
PROPERTIES InstalledIsBound
CHECK_DEADLOCK FALSE
