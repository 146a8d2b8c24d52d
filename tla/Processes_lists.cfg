SPECIFICATION LiveSpec
CONSTANTS
    Worker = {w1, w2}
    Camera = {b}
    App = {a}
    Ops = {"Start", "Stop", "Info", "List", "Upgrade"}
    Faults = {}
    MaxId = 2
    None = None
PROPERTIES CameraRecordsCleaned
