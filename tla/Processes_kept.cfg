SPECIFICATION Spec
CONSTANTS
    Worker = {w1, w2}
    Camera = {a}
    App = {}
    Ops = {"Start", "Stop", "Info", "Set", "List", "Stream", "Upgrade"}
    Faults = {"docker", "redis", "cloud", "store", "crash"}
    MaxId = 3
    None = None
SYMMETRY Symmetry
INVARIANTS TypeOK StartedIsKept
PROPERTIES StopStops
