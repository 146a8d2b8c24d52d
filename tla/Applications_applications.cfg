SPECIFICATION LiveSpec
CONSTANTS
    App = {a}
    Request = {r1}
    MaxCommands = 3
    MaxCalls = 2
    MaxId = 3
    None = None
INVARIANTS TypeOK ReportsAreTrue LastAnswered
PROPERTIES ProgressEnds
