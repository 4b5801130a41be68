CONSTANTS
    p1 = p1
    p2 = p2
    d1 = d1
    x = x
    y = y
    None = None
    Project = {p1, p2}
    Device = {d1}
    Plugin = {x, y}
    First = p1
    Factory = x
    MaxVersion = 2
    MaxOpens = 1
    MaxSwitches = 1
    MaxCrashes = 1
SPECIFICATION Spec
INVARIANTS FinalsAreKept
PROPERTIES SwitchKeepsEdits RequestsEnd
CHECK_DEADLOCK FALSE
