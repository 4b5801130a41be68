CONSTANTS
    Client = {c1}
    MaxTakes = 2
    MaxEdits = 2
    MaxFaults = 1
    None = None
SPECIFICATION Spec
ACTION_CONSTRAINT WhereEditsMatter
INVARIANTS TakesAreWhole EditsSurvive
PROPERTIES WaitIsServed
CHECK_DEADLOCK FALSE
