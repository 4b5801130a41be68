SPECIFICATION FairWaits
CONSTANTS
    Graph = {g1, g2}
    Projects = {{g1}, {g2}}
    Caller = {c1, c2}
    Key <- MCKey
    Revisions = {0}
    None = None
    Purpose = {"edit", "switch"}
    Expiry = TRUE
    Abandonment = TRUE
    MaxSequence = 2
    MaxOperation = 2
    MaxGeneration = 2
    MaxRevision = 0
PROPERTY EveryWaitEnds
PROPERTY WorkDrains
CHECK_DEADLOCK FALSE
