SPECIFICATION FairReconcilerSpec
CONSTANTS
    Graph = {g1, g2}
    Projects = {{g1, g2}}
    Caller = {c1}
    Key <- MCKey
    Revisions = {0}
    None = None
    Purpose = {"edit"}
    Expiry = FALSE
    Abandonment = FALSE
    Player = {p1, p2}
    MaxSequence = 1
    MaxOperation = 1
    MaxGeneration = 1
    MaxRevision = 0
    MaxTransport = 2
PROPERTY StopIsServed
CHECK_DEADLOCK FALSE
