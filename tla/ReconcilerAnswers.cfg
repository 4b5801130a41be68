SPECIFICATION FairReconcilerSpec
CONSTANTS
    Graph = {g1, g2}
    Projects = {{g1, g2}}
    Caller = {c1}
    Key <- MCKey
    Revisions = {0}
    None = None
    Purpose = {"edit"}
    Expiry = FALSE
    Abandonment = TRUE
    Player = {p1}
    MaxSequence = 1
    MaxOperation = 1
    MaxGeneration = 1
    MaxRevision = 1
    MaxTransport = 2
PROPERTY PlayIsAnswered
CHECK_DEADLOCK FALSE
