SPECIFICATION ReconcilerSpec
CONSTANTS
    Graph = {g1, g2}
    Projects = {{g1}, {g2}}
    Caller = {c1}
    Key <- MCKey
    Revisions = {0}
    None = None
    Purpose = {"edit", "switch"}
    Expiry = TRUE
    Abandonment = FALSE
    Player = {p1, p2}
    MaxSequence = 1
    MaxOperation = 1
    MaxGeneration = 2
    MaxRevision = 0
    MaxTransport = 2
SYMMETRY Symmetry
INVARIANT LeaseIsHeld
PROPERTY PlaybackIsRequested
CHECK_DEADLOCK FALSE
