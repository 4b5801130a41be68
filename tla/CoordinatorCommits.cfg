SPECIFICATION Spec
CONSTANTS
    Graph = {g1, g2}
    Projects = {{g1, g2}}
    Caller = {c1, c2}
    Key <- MCKey
    Revisions = {0}
    None = None
    Purpose = {"edit", "device", "resync", "audio"}
    Expiry = FALSE
    Abandonment = FALSE
    MaxSequence = 2
    MaxOperation = 2
    MaxGeneration = 2
    MaxRevision = 1
SYMMETRY Symmetry
INVARIANTS WorkerOwnsJob ActiveIsLive ProposalIsOwned WaitersHaveWork
PROPERTIES CanonicalAdvances SuccessIsActive CommitPublishesJob
CHECK_DEADLOCK FALSE
