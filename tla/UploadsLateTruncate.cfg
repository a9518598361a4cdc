SPECIFICATION Spec
CONSTANTS
    r1 = r1
    r2 = r2
    r3 = r3
    NoFile = NoFile
    Requests <- TwoRequests
    MaxSize = 2
    AmbiguousCommits = FALSE
SYMMETRY Symmetry
INVARIANT
    PublishedIntact
CHECK_DEADLOCK FALSE
