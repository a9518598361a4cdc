SPECIFICATION Spec
CONSTANTS
    r1 = r1
    r2 = r2
    r3 = r3
    NoFile = NoFile
    Requests <- ThreeRequests
    MaxSize = 3
    AmbiguousCommits = TRUE
SYMMETRY Symmetry
INVARIANTS
    TypeOK
    ConfirmedBytesStaged
    CompletedHasObject
    CancelledLeavesNoStaging
PROPERTY
    SessionsOnlyAdvance
CHECK_DEADLOCK FALSE
