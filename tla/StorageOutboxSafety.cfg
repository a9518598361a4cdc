SPECIFICATION Spec
CONSTANTS
    o1 = o1
    o2 = o2
    w1 = w1
    w2 = w2
    c1 = c1
    c2 = c2
    NoObject = NoObject
    Objects <- TwoObjects
    Workers <- TwoWorkers
    Copies <- TwoCopies
    EventBatchSize = 2
    OrphanBatchSize = 1
    CopySize = 2
    CopyAborts = TRUE
    AmbiguousUploads = FALSE
    MaxRefs = 2
    MaxPurges = 2
    MaxFaults = 2
SYMMETRY Symmetry
INVARIANTS
    TypeOK
    CommittedBytesExist
    DeleteEventsAreFinal
    SweepsKeepForeignKey
    LeaseHolds
    BytesAccountedFor
PROPERTY
    ImplementsLifecycle
