CONSTANTS
    c1 = c1
    c2 = c2
    Clients <- MCClients
    NoClient = NoClient
    N = 4
    MaxTime = 4
    MaxLag = 1
    Limit = 2
    Window = 2
    Block = 2
    MaxFailed = 2
    LockDuration = 2
SYMMETRY Symmetry
SPECIFICATION Spec
INVARIANTS
    AdmittedPerWindow
    DeniedOnlyWhenFull
    NoFailureLost
PROPERTIES
    NothingVerifiedWhileLocked
CHECK_DEADLOCK FALSE
