SPECIFICATION Spec
CONSTANTS
    Root = Root
    e1 = e1
    e2 = e2
    e3 = e3
    e4 = e4
    n1 = n1
    n2 = n2
    r1 = r1
    r2 = r2
    NoEntry = NoEntry
    Entries <- FiveEntries
    Names <- TwoNames
    Requests <- OneRequest
    Ops <- AllOps
SYMMETRY Symmetry
INVARIANTS
    TypeOK
    Rooted
    ActiveUnderActive
    TrashIsCovered
PROPERTY
    PurgeOnlyTrashed
