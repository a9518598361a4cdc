CONSTANTS
    t1 = t1
    t2 = t2
    Tabs <- TwoTabs
    N = 3
    MaxExpired = 1
    MaxLosses = 1
SPECIFICATION Spec
INVARIANTS
    ForbiddenMeansOvertaken
PROPERTIES
    NoSpuriousLogout
    CallsSettle
CHECK_DEADLOCK FALSE
