CONSTANTS
    t1 = t1
    t2 = t2
    Tabs <- OneTab
    N = 2
    MaxExpired = 1
    MaxLosses = 0
SPECIFICATION Spec
INVARIANT
    CsrfErrorMeansAbsent
CHECK_DEADLOCK FALSE
