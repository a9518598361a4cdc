CONSTANTS
    N = 4
SPECIFICATION Spec
PROPERTIES
    ReuseEndsFamily
CHECK_DEADLOCK FALSE
