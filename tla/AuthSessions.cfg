CONSTANTS
    N = 5
SPECIFICATION Spec
INVARIANTS
    TypeOK
    TokensAccounted
    PasswordEndsSessions
PROPERTIES
    RevocationIsFinal
    BulkRevocationComplete
    ImplementsStore
    RequestsFinish
CHECK_DEADLOCK FALSE
