CONSTANTS
    p1 = p1
    a1 = a1
    a2 = a2
    Producers = {p1}
    Apps = {a1, a2}
    None = None
    FdMax = 3
    REGISTERED_APPS_MAX = 2
    MaxMsg = 2
SPECIFICATION FairSpec
CHECK_DEADLOCK FALSE
INVARIANTS
    TypeOK
    RegisteredOpen
    Complete
PROPERTIES
    Drained
    Deregistered
