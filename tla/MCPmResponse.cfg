CONSTANTS
    c1 = c1
    c2 = c2
    p1 = p1
    p2 = p2
    Callers = {c1}
    Port = {p1, p2}
    NoPort = NoPort
    InitPorts <- MCInitPorts
    Commands <- MCTwice
    EarlyExit = FALSE
    MaxCalls = 2
SPECIFICATION Spec
CHECK_DEADLOCK FALSE
INVARIANT
    WaitedForResponse
