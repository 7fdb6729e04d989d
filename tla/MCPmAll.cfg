CONSTANTS
    c1 = c1
    c2 = c2
    p1 = p1
    p2 = p2
    Callers = {c1, c2}
    Port = {p1, p2}
    NoPort = NoPort
    InitPorts <- MCInitPorts
    Commands <- MCCommands
    EarlyExit = FALSE
    MaxCalls = 2
SPECIFICATION FairSpec
CHECK_DEADLOCK FALSE
INVARIANTS
    PortFinal
    NoLostWakeup

    
