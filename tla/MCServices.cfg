CONSTANTS
    t1 = t1
    t2 = t2
    Threads = {t1, t2}
    Functions <- MCFunctions
    Versions <- MCVersions
    Connected = TRUE
    MaxCommands = 3
    MaxEvents = 2
    CommandRetry = 1
    ReceiveRetry = 1
    NakRetry = 1
    Lines = 2
    ConnectRetry = 1
    MaxFaults = 3
    MaxUpdates = 2
    MaxSend = 5
    MaxRoom = 3
    MaxReply = 2
    ChunkLength = 2
    MaxReplies = 5
    MaxLost = 1
    MaxCards = 1
    POWERON_DELAY = 2
    POWERDOWN_DELAY = 1
    MaxTime = 4
    Sessions = {s1, s2, s3}
    Exiting = {s1}
    MaxCalls = 3
    MaxUevents = 1
    MaxInstalls = 2
    Disks = {d1, d2}
    NoDevice = NoDevice
    MaxPlugs = 2
SPECIFICATION FairSpec
INVARIANTS
    TypeOK
    Exchange
    UpdateLoaded
    SentWhole
    ReaderSound
    Connections
    
    AttachedSound
PROPERTIES
    Acquiring
    
    ServicesEnd
CHECK_DEADLOCK FALSE
