CONSTANTS
    a1 = a1
    a2 = a2
    a3 = a3
    Devices = {a1, a2, a3}
    BusOf <- MCBusOf
    Zero = Zero
    Broadcast = Broadcast
    BDP_MAX = 2
    BDP_NUM_ALL = 9
    ScanRetries = 1
    MaxScans = 2
    KR_MAX = 1
    k1 = k1
    k2 = k2
    Readers = {k1, k2}
    Start <- MCStart
    Loop = Loop
    Fds = {4, 5}
    Owners = {o1, o2}
    None = None
    KR_NUM_ALL = 255
    Msgs = {addr, echo}
    ADDR_GET = addr
    MaxRequests = 2
    MaxKrScans = 1

SPECIFICATION SumSpec

INVARIANTS
    RoundTrip
    RouteKnown
    NoHoles
    OwnAnswers
PROPERTIES
    NumbersKept
    ScansEnd

CHECK_DEADLOCK FALSE
