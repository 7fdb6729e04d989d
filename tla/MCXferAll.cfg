CONSTANTS
    t1 = t1
    t2 = t2
    Threads = {t1, t2}
    None = None
    BDP_NUM_ALL = 255
    MSG_ID_BDP_ADDR_GET = "addr_get"
    MSG_ID_BDP_ACK = "ack"
    Requests <- AllKinds
    KrRetries = 2
    MaxReq = 2
    BDP_MAX = 2
    KR_MAX = 1
    NUM_ALL = 9
    MaxCalls = 1
    Sizes = {0, 1, 2, 3, 4}
    Block = 2
    Retries = {0, 1, 2, 3}
    MaxFaults = 3
    MaxUploads = 2
SPECIFICATION SumSpec
CHECK_DEADLOCK FALSE
INVARIANTS
    TypesOK
    OwnAnswer
    CallsHonest
    Uploaded
PROPERTY
    TransferEnds
