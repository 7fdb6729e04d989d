CONSTANTS
    d1 = d1
    d2 = d2
    BDP_NUM_ALL = ALL
    MSG_ID_BDP_ADDR_GET = "addr_get"
    MSG_ID_BDP_ACK = "ack"
    Requests <- AllKinds
    SEQ_MAX = 2
    ACTIVE_MAX = 2
    BDP_RETRY_MAX = 1
    MaxReq = 2
    MaxAsync = 1
SPECIFICATION FairSpec
INVARIANTS
    RetryBudget
    TypeOK
PROPERTY
    Settles
CHECK_DEADLOCK FALSE
