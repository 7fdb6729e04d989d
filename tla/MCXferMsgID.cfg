CONSTANTS
    t1 = t1
    t2 = t2
    Threads = {t1}
    None = None
    BDP_NUM_ALL = 255
    MSG_ID_BDP_ADDR_GET = "addr_get"
    MSG_ID_BDP_ACK = "ack"
    Requests <- BdpKinds
    KrRetries = 1
    MaxReq = 2
SPECIFICATION Spec
CHECK_DEADLOCK FALSE
INVARIANT
    SameMsgID
