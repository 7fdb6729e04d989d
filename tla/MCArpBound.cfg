CONSTANTS
    a1 = a1
    a2 = a2
    a3 = a3
    Devices = {a1, a2, a3}
    BusOf <- MCBusOf
    Zero = Zero
    Broadcast = Broadcast
    BDP_MAX = 2
    BDP_NUM_ALL = 9
    ScanRetries = 1
    MaxScans = 2
SPECIFICATION Spec
INVARIANTS
    InTable
CHECK_DEADLOCK FALSE
