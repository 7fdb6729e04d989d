CONSTANTS
    BYTE_MAX = 2
    PREAMBLE = 1
    SOF = 2
    PREAMBLE_SIZE = 1
    HDR_SIZE = 5
    PAYLOAD_MAX = 1
    CrcStep <- MCCrcStep
    MaxBytes = 10
    MaxGaps = 1
SPECIFICATION Spec
CHECK_DEADLOCK FALSE
INVARIANTS
    TypeOK
    Sound
    Complete
