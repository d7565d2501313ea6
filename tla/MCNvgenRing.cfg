CONSTANTS
    SLOT_NUM = 8
    WORD = 65536
    TxSlots = 5
    Batch = 3
    NvBatch = 2
    MaxLate = 0
SPECIFICATION Spec
INVARIANTS DmaInBuffer TxRingHolds NoDmaAfterRelease
PROPERTIES FirstLapSendsLoaded
