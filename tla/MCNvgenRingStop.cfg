CONSTANTS
    SLOT_NUM = 4
    WORD = 65536
    TxSlots = 4
    Batch = 3
    NvBatch = 1
    MaxLate = 1
SPECIFICATION FairSpec
PROPERTIES CancelEndsProgram
