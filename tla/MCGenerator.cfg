CONSTANTS
    TxSlots = 8
    Batch = 2
    NvBatch = 3
SPECIFICATION GFairSpec
INVARIANTS SpaceIsFree FillFits NoReadAfterClose
PROPERTIES SignalEnds
