CONSTANTS
    ncpus = 2
    Slots = 3
    TxSlots = 4
    Batch = 2
    Pages = 2
    Base = 3
    HdrWords = 4
    SumWord = 2
SPECIFICATION FairSpec
INVARIANTS MemoryOutlivesThreads HeaderVerifies RxTakesFromPop
PROPERTIES SignalEnds
