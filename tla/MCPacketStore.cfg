CONSTANTS
    ncpus = 2
    LbaStart = 2
    LbaEnd = 19
    LbaEnds = {19, 30}
    LBA_WORD = 20
    MaxBlocks = 4
    PktUnits = 2
    BlockUnits = {1, 4}
    MaxBatch = 4
SPECIFICATION PSpec
INVARIANTS StartInRange CommandInRange ThreadsApart StoreCoversRange ReadsPackets
