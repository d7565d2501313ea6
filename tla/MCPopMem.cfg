CONSTANTS
    h1 = h1  h2 = h2 
    d1 = d1 
    HUGE = HUGE
    Handles = {h1, h2}
    Devs = {d1}
    Sizes <- MCSizes
    PAGE_SIZE = 4
    HugePages = 2
    NrHuge = 4
    PoolPages = 3
    FdLimit = 3
    MaxRegs = 3
SPECIFICATION MemSpec
SYMMETRY MCSymmetry
INVARIANTS PagesMapped FailedInitClosesAll
\* A process whose calls of pop_mem_exit() failed has nothing left to do.
CHECK_DEADLOCK FALSE
