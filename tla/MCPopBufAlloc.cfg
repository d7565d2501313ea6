CONSTANTS
    t1 = t1  t2 = t2
    s1 = s1  s2 = s2
    NULL = NULL
    Threads = {t1, t2}
    Structs = {s1, s2}
    PAGE_SIZE = 2
    WORD = 10
    NumPages = 3
    Sizes <- MCSizes
SPECIFICATION FairSpec
INVARIANTS BuffersDisjoint RoundsUp
PROPERTIES ImplementsPageAllocator MutexReleased
