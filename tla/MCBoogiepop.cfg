CONSTANTS
    d1 = d1  d2 = d2  d3 = d3
    o1 = o1  o2 = o2
    f1 = f1
    t1 = t1  t2 = t2
    NULL = NULL
    Devs = {d1, d2, d3}
    P2pDevs = {d1, d2}
    Tasks = {t1, t2}
    Objs = {o1, o2}
    Files = {f1}
    ReqSizes <- MCReqSizes
    PAGE_SIZE = 2
    PoolPages = 2
    INT = 64
    MaxRefs = 2
SPECIFICATION Spec
SYMMETRY MCSymmetry
INVARIANTS PoolAccounting NodesMatchList ListedPinned FaultsInside UnloadClean
