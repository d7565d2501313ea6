CONSTANTS
    ncpus = 2
    Batch = 2
    MaxCount = 1
SPECIFICATION FairSpec
INVARIANTS IntervalNotNegative NoCommandAfterRelease
PROPERTIES BufferIdleAtIssue SignalEnds
