CONSTANTS
    MaxCpus = 3
    Pages = 3
    MaxPkts = 1
    ULONG = 16
SPECIFICATION FairSpec
INVARIANTS ReleasedAtRest MappedUntilJoin RatesAddUp
PROPERTIES SignalEnds
