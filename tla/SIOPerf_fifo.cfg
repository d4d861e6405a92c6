\* FIFO queues, selective allocation, a pending buffer that fills up.
SPECIFICATION Spec
CONSTANTS
    TraceEvents <- ThreeTenants
    MaxTrace = 6
    MaxTime = 100
    MaxInFlight = 2
    IsOOO = FALSE
    Interarrival = 3
    TRANSLATIONS_PER_PKT = 3
    CCHit = 1
    CCMiss = 6
    IOTLBHit = 2
    PrefetchHit = 2
    PCacheHit = 2
    PCIE = 3
    DDR = 2
    IOTLBRow = "LRU"
    MaxFreq = 15
    CCCfg <- TwoWays
    IOTLBCfg <- OneEntry
    L2Cfg <- OneEntry
    L3Cfg <- OneEntry
    PrefetchCfg <- Prefetch1
    SAlloc = TRUE
    Fanout = 2
    MaxNat = 9
    NoSid = NoSid
INVARIANTS
    TypeOK
    InFlightAccounted
    InFlightBounded
    FlowsConserve
    FlowTimesReal
    SlotsAccounted
    InOrderLookup
    SelectiveAllocDisjoint
PROPERTY
    RunEnds
CHECK_DEADLOCK FALSE
