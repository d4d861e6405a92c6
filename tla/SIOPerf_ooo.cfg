\* Priority queues, every tenant allocates, 4KB and 2MB pages.
SPECIFICATION Spec
CONSTANTS
    TraceEvents <- SmallPages
    MaxTrace = 5
    MaxTime = 100
    MaxInFlight = 2
    IsOOO = TRUE
    Interarrival = 3
    TRANSLATIONS_PER_PKT = 3
    CCHit = 1
    CCMiss = 6
    IOTLBHit = 2
    PrefetchHit = 2
    PCacheHit = 2
    PCIE = 3
    DDR = 2
    IOTLBRow = "LRU"
    MaxFreq = 15
    CCCfg <- OneEntry
    IOTLBCfg <- TwoGroups
    L2Cfg <- OneEntry
    L3Cfg <- OneEntry
    PrefetchCfg <- Prefetch1
    SAlloc = FALSE
    Fanout = 2
    MaxNat = 9
    NoSid = NoSid
PROPERTIES
    FlowsWiden
    ImplementsQueue
CHECK_DEADLOCK FALSE
