\* An IOTLB of 4 sets and 2 ways split between 2 groups, with and without
\* selective allocation (DIDs 0 and 1 only).
SPECIFICATION Spec
CONSTANTS
    Lvl = 1
    RowT = "LRU"
    MaxFreq = 15
    Size = 8
    Assoc = 2
    Groups = 2
    SAllocs = {TRUE, FALSE}
    StartDid = 0
    Fanout = 2
    Dids = {0, 1, 2}
    Iovas = {0, 1, 2, 3, 4, 5}
    Lvls = {1, 2}
    MaxAccesses = 5
INVARIANTS
    OneRowPerKey
    PartitionsIsolated
    StatsDescribeContents
