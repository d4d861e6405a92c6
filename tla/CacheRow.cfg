\* A row of 3 ways and 5 keys, of each class; LFU counters halved at 15 as in
\* the code.
SPECIFICATION Spec
CONSTANTS
    RowSize = 3
    MaxFreq = 15
    Keys = {k1, k2, k3, k4, k5}
    Nats = {1, 2, 3}
INVARIANTS
    BookkeepingMatches
    FifoIsRecencyOrder
    CountersBelowMax
PROPERTY
    ImplementsAbstractRow
