SPECIFICATION Spec
CONSTANTS
    N = 2
    NicNum = 3
    Runs = 2
    MaxStarts = 2
INVARIANTS
    CollectorTypeOK
    PairsConnected
    OwnLogIsWhole
PROPERTIES
    CollectionEnds
CHECK_DEADLOCK FALSE
