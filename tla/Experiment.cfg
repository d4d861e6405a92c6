SPECIFICATION Spec
CONSTANTS
    TraceLen = 2
    ContextNum = 0
    PageNum = 1
    HugeEvents = {2}
    Explorers = {one, other}
    LogDirs = {here, there}
    DefaultDir = here
    Copies = 2
    MaxStarts = 3
    PieceEnds = {0, 2}
INVARIANTS
    ReadAsWritten
    UndisturbedRunsAreRight
    OneSimulationPerLog
PROPERTIES
    StatisticsKept
    ExplorationEnds
CHECK_DEADLOCK FALSE
