\* A buffer of 2 pages, 2 pages of history per SID, a window of 2 SIDs.
SPECIFICATION Spec
CONSTANTS
    BuffSize = 2
    HistoryLen = 2
    PrefetchDist = 2
    MaxNat = 9
    Fanout = 2
    NoSid = NoSid
    Events <- MCEvents
    MaxAccesses = 7
INVARIANTS
    HistoryIsRecent
    LearnedFromFirstFollower
    PredictionsScored
CHECK_DEADLOCK FALSE
