\* Finding: a delta stops short of its end.
CONSTANTS
    Values = {root, clone}
    root = root
    clone = clone
    MaxEvents = 4
    Calls <- CallIds
    Requests <- WithClears
    InitGraphs <- EmptyOnly
    Timestamps <- Times
    SnapshotIds <- Times
    required <- TaskNeeds
    TimestampMax = 7
    REPLAY_BATCH = 2
    UsizeMax = 3
SPECIFICATION LoneSpec
INVARIANTS DeltaReachesTo
CHECK_DEADLOCK FALSE
