\* The queries and the analyses against the replay of the log: every mutation.
CONSTANTS
    Values = {root, clone}
    root = root
    clone = clone
    MaxEvents = 5
    Calls <- CallIds
    Requests <- AllRequests
    InitGraphs <- EmptyOnly
    Timestamps <- Times
    SnapshotIds <- Times
    required <- TaskNeeds
    TimestampMax = 7
    REPLAY_BATCH = 2
    UsizeMax = 3
SPECIFICATION LoneSpec
INVARIANTS PastMatchesReplay AnalyticsMatchReplay ReplayParity
CHECK_DEADLOCK FALSE
