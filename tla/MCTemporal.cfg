\* Two calls in every interleaving on a value and its clone, with dropped
\* futures, panicking mutators, a one-slot tap and a runtime shutdown.
CONSTANTS
    Root = root
    NoCall = NoCall
    NoEvent = NoEvent
    Timestamps <- SmallTimes
    SnapshotIds <- SmallTimes
    Values = {root, clone}
    Calls = {c1, c2}
    Requests <- RacingRequests
    InitGraphs <- PopulatedOnly
    TapCap = 1
    MayShutDown = TRUE
SPECIFICATION FairSpec
INVARIANTS LogReplaysGraph AnswersMatchLog FollowersMatchLog
PROPERTIES PoisonStopsMutations ImplementsAtomic EveryCallEnds
CHECK_DEADLOCK FALSE
