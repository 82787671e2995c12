CONSTANTS
    Limit = 2
    Window = 2
    MaxTime = 7
    Watches = TRUE
    Candidates = 3
    k1 = k1
    k2 = k2
    Keys = {k1, k2}
    Monitors = {k1}
    router <- Routed
    Capacity = 2
    QueueCap = 2
    MaxSamples = 4
    SegmentMaxes = {0, 2}
    MaxRecords = 6
    MaxCrashes = 3
    PowerFails = TRUE
SPECIFICATION LifecycleSpec
INVARIANTS BudgetHolds CancelIsFinal ExitReportsTheWorst SamplesAccounted
    StoreSurvives
PROPERTIES LifecycleEnds ImplementsLog
CHECK_DEADLOCK FALSE
