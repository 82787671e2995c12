CONSTANTS
    Legs = 2
    TeeTapCap = 2
    LegCap = 1
    MaxTeed = 3
    Clients = {c1}
    BufferCap = 2
    TapCap = 1
    MaxRecords = 3
    MaxRequests = 3
    Peers = {p1, p2}
    MaxOpens = 2
    MaxMethods = 3
SPECIFICATION RemoteSpec
INVARIANTS LegsAreIndependent BufferIsNewest CursorAccounts ConnectedIsTracked
PROPERTY RemoteEnds
CHECK_DEADLOCK FALSE
