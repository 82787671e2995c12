CONSTANTS
    Peers = {p1, p2}
    MaxOpens = 2
    MaxMethods = 3
SPECIFICATION ConnSpec
INVARIANT DialReturnsItsPeer
CHECK_DEADLOCK FALSE
