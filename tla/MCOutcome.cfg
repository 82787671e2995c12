CONSTANTS
    a1 = a1
    a2 = a2
    a3 = a3
    Agents = {a1, a2, a3}
    Coalition = {a1}
    Candidate = a2
    Outcomes <- MCOutcomes
    NSinks = 3
    TapCap = 2
    MaxOutcomes = 4
    MaxSeeds = 1
    Capabilities <- MCCapabilities
    Trust <- MCTrust
    Required <- MCRequired
    Reliability <- MCReliability
    Slices <- MCSlices
    Configs <- MCConfigs
    Speeds <- MCSpeeds
    MaxWork = 7
SPECIFICATION SearchSpec
INVARIANTS SinksAgree QuietMarginal SearchKeepsBest PlansAreExact
PROPERTY ForwarderStops
CHECK_DEADLOCK FALSE
