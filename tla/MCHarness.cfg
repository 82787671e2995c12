CONSTANTS
    a1 = a1
    a2 = a2
    a3 = a3
    a4 = a4
    None = None
    NoValue = NoValue
    Bits = 4
    Roles = 2
    BenchConfigs <- MCBenchConfigs
    Alignment <- MCAlignment
    RedrawCap = 2
    FlatSignalWidth = 5
    NTasks = 2
    MaxOther = 1
    REPLAY_CAP = 1
    ArmAgents = {a1, a2}
    ArmCallers = {c1, c2}
    ArmConfigs <- MCArmConfigs
    MaxArmTasks = 3
    MaxArmCalls = 3
    Workforce <- MCWorkforce
    Fuel = 3
    REGISTRY_CAP = 2
    Staff <- MCStaff
    Coalitions <- MCCoalitions
    Requirements = {{0, 2}, {0, 1, 2}}
    MagConfigs <- MCMagConfigs
    Noise = 1
    Roundoff = 1
    Band = 2
    MagnitudeOf <- MCMagnitudeOf
    FastMagnitudeOf <- MCFastMagnitudeOf
    TypedMagnitude <- MCTypedMagnitude
    Lambdas <- MCLambdas
    Residuals <- MCResiduals
SPECIFICATION HarnessSpec
INVARIANTS
    ReconstructionAgrees
    SweepsKeepCoverage
    GroupAccounts
    ModelsSeeTheirSteps
    RewritesKeepClass
    EvictionsAreBounded
    MagnitudeDecidesFresh
    ResidualOnlyKeeps
CHECK_DEADLOCK FALSE
