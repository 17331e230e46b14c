CONSTANTS
    Requests = {r1, r2, r3}
    None = none
    Configs <- MCConfigs
    PageSize = 1
    MaxFaults = 2
    MaxRedeploys = 1
SPECIFICATION FairSpec
INVARIANTS
    TypeOK
    RunningMeansRegistered
    WalkMissesNothing
PROPERTIES
    IdentityKept
    FleetComesUp
CHECK_DEADLOCK FALSE
