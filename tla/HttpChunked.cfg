SPECIFICATION HttpSpec
CHECK_DEADLOCK FALSE
CONSTANTS
    COST = 2
    BURST = 3
    MaxStep = 2
    MaxClock = 2
    PORT = 80
    NoHost = NoHost
    NoRange = NoRange
    U64 = 8
    MaxFile = 2
    Sent <- MCSent
    Scripts <- PipelineScripts
    Configs <- MCConfigs
INVARIANT
    PipelineInSync
