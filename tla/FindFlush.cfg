CONSTANTS
    Batteries = {b1}
    Workers = {w1}
    Main = main
    BatchSize = 2
    MaxBatches = 1
    MaxAttempts = 1
    MaxTicks = 5
    FiniteRuns = {TRUE}
    MaxRefusals = 1
SPECIFICATION FairSpec
PROPERTIES
    FailureIsLoud
CHECK_DEADLOCK FALSE
