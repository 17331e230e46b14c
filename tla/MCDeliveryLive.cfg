CONSTANTS
    Batteries = {b1}
    Workers = {w1, w2}
    Main = main
    BatchSize = 2
    MaxBatches = 1
    MaxAttempts = 1
    MaxTicks = 10
    FiniteRuns = {TRUE, FALSE}
    MaxRefusals = 1
SPECIFICATION FairSpec
INVARIANTS
    BoundedMemory
PROPERTIES
    RunsToTheEnd
    FailureIsLoud
CHECK_DEADLOCK FALSE
