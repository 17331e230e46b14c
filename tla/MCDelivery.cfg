CONSTANTS
    Batteries = {b1, b2}
    Workers = {w1, w2}
    Main = main
    BatchSize = 2
    MaxBatches = 1
    MaxAttempts = 2
    MaxTicks = 3
    FiniteRuns = {TRUE}
    MaxRefusals = 1
SPECIFICATION Spec
INVARIANTS
    TypeOK
    NothingLost
PROPERTIES
    DeliveryPromise
SYMMETRY DeliverySymmetry
CHECK_DEADLOCK FALSE
