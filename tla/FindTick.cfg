CONSTANTS
    LowSocWarning = 20
    LowSocCritical = 10
    HighTempWarning = 50
    HighTempCritical = 55
    VoltageWarning = 75
    VoltageCritical = 125
    RapidWarning = 5
    RapidCritical = 10
    RapidWindow = 1
    Batteries <- OneBattery
    NominalVoltage <- Nominal1
    Readings <- LateReadings
    Payloads <- LatePayloads
    MaxBatchSize = 3
    OfflineThreshold = 1
    Requests = {p1}
    Detector = detector
    AlertIds = {0, 1, 2, 3, 4, 5, 6, 7}
    MaxTime = 1
    MaxFailures = 1
    MaxCrashes = 0
    None = None
SPECIFICATION FairSpec
PROPERTIES
    FailedTickRetried
CHECK_DEADLOCK FALSE
