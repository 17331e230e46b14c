CONSTANTS
    LowSocWarning = 20
    LowSocCritical = 10
    HighTempWarning = 50
    HighTempCritical = 55
    VoltageWarning = 75
    VoltageCritical = 125
    RapidWarning = 5
    RapidCritical = 10
    RapidWindow = 1
    Batteries <- OneBattery
    NominalVoltage <- Nominal1
    Readings <- RepeatReadings
    Payloads <- RepeatPayloads
    MaxBatchSize = 3
    OfflineThreshold = 1
    Requests = {p1}
    Detector = detector
    AlertIds = {0, 1, 2, 3, 4}
    MaxTime = 2
    MaxFailures = 0
    MaxCrashes = 0
    None = None
SPECIFICATION Spec
INVARIANTS
    CurrentAccepted
CHECK_DEADLOCK FALSE
