CONSTANTS
    LowSocWarning = 20
    LowSocCritical = 10
    HighTempWarning = 500
    HighTempCritical = 550
    VoltageWarning = 75
    VoltageCritical = 125
    RapidWarning = 5
    RapidCritical = 10
    RapidWindow = 5
    Nominal = 480
    MaxPower = 5000
    PointsPerTick = 100
    WearPerTick = 2
    HealthFull = 1
    Ambient = 250
    IdlePercent = 2
    Hours <- MCHours
    Variations <- MCVariations
    VoltageNoises <- MCVoltageNoises
    TemperatureNoises <- MCTemperatureNoises
SPECIFICATION Spec
INVARIANTS
    TypeOK
    NoPhysicalAlarm
    SchemaAccepts
PROPERTIES
    ChargeFollowsProfile
