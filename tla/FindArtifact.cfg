CONSTANTS
    Critical = 20
    MinDischarge = 2
    Capacity = 10
    Short = 1
    Long = 2
    Lookback = 3
    RowLimit = 3
    None = None
    Torn = Torn
    Asked = {1}
    Batteries <- TwoBatteries
    Reports <- TwoReports
    MaxReadings = 6
    Candidates <- BaselineAndForest
    Scores <- TwoScores
    MaxRuns = 2
    MaxRestarts = 1
SPECIFICATION Spec
PROPERTIES
    NoArtifactAfterBaseline
CHECK_DEADLOCK FALSE
