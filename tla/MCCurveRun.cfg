SPECIFICATION FairSpec
CONSTANTS
    MaxVus = 3
    MaxStages = 4
    Stages <- MCUpDownUp
    ScenarioMode = TRUE
    Slack = 0
    DrainMayPanic = TRUE
    Workers = 2
    Doomed = {2}
    MaxRecords = 2
INVARIANTS
    TypeOK
    LiveWithinPeak
    ListedAreLive
    StagesAccount
    ReportComplete
PROPERTIES
    Ends
