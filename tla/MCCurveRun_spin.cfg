\* Two spinning VUs hold both workers, so the process really may stop here.
CHECK_DEADLOCK FALSE
SPECIFICATION FairSpec
CONSTANTS
    MaxVus = 3
    MaxStages = 4
    Stages <- MCUpDownUp
    ScenarioMode = TRUE
    Slack = 1
    DrainMayPanic = FALSE
    Workers = 2
    Doomed = {1, 2}
    MaxRecords = 1
PROPERTIES
    CtrlCLands
