SPECIFICATION Spec
CONSTANTS
    U64Max = 4
    HeaderNames <- MCNames
    Aliases <- MCAliases
    MaxHeaders = 2
    MaxScenarios = 2
    MaxWeight = 2
    MaxSteps = 2
    CommandLines <- MCCommandLines
    Files <- MCFiles
    MaxVUs = 5
INVARIANTS
    InnermostWins
    WrittenRefsDefined
    NothingLost
    Proportional
CHECK_DEADLOCK FALSE
