SPECIFICATION SweepSpec
CONSTANTS
    MaxVus = 4
    MaxStages = 3
    Overtime = 2
    Curves <- MCCurves
INVARIANTS
    StageOwnsInstant
    
CHECK_DEADLOCK FALSE
