SPECIFICATION FairSpec
CONSTANTS
    Concurrency = 2
    Total = 3
    Rps = 1
    U32Max = 5
    TemplateMayFail = TRUE
    DrainMayPanic = TRUE
INVARIANTS
    TypeOK
    IInv
    Ledger
    NeverOverBudget
    RateCap
    ExactUnlessCancelled
PROPERTIES
    NothingAfterDrain
    PoolSpec
    Ends
