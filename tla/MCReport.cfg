SPECIFICATION Spec
CONSTANTS
    None = None
    buy = buy
    browse = browse
    one = one
    two = two
    Inputs <- MCInputs
    Templates <- MCTemplates
    NumStages = 2
    MaxLatency = 8
    Lossy = {7}
    MaxBuckets = 2
    MaxSamples = 2
    Bars = 3
    MaxRecords = 5
INVARIANTS
    ReportIsTally
    CapsDegradeOnly
    TableAgrees
    BarsAccount
