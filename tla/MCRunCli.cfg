SPECIFICATION FairSpec
CONSTANTS
    None = None
    MaxAttempts = 3
    BaseBackoff = 2
    MaxBackoff = 5
    Rules <- MCRules
    Urls <- MCUrls
    MaxRequests = 2
    MaxElapsed = 1
INVARIANTS
    ZeroMeansReported
    PublishedLast
    SuccessIsStored
    GivesUpInTime
PROPERTIES
    AlwaysExits
