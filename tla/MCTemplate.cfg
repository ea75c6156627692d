SPECIFICATION FairSpec
CONSTANTS
    a = a
    b = b
    c = c
    envSet = envSet
    envUnset = envUnset
    None = None
    Malformed = Malformed
    Names <- MCNames
    EnvNames <- MCEnvNames
    EnvSet <- MCEnvSet
    MaxLength = 5
    UsizeMax = 7
    Files <- MCFiles
    MaxRequests = 2
INVARIANTS
    VerdictIsRight
    BodyAsWritten
    ValuesInSpec
PROPERTIES
    RenderingEnds
