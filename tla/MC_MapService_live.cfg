SPECIFICATION FairSpec
CONSTANTS
    m1 = m1
    m2 = m2
    Map <- MCOneMap
    MaxCalls = 2
    RecoverDepth = 1
PROPERTY WaitsEnd
CHECK_DEADLOCK FALSE
