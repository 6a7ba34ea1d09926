SPECIFICATION Spec
CONSTANTS
    m1 = m1
    m2 = m2
    Map <- MCMap
    MaxCalls = 1
    RecoverDepth = 1
INVARIANT TrueMeansDone
CHECK_DEADLOCK FALSE
