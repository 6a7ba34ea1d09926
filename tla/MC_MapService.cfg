SPECIFICATION Spec
CONSTANTS
    m1 = m1
    m2 = m2
    Map <- MCMap
    MaxCalls = 2
    RecoverDepth = 1
INVARIANT NoMoveAcrossMaps
PROPERTY LoadedIsInUse
CHECK_DEADLOCK FALSE
