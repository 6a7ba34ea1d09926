SPECIFICATION Spec
CONSTANTS
    Count = 4
    HalfStep = 2
    Angles <- MCAngles
    MaxPoints = 3
    MaxScans = 2
INVARIANTS ClosestShown WithinHalfStep RawOnce TurnsAsSaid
CHECK_DEADLOCK FALSE
