SPECIFICATION FairSpec
CONSTANTS
    QueueDepth = 2
    MaxSaid = 4
    Plans <- MCPlans
INVARIANTS
    LatestKept
    OnceInOrder
    OldPoseOnlyAfterLeak
    PlacesWhereGrasped
PROPERTY LatestBegun
CHECK_DEADLOCK FALSE
