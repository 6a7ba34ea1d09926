SPECIFICATION FairSpec
CONSTANTS
    NumTiles = 2
    MaxConn = 2
    MaxEdition = 4
    Resolution <- MCResolution
INVARIANTS
    NoMixedMaps
    HolesArePending
    RequestsServed
    CompositeShown
PROPERTIES
    SyncHappens
    ImplementsMirror
