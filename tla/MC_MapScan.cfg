SPECIFICATION ScanFairSpec
CONSTANTS
    Align = 4
    CellValue <- MCValue
    Unknown = 0
    DefaultExtend = 1
    Resolution = {1}
    Tile <- MCTile
    ReserveRect <- MCKnown
    ExtendCount = {}
    Once = 2
    World <- MCWorld
    KnownRect <- MCKnown
    NearRect <- MCNear
INVARIANTS
    ScanExact
    SyncedShowsKnown
PROPERTIES
    ScansInPlace
    ScanEnds
