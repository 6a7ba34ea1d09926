SPECIFICATION Spec
CONSTANTS
    Align = 2
    Unknown = 0
    DefaultExtend = 1
    CellValue <- MCCellValue
    Resolution <- MCResolution
    Tile <- MCTile
    ReserveRect <- MCReserveRect
    ExtendCount <- MCExtendCount
INVARIANTS
    TypeOK
    LayoutSound
    AssertsHold
    MessageShowsGrid
PROPERTY ImplementsGrid
