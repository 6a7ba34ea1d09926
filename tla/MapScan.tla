------------------------------ MODULE MapScan -------------------------------
(***************************************************************************)
(* How ServerExploreMapUpdateWorker fills the map holder (server_workers,  *)
(* syncWholeMap_, updateMapNearRobot_): a scan of the robot's known area   *)
(* in tiles of limited size, row by row, then updates of the part of the   *)
(* known area that is near the robot.  MapSync has the requests around it; *)
(* here is the geometry, over the operations of MapHolder, whose tiles are *)
(* now what the robot answers.  It answers with the cells it was asked     *)
(* for, at the resolution of the holder, or not at all.                    *)
(***************************************************************************)
EXTENDS MapHolder

CONSTANTS
    Once,           \* iOnceMaxCellCntWH
    World,          \* what the robot's map says of each cell
    KnownRect,      \* areas the robot may know
    NearRect        \* areas that may be near it

\* The map the robot sends of a rectangle.
Answer(r, resolution) ==
    [rect |-> r, res |-> resolution,
     dat |-> [k \in 0 .. (r.w * r.h - 1) |-> World[<<r.x + (k % r.w), r.y + (k \div r.w)>>]]]

\* The rectangles with cells inside another.
Parts(r) ==
    {p \in [x : r.x .. XEnd(r), y : r.y .. YEnd(r), w : 1 .. r.w, h : 1 .. r.h] :
        Contains(r, p)}

ASSUME OnceAssumption == Once \in Nat \ {0}
ASSUME RectAssumption == KnownRect \subseteq ReserveRect /\ NearRect \subseteq CellIdxRect
ASSUME AnswerAssumption ==
    \A r \in KnownRect : \A p \in Parts(r), resolution \in Resolution :
        Answer(p, resolution) \in Tile

VARIABLES
    at,                     \* "idle", or in a "scan"
    known,                  \* knownCellIdxRect of the last scan
    cellIdxX, cellIdxY,     \* the next tile to ask for
    synced                  \* the last scan was completed

cursor == <<cellIdxX, cellIdxY>>
scanVars == <<holder, at, known, cursor, synced>>

-----------------------------------------------------------------------------
\* The known area is taken once, the array is made large enough for it.
BeginScan ==
    /\ at = "idle"
    /\ \E r \in KnownRect :
          /\ ~IsEmpty(r)
          /\ known' = r
          /\ holder' = Reserved(Cleared(holder), r)
          /\ cellIdxX' = r.x /\ cellIdxY' = r.y
    /\ at' = "scan" /\ synced' = FALSE

\* Seeded fault: the last tile of a row or column is as large as the others.
TileOfFullSize == [x |-> cellIdxX, y |-> cellIdxY, w |-> Once, h |-> Once]

TileToAsk ==
    [x |-> cellIdxX, y |-> cellIdxY,
     w |-> MinOf(XEnd(known) - cellIdxX, Once), h |-> MinOf(YEnd(known) - cellIdxY, Once)]

\* Seeded fault: the column is not set back for the next row.
AdvanceDiagonally(tile) ==
    IF XEnd(tile) < XEnd(known)
    THEN cellIdxX' = XEnd(tile) /\ cellIdxY' = cellIdxY
    ELSE cellIdxX' = cellIdxX /\ cellIdxY' = YEnd(tile)

\* Seeded fault: the row does not advance.
AdvanceInRow(tile) ==
    IF XEnd(tile) < XEnd(known)
    THEN cellIdxX' = XEnd(tile) /\ cellIdxY' = cellIdxY
    ELSE cellIdxX' = known.x /\ cellIdxY' = cellIdxY

Advance(tile) ==
    IF XEnd(tile) < XEnd(known)
    THEN cellIdxX' = XEnd(tile) /\ cellIdxY' = cellIdxY
    ELSE cellIdxX' = known.x /\ cellIdxY' = YEnd(tile)

ScanTile ==
    /\ at = "scan" /\ cellIdxY < YEnd(known)
    /\ holder' = Updated(holder, Answer(TileToAsk, holder.res))
    /\ Advance(TileToAsk)
    /\ UNCHANGED <<at, known, synced>>

\* The scan fails where it is, and what it has written stays.
TileFails ==
    /\ at = "scan" /\ cellIdxY < YEnd(known)
    /\ at' = "idle"
    /\ UNCHANGED <<holder, known, cursor, synced>>

EndScan ==
    /\ at = "scan" /\ cellIdxY >= YEnd(known)
    /\ at' = "idle" /\ synced' = TRUE
    /\ UNCHANGED <<holder, known, cursor>>

\* The known area may be another one by now; an empty intersection is skipped.
UpdateNearRobot ==
    /\ at = "idle"
    /\ \E r \in KnownRect, near \in NearRect :
          LET part == Intersection(near, r)
          IN  ~IsEmpty(part) /\ holder' = Updated(holder, Answer(part, holder.res))
    /\ UNCHANGED <<at, known, cursor, synced>>

-----------------------------------------------------------------------------
ScanInit ==
    /\ Init
    /\ at = "idle" /\ known = NoRect /\ cellIdxX = 0 /\ cellIdxY = 0
    /\ synced = FALSE

ScanNext == BeginScan \/ ScanTile \/ TileFails \/ EndScan \/ UpdateNearRobot

ScanSpec == ScanInit /\ [][ScanNext]_scanVars

\* The loops of syncWholeMap_ run on.
ScanFairSpec == ScanSpec /\ WF_scanVars(ScanTile \/ EndScan)

-----------------------------------------------------------------------------
Shown == GridOf(holder)
ShownCells == Cells(holder.valid)

\* The cells of the known area that come before the cursor.
Scanned ==
    {c \in Cells(known) :
        c[2] < cellIdxY \/ (c[2] < cellIdxY + Once /\ c[1] < cellIdxX)}

ScanTypeOK ==
    /\ TypeOK
    /\ at \in {"idle", "scan"} /\ synced \in BOOLEAN
    /\ known \in CellIdxRect /\ cellIdxX \in Int /\ cellIdxY \in Int
    /\ at = "scan" =>
          /\ cellIdxX \in known.x .. (XEnd(known) - 1)
          /\ cellIdxY \in known.y .. YEnd(known)

(***************************************************************************)
(* Tiles leave no gap and do not go beyond the known area: what a scan has *)
(* written is what lies before its cursor, at the robot's value, and the   *)
(* rest is still unknown.                                                  *)
(***************************************************************************)
ScanExact ==
    at = "scan" =>
        /\ ShownCells \subseteq Cells(known)
        /\ \A c \in Cells(known) :
              IF c \in Scanned THEN c \in ShownCells /\ Shown[c] = World[c]
              ELSE c \in ShownCells => Shown[c] = Unknown

(***************************************************************************)
(* A completed scan shows all of the known area at the robot's values, and *)
(* goes on to when later updates, of this known area or another, move the  *)
(* array.                                                                  *)
(***************************************************************************)
SyncedShowsKnown ==
    synced => \A c \in Cells(known) : c \in ShownCells /\ Shown[c] = World[c]

(***************************************************************************)
(* The array reserved for the known area is never moved by the scan, and   *)
(* no cell is asked for twice.                                             *)
(***************************************************************************)
ScansInPlace ==
    [][at = "scan" /\ at' = "scan" =>
          holder'.avail = holder.avail /\ Cells(TileToAsk) \intersect Scanned = {}]_scanVars

\* The two loops come to an end, whatever the sizes of area and tile.
ScanEnds == at = "scan" ~> at = "idle"
=============================================================================
