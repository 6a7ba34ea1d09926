----------------------------- MODULE MapHolder ------------------------------
(***************************************************************************)
(* ServerMapHolder (server_map_holder.cpp): the explored map kept as one   *)
(* row-major array over an aligned rectangle, avail, that is reallocated   *)
(* and copied when a tile falls outside it.  valid is the part of avail    *)
(* that received data.  Each operation is an operator from a holder to the *)
(* holder it leaves; a call that throws leaves the holder as it was.       *)
(* The float areas that mirror the two rectangles are functions of them    *)
(* and of the resolution and are not state of the model.                   *)
(***************************************************************************)
EXTENDS CellRect

CONSTANTS
    CellValue,          \* uint8_t: 0 unknown, 1..127 free, 128..255 occupied
    Unknown,            \* 0
    Resolution,         \* resolutions the robot may report, all valid
    Tile,               \* maps passed to setMapData
    ReserveRect,        \* rectangles passed to reserveByCellIdxRect
    ExtendCount,        \* counts passed to setMoreCellCountToExtend
    DefaultExtend       \* C_DEFAULT_MORE_CELL_CNT_TO_EXTEND (32)

ASSUME ValueAssumption == Unknown \in CellValue
ASSUME ExtendAssumption == DefaultExtend \in Nat /\ ExtendCount \subseteq Int
ASSUME ReserveAssumption == ReserveRect \subseteq CellIdxRect
ASSUME TileAssumption ==
    \A t \in Tile :
        /\ t.rect \in CellIdxRect
        /\ t.res \in Resolution
        /\ t.dat \in [0 .. (t.rect.w * t.rect.h - 1) -> CellValue]

VARIABLE holder

Offset(r, x, y) == (y - r.y) * r.w + (x - r.x)

Buffer(r) == [k \in 0 .. (r.w * r.h - 1) |-> Unknown]

(***************************************************************************)
(* The loop of memcpy calls of reserveByCellIdxRect and setMapData: rows   *)
(* rows of width cells, the two offsets advancing by their array's stride. *)
(* width never exceeds destStride, so a cell is written at most once.      *)
(***************************************************************************)
CopyRows(dest, destOff, destStride, src, srcOff, srcStride, width, rows) ==
    [k \in DOMAIN dest |->
        LET j == (k - destOff) \div destStride
            i == (k - destOff) % destStride
        IN  IF j \in 0 .. (rows - 1) /\ i < width
            THEN src[srcOff + j * srcStride + i]
            ELSE dest[k]]

-----------------------------------------------------------------------------
\* The constructor; the default resolution is a member of Resolution.
NewHolder(res) ==
    [avail |-> NoRect, valid |-> NoRect, dat |-> Buffer(NoRect),
     res |-> res, more |-> DefaultExtend]

\* Seeded fault: the array outlives its rectangle.
ClearedKeepingData(m) == [m EXCEPT !.avail = NoRect, !.valid = NoRect]

\* Seeded fault: the rectangle of received data outlives the array.
ClearedKeepingValid(m) == [m EXCEPT !.avail = NoRect, !.dat = Buffer(NoRect)]

\* clear: the data and both rectangles go, the resolution stays.
Cleared(m) ==
    [m EXCEPT !.avail = NoRect, !.valid = NoRect, !.dat = Buffer(NoRect)]

\* reinit, for a resolution that passes sfCheckResolutionValidity_.
Reinitialised(m, res) == [Cleared(m) EXCEPT !.res = res]

\* Seeded fault: the new array is not filled from the old one.
ReservedAfresh(m, r) ==
    IF IsEmpty(r) \/ Contains(m.avail, r) THEN m
    ELSE LET new == Adjusted(Merge(m.avail, r))
         IN  [m EXCEPT !.avail = new, !.dat = Buffer(new)]

\* reserveByCellIdxRect: only the valid part of the old array is copied.
Reserved(m, r) ==
    IF IsEmpty(r) \/ Contains(m.avail, r) THEN m
    ELSE LET new == Adjusted(Merge(m.avail, r))
         IN  [m EXCEPT
                !.avail = new,
                !.dat = IF IsEmpty(m.valid) THEN Buffer(new)
                        ELSE CopyRows(
                               Buffer(new),
                               Offset(new, m.valid.x, m.valid.y), new.w,
                               m.dat,
                               Offset(m.avail, m.valid.x, m.valid.y), m.avail.w,
                               m.valid.w, m.valid.h)]

\* checkToExtendMap_: a side that is too short is pushed out beyond the tile.
Extended(m, r) ==
    IF IsEmpty(r) \/ Contains(m.avail, r) THEN m
    ELSE LET xMin == IF r.x < m.avail.x THEN r.x - m.more ELSE m.avail.x
             yMin == IF r.y < m.avail.y THEN r.y - m.more ELSE m.avail.y
             xEnd == IF XEnd(m.avail) < XEnd(r) THEN XEnd(r) + m.more
                     ELSE XEnd(m.avail)
             yEnd == IF YEnd(m.avail) < YEnd(r) THEN YEnd(r) + m.more
                     ELSE YEnd(m.avail)
         IN  Reserved(m, [x |-> xMin, y |-> yMin,
                          w |-> xEnd - xMin, h |-> yEnd - yMin])

\* setMapData writes an acceptable tile; it returns early on no cells and
\* throws on another resolution.
Acceptable(m, t) == ~IsEmpty(t.rect) /\ t.res = m.res

Updated(m, t) ==
    IF ~Acceptable(m, t) THEN m
    ELSE LET e == Extended(m, t.rect)
         IN  [e EXCEPT
                !.dat = CopyRows(@, Offset(e.avail, t.rect.x, t.rect.y),
                                 e.avail.w, t.dat, 0, t.rect.w,
                                 t.rect.w, t.rect.h),
                !.valid = Merge(@, t.rect)]

\* The classification of a cell in a nav_msgs OccupancyGrid.
RosCell(v) == IF v = 0 THEN -1 ELSE IF v <= 127 THEN 0 ELSE 100

\* Seeded fault: rows of the array are taken to be as wide as valid.
RosMapMsgValidStride(m, req) ==
    LET part == Intersection(m.valid, req)
        blank == [k \in 0 .. (req.w * req.h - 1) |-> -1]
    IN  IF IsEmpty(req) THEN << >>
        ELSE IF IsEmpty(part) THEN blank
        ELSE CopyRows(blank, Offset(req, part.x, part.y), req.w,
                      [k \in DOMAIN m.dat |-> RosCell(m.dat[k])],
                      Offset(m.valid, part.x, part.y), m.valid.w,
                      part.w, part.h)

\* fillRosMapMsg: the message's array over req, -1 where nothing is known.
RosMapMsg(m, req) ==
    LET part == Intersection(m.valid, req)
        blank == [k \in 0 .. (req.w * req.h - 1) |-> -1]
    IN  IF IsEmpty(req) THEN << >>
        ELSE IF IsEmpty(part) THEN blank
        ELSE CopyRows(blank, Offset(req, part.x, part.y), req.w,
                      [k \in DOMAIN m.dat |-> RosCell(m.dat[k])],
                      Offset(m.avail, part.x, part.y), m.avail.w,
                      part.w, part.h)

-----------------------------------------------------------------------------
Init == \E res \in Resolution : holder = NewHolder(res)

Clear == holder' = Cleared(holder)

Reinit(res) == holder' = Reinitialised(holder, res)

SetMoreCellCountToExtend(n) ==
    holder' = [holder EXCEPT !.more = IF 0 <= n THEN n ELSE DefaultExtend]

ReserveByCellIdxRect(r) == holder' = Reserved(holder, r)

SetMapData(t) == holder' = Updated(holder, t)

Next ==
    \/ Clear
    \/ \E res \in Resolution : Reinit(res)
    \/ \E n \in ExtendCount : SetMoreCellCountToExtend(n)
    \/ \E r \in ReserveRect : ReserveByCellIdxRect(r)
    \/ \E t \in Tile : SetMapData(t)

Spec == Init /\ [][Next]_holder

-----------------------------------------------------------------------------
\* The cell values a holder stands for: its grid, read through its layout.
GridOf(m) ==
    [c \in Cells(m.valid) |-> m.dat[Offset(m.avail, c[1], c[2])]]

\* The abstract map the holder implements.
Grid == INSTANCE MapGrid WITH
            bounds <- holder.valid, grid <- GridOf(holder), gridRes <- holder.res

(***************************************************************************)
(* Type invariant: the array has exactly one value per cell of avail.      *)
(***************************************************************************)
HolderType(m) ==
    /\ DOMAIN m = {"avail", "valid", "dat", "res", "more"}
    /\ m.avail \in CellIdxRect /\ m.avail.w >= 0 /\ m.avail.h >= 0
    /\ m.valid \in CellIdxRect /\ m.valid.w >= 0 /\ m.valid.h >= 0
    /\ m.res \in Resolution
    /\ m.more \in Nat
    /\ m.dat \in [0 .. (m.avail.w * m.avail.h - 1) -> CellValue]

TypeOK == HolderType(holder)

(***************************************************************************)
(* Layout: data only lies inside the allocation, and a cell of the         *)
(* allocation that never received data still reads as unknown, however     *)
(* often the array was moved.  The second part is what makes it right for  *)
(* setMapData to grow valid over the gap between two distant tiles.        *)
(***************************************************************************)
InsideAvail(m) == IsEmpty(m.valid) \/ Contains(m.avail, m.valid)

GapsUnknown(m) ==
    \A c \in Cells(m.avail) \ Cells(m.valid) :
        m.dat[Offset(m.avail, c[1], c[2])] = Unknown

LayoutSound == InsideAvail(holder) /\ GapsUnknown(holder)

(***************************************************************************)
(* The assertions on copy offsets (server_map_holder.cpp:66-72, 122-128,   *)
(* 401-402) hold of every call that could come next: whatever tile or      *)
(* rectangle is passed, the array it would be copied into covers both it   *)
(* and all the data held so far.                                           *)
(***************************************************************************)
AssertsHold ==
    /\ \A t \in Tile : Acceptable(holder, t) =>
          LET e == Extended(holder, t.rect)
          IN  /\ Contains(e.avail, t.rect)
              /\ IsEmpty(holder.valid) \/ Contains(e.avail, holder.valid)
    /\ \A r \in ReserveRect : IsEmpty(r) \/
          LET new == Adjusted(Merge(holder.avail, r))
          IN  /\ Contains(new, r)
              /\ IsEmpty(holder.valid) \/ Contains(new, holder.valid)

(***************************************************************************)
(* The published message: for every rectangle asked for, each cell of the  *)
(* message is the classification of the grid's cell, -1 outside the grid.  *)
(***************************************************************************)
MessageShowsGrid ==
    \A req \in ReserveRect : ~IsEmpty(req) =>
        \A c \in Cells(req) :
            RosMapMsg(holder, req)[Offset(req, c[1], c[2])] =
                IF c \in Cells(holder.valid) THEN RosCell(GridOf(holder)[c])
                ELSE -1

\* The holder implements the abstract grid.
ImplementsGrid == Grid!GSpec
=============================================================================
