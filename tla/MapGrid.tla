------------------------------ MODULE MapGrid -------------------------------
(***************************************************************************)
(* What ServerMapHolder promises its users, free of memory layout: an      *)
(* occupancy grid over the smallest rectangle that bounds every tile       *)
(* written since it was last emptied.  A cell holds what was last written  *)
(* to it, or Unknown if nothing was.                                       *)
(***************************************************************************)
EXTENDS CellRect

CONSTANTS
    CellValue,      \* what a map cell may hold
    Unknown,        \* the value of a cell nobody has written
    Resolution,     \* the map resolutions the robot may report
    Tile            \* the pieces of map the robot may deliver

VARIABLES
    bounds,         \* the smallest rectangle around all that was written
    grid,           \* a value for each cell of bounds
    gridRes         \* the resolution the cells were written at

gridVars == <<bounds, grid, gridRes>>

\* The place of column x, row y in a row-major array over rectangle r.
Offset(r, x, y) == (y - r.y) * r.w + (x - r.x)

\* What tile t says of a cell of its rectangle.
TileCell(t, c) == t.dat[Offset(t.rect, c[1], c[2])]

GInit ==
    /\ bounds = NoRect
    /\ grid = [c \in Cells(NoRect) |-> Unknown]
    /\ gridRes \in Resolution

\* Everything is forgotten, perhaps to start again at another resolution.
GForget ==
    /\ bounds' = NoRect
    /\ grid' = [c \in Cells(NoRect) |-> Unknown]
    /\ gridRes' \in Resolution

\* A tile of the grid's own resolution overwrites the cells it covers.
GWrite(t) ==
    /\ ~IsEmpty(t.rect)
    /\ t.res = gridRes
    /\ bounds' = Merge(bounds, t.rect)
    /\ grid' = [c \in Cells(bounds') |->
                  IF c \in Cells(t.rect) THEN TileCell(t, c)
                  ELSE IF c \in Cells(bounds) THEN grid[c]
                  ELSE Unknown]
    /\ UNCHANGED gridRes

GNext == GForget \/ \E t \in Tile : GWrite(t)

GSpec == GInit /\ [][GNext]_gridVars

-----------------------------------------------------------------------------
(***************************************************************************)
(* What users of the grid rely on.  Nothing is made up: a value at a cell  *)
(* is one that a tile of the grid's own resolution has for this very cell. *)
(***************************************************************************)
Told(c, v) == \E t \in Tile :
    t.res = gridRes /\ c \in Cells(t.rect) /\ v = TileCell(t, c)

NothingInvented ==
    \A c \in Cells(bounds) : grid[c] = Unknown \/ Told(c, grid[c])

(***************************************************************************)
(* And nothing is lost: unless it is all forgotten, a cell stays, and has  *)
(* another value only when a tile says so.                                 *)
(***************************************************************************)
KeepsCells ==
    bounds' # NoRect =>
        \A c \in Cells(bounds) :
            /\ c \in Cells(bounds')
            /\ grid'[c] = grid[c] \/ Told(c, grid'[c])

NothingLost == [][KeepsCells]_gridVars
=============================================================================
