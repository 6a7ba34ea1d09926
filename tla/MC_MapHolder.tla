---------------------------- MODULE MC_MapHolder ----------------------------
(***************************************************************************)
(* A small instance of MapHolder: an alignment of 2 cells, tiles on both   *)
(* sides of the origin, overlapping and apart, whose cells differ so that  *)
(* a value in the wrong place shows.                                       *)
(***************************************************************************)
EXTENDS MapHolder

Rect(px, py, pw, ph) == [x |-> px, y |-> py, w |-> pw, h |-> ph]

\* Three kinds of cells laid out in turn, starting from the seed-th.
Pattern(r, seed) ==
    [k \in 0 .. (r.w * r.h - 1) |-> <<0, 100, 200>>[((k + seed) % 3) + 1]]

MakeTile(r, seed, res) == [rect |-> r, res |-> res, dat |-> Pattern(r, seed)]

MCCellValue == {0, 100, 200}
MCResolution == {5, 10}
MCTile ==
    {MakeTile(Rect(0, 0, 2, 1), 1, 5), MakeTile(Rect(-3, -1, 3, 2), 0, 5),
     MakeTile(Rect(1, 0, 1, 3), 2, 5), MakeTile(Rect(-1, 2, 2, 1), 1, 5),
     MakeTile(Rect(0, 0, 1, 1), 1, 10), MakeTile(Rect(1, 1, 0, 2), 0, 5)}
MCReserveRect ==
    {Rect(-1, -1, 2, 2), Rect(3, 0, 1, 1), Rect(0, -3, 1, 2), Rect(0, 0, 0, 4)}
MCExtendCount == {-1, 0}
=============================================================================
