----------------------------- MODULE MC_MapScan -----------------------------
(***************************************************************************)
(* Known areas that are a multiple of the tile, a cell more or less, one   *)
(* cell, empty, and on both sides of the origin; areas near the robot that *)
(* lie inside, across the edge and outside of them.  Neighbouring cells of *)
(* the robot's map differ in value.  The holder's tiles are the answers    *)
(* for any part of a known area.                                           *)
(***************************************************************************)
EXTENDS MapScan

Rect(a, b, c, d) == [x |-> a, y |-> b, w |-> c, h |-> d]

MCKnown == {Rect(-3, -2, 5, 4), Rect(0, 0, 4, 3), Rect(-2, 1, 2, 2),
            Rect(1, -3, 3, 4), Rect(1, -1, 1, 1), Rect(0, 0, 0, 3)}
MCNear == {Rect(-1, -1, 2, 2), Rect(3, 2, 2, 2), Rect(-5, -4, 3, 3)}
MCWorld == [c \in (-6 .. 6) \X (-6 .. 6) |-> ((c[1] + 7 + 3 * (c[2] + 7)) % 7) + 1]
MCValue == 0 .. 7
MCTile == UNION {{Answer(p, 1) : p \in Parts(r)} : r \in KnownRect}
=============================================================================
