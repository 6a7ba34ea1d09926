------------------------------ MODULE CellRect ------------------------------
(***************************************************************************)
(* Integer rectangles of map cells, as ServerMapHolder's static functions  *)
(* compute them (server_map_holder.h, server_map_holder.cpp:239-305 and    *)
(* 428-478).  A rectangle is a position and a size; a size that is not     *)
(* positive makes it empty.                                                *)
(***************************************************************************)
EXTENDS Integers

CONSTANT Align          \* C_MAP_DATA_SIZE_ALIGNMENT (16 in the code)

ASSUME AlignAssumption == Align \in Nat \ {0}

CellIdxRect == [x: Int, y: Int, w: Int, h: Int]

\* rpos::core::RectangleI()
NoRect == [x |-> 0, y |-> 0, w |-> 0, h |-> 0]

IsEmpty(r) == r.w <= 0 \/ r.h <= 0

XEnd(r) == r.x + r.w
YEnd(r) == r.y + r.h

\* The cells a rectangle covers, each a pair <<column, row>>.
Cells(r) == (r.x .. (XEnd(r) - 1)) \X (r.y .. (YEnd(r) - 1))

MinOf(a, b) == IF a <= b THEN a ELSE b
MaxOf(a, b) == IF a <= b THEN b ELSE a

(***************************************************************************)
(* sfDoesCellIdxRectContain: the far edge of an object of no width (height)*)
(* is its own position, which must lie strictly inside.                    *)
(***************************************************************************)
Contains(r, obj) ==
    /\ ~IsEmpty(r)
    /\ r.x <= obj.x /\ obj.x < XEnd(r) /\ obj.x + MaxOf(obj.w, 0) <= XEnd(r)
    /\ r.y <= obj.y /\ obj.y < YEnd(r) /\ obj.y + MaxOf(obj.h, 0) <= YEnd(r)

\* sfMergeCellIdxRect: the bounding rectangle; an empty one adds nothing.
Merge(a, b) ==
    IF IsEmpty(b) THEN a
    ELSE IF IsEmpty(a) THEN b
    ELSE LET xMin == MinOf(a.x, b.x)
             yMin == MinOf(a.y, b.y)
         IN  [x |-> xMin, y |-> yMin,
              w |-> MaxOf(XEnd(a), XEnd(b)) - xMin,
              h |-> MaxOf(YEnd(a), YEnd(b)) - yMin]

\* sfIntersectionOfCellIdxRect
Intersection(a, b) ==
    IF IsEmpty(a) \/ IsEmpty(b) THEN NoRect
    ELSE LET xMin == MaxOf(a.x, b.x)
             yMin == MaxOf(a.y, b.y)
         IN  [x |-> xMin, y |-> yMin,
              w |-> MaxOf(MinOf(XEnd(a), XEnd(b)) - xMin, 0),
              h |-> MaxOf(MinOf(YEnd(a), YEnd(b)) - yMin, 0)]

\* Seeded fault: C++'s division, which rounds a negative index up.
TruncatedFloor(i) ==
    IF i < 0 THEN -(((-i) \div Align) * Align) ELSE (i \div Align) * Align

\* sfGetAlignedFloorCellIdx_: division truncates, so negatives go by magnitude.
AlignedFloor(i) ==
    IF i < 0 THEN -((((-i) - 1) \div Align + 1) * Align)
             ELSE (i \div Align) * Align

\* sfGetAlignedCeilSize_, for the sizes (>= 0) that do not make it throw.
AlignedCeil(n) == ((n + (Align - 1)) \div Align) * Align

\* sfCalcAdjustedCellIdxRect_: position floored, size rounded up.
Adjusted(r) ==
    IF IsEmpty(r) THEN NoRect
    ELSE LET xMin == AlignedFloor(r.x)
             yMin == AlignedFloor(r.y)
         IN  [x |-> xMin, y |-> yMin,
              w |-> AlignedCeil(XEnd(r) - xMin),
              h |-> AlignedCeil(YEnd(r) - yMin)]
=============================================================================
