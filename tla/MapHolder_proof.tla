-------------------------- MODULE MapHolder_proof ---------------------------
(***************************************************************************)
(* ServerMapHolder keeps its data where its rectangles say it is, and its  *)
(* array implements the abstract grid, for every alignment, every set of   *)
(* tiles and every sequence of calls.                                      *)
(***************************************************************************)
EXTENDS MapScan, TLAPS

-----------------------------------------------------------------------------
(* Facts about the rectangle functions, for every rectangle of integers.   *)

\* Multiplication by a natural number is monotonic.
LEMMA ScaleMonotone ==
    ASSUME NEW a \in Int, NEW b \in Int, NEW n \in Nat, a <= b
    PROVE  a * n <= b * n
OBVIOUS

\* Division of an integer by a positive one.
LEMMA DivisionFacts ==
    ASSUME NEW k \in Int, NEW n \in Nat \ {0}
    PROVE  /\ k \div n \in Int
           /\ k % n \in 0 .. (n - 1)
           /\ k = (k \div n) * n + (k % n)
OBVIOUS

\* Quotient and remainder are determined by the number they add up to.
LEMMA DivisionUnique ==
    ASSUME NEW j \in Int, NEW n \in Nat \ {0}, NEW i \in 0 .. (n - 1)
    PROVE  (j * n + i) \div n = j /\ (j * n + i) % n = i
<1> DEFINE k == j * n + i
<1>1. /\ k \div n \in Int
      /\ k % n \in 0 .. (n - 1)
      /\ k = (k \div n) * n + (k % n)
  BY DivisionFacts
<1>2. ASSUME NEW a \in Int, NEW b \in 0 .. (n - 1), k = a * n + b
      PROVE  a = j /\ b = i
  <2>1. CASE a < j
    <3>1. (a + 1) * n <= j * n
      BY <2>1, ScaleMonotone
    <3>2. a * n + n <= j * n
      BY <3>1
    <3>3. QED BY <3>2, <1>2
  <2>2. CASE j < a
    <3>1. (j + 1) * n <= a * n
      BY <2>2, ScaleMonotone
    <3>2. j * n + n <= a * n
      BY <3>1
    <3>3. QED BY <3>2, <1>2
  <2>3. CASE a = j
    BY <2>3, <1>2
  <2>4. QED BY <2>1, <2>2, <2>3
<1>3. QED BY <1>1, <1>2

(***************************************************************************)
(* sfGetAlignedFloorCellIdx_ goes down by less than one alignment step,    *)
(* for negative indices too: the assertions at server_map_holder.cpp:466   *)
(* and 468.                                                                *)
(***************************************************************************)
LEMMA AlignedFloorBounds ==
    ASSUME NEW i \in Int
    PROVE  /\ AlignedFloor(i) \in Int
           /\ AlignedFloor(i) <= i
           /\ i < AlignedFloor(i) + Align
<1>1. Align \in Nat \ {0}
  BY AlignAssumption
<1>2. CASE i < 0
  <2> DEFINE k == (-i) - 1
             q == k \div Align
  <2>1. k \in Int
    BY <1>2
  <2>2. q \in Int /\ k % Align \in 0 .. (Align - 1) /\ k = q * Align + (k % Align)
    BY <1>1, <2>1, DivisionFacts
  <2>3. AlignedFloor(i) = -((q + 1) * Align)
    BY <1>2 DEF AlignedFloor
  <2>4. (q + 1) * Align = q * Align + Align
    BY <1>1, <2>2
  <2>5. q * Align \in Int
    BY <1>1, <2>2
  <2>6. QED BY <1>1, <2>2, <2>3, <2>4, <2>5
<1>3. CASE ~(i < 0)
  <2> DEFINE q == i \div Align
  <2>1. q \in Int /\ i % Align \in 0 .. (Align - 1) /\ i = q * Align + (i % Align)
    BY <1>1, DivisionFacts
  <2>2. AlignedFloor(i) = q * Align
    BY <1>3 DEF AlignedFloor
  <2>3. q * Align \in Int
    BY <1>1, <2>1
  <2>4. QED BY <1>1, <2>1, <2>2, <2>3
<1>4. QED BY <1>2, <1>3

\* sfGetAlignedCeilSize_ never makes a size smaller.
LEMMA AlignedCeilBounds ==
    ASSUME NEW s \in Nat
    PROVE  AlignedCeil(s) \in Nat /\ s <= AlignedCeil(s)
<1> DEFINE k == s + (Align - 1)
           q == k \div Align
<1>1. Align \in Nat \ {0} /\ k \in Int
  BY AlignAssumption
<1>2. q \in Int /\ k % Align \in 0 .. (Align - 1) /\ k = q * Align + (k % Align)
  BY <1>1, DivisionFacts
<1>3. AlignedCeil(s) = q * Align /\ q * Align \in Int
  BY <1>1, <1>2 DEF AlignedCeil
<1>4. QED BY <1>1, <1>2, <1>3

(***************************************************************************)
(* sfMergeCellIdxRect bounds both of its arguments (assertions at          *)
(* server_map_holder.cpp:272-273).                                         *)
(***************************************************************************)
LEMMA MergeBounds ==
    ASSUME NEW a \in CellIdxRect, NEW b \in CellIdxRect
    PROVE  /\ Merge(a, b) \in CellIdxRect
           /\ ~IsEmpty(a) => Contains(Merge(a, b), a)
           /\ ~IsEmpty(b) => Contains(Merge(a, b), b)
BY DEF Merge, Contains, IsEmpty, XEnd, YEnd, MinOf, MaxOf, CellIdxRect

\* What contains both arguments of a merge contains the merge.
LEMMA MergeLeast ==
    ASSUME NEW a \in CellIdxRect, NEW b \in CellIdxRect, NEW r \in CellIdxRect,
           IsEmpty(a) \/ Contains(r, a), ~IsEmpty(b), Contains(r, b)
    PROVE  Contains(r, Merge(a, b))
BY DEF Merge, Contains, IsEmpty, XEnd, YEnd, MinOf, MaxOf, CellIdxRect

(***************************************************************************)
(* sfCalcAdjustedCellIdxRect_ only makes a rectangle larger (assertions at *)
(* server_map_holder.cpp:466, 468, 473, 475).                              *)
(***************************************************************************)
LEMMA AdjustedBounds ==
    ASSUME NEW r \in CellIdxRect, ~IsEmpty(r)
    PROVE  Adjusted(r) \in CellIdxRect /\ Contains(Adjusted(r), r)
<1> DEFINE fx == AlignedFloor(r.x)
           fy == AlignedFloor(r.y)
<1>1. r.x \in Int /\ r.y \in Int /\ r.w \in Int /\ r.h \in Int /\ 0 < r.w /\ 0 < r.h
  BY DEF CellIdxRect, IsEmpty
<1>2. fx \in Int /\ fx <= r.x /\ fy \in Int /\ fy <= r.y
  BY <1>1, AlignedFloorBounds
<1> DEFINE cw == AlignedCeil(XEnd(r) - fx)
           ch == AlignedCeil(YEnd(r) - fy)
<1> HIDE DEF fx, fy
<1>3. XEnd(r) - fx \in Nat /\ YEnd(r) - fy \in Nat
  BY <1>1, <1>2 DEF XEnd, YEnd
<1>4. cw \in Nat /\ XEnd(r) - fx <= cw /\ ch \in Nat /\ YEnd(r) - fy <= ch
  BY <1>3, AlignedCeilBounds
<1>5. Adjusted(r) = [x |-> fx, y |-> fy, w |-> cw, h |-> ch]
  BY DEF Adjusted, fx, fy
<1> HIDE DEF cw, ch
<1>6. QED
  BY <1>1, <1>2, <1>4, <1>5 DEF CellIdxRect, Contains, IsEmpty, XEnd, YEnd, MaxOf

\* Containment is transitive between rectangles that have cells.
LEMMA ContainsTransitive ==
    ASSUME NEW a \in CellIdxRect, NEW b \in CellIdxRect, NEW c \in CellIdxRect,
           Contains(a, b), Contains(b, c), ~IsEmpty(c)
    PROVE  Contains(a, c)
BY DEF Contains, IsEmpty, XEnd, YEnd, MaxOf, CellIdxRect

\* A rectangle contains another exactly when it has all of its cells.
LEMMA ContainsCells ==
    ASSUME NEW a \in CellIdxRect, NEW b \in CellIdxRect, Contains(a, b)
    PROVE  Cells(b) \subseteq Cells(a)
BY DEF Contains, IsEmpty, XEnd, YEnd, MaxOf, CellIdxRect, Cells

(***************************************************************************)
(* sfIntersectionOfCellIdxRect returns the common cells, and a non-empty   *)
(* intersection lies in both arguments: why fillRosMapMsg's two offsets    *)
(* are inside their arrays.                                                *)
(***************************************************************************)
LEMMA IntersectionBounds ==
    ASSUME NEW a \in CellIdxRect, NEW b \in CellIdxRect
    PROVE  /\ Intersection(a, b) \in CellIdxRect
           /\ Cells(Intersection(a, b)) = Cells(a) \cap Cells(b)
           /\ ~IsEmpty(Intersection(a, b)) =>
                 /\ Contains(a, Intersection(a, b))
                 /\ Contains(b, Intersection(a, b))
<1> DEFINE s == Intersection(a, b)
<1>1. s \in CellIdxRect
  BY DEF Intersection, NoRect, IsEmpty, XEnd, YEnd, MinOf, MaxOf, CellIdxRect
<1>2. ~IsEmpty(s) => Contains(a, s) /\ Contains(b, s)
  BY DEF Intersection, NoRect, Contains, IsEmpty, XEnd, YEnd, MinOf, MaxOf, CellIdxRect
<1>3. ASSUME NEW p \in Int, NEW q \in Int
      PROVE  /\ (p \in s.x .. (XEnd(s) - 1) /\ q \in s.y .. (YEnd(s) - 1))
                <=> /\ p \in a.x .. (XEnd(a) - 1) /\ q \in a.y .. (YEnd(a) - 1)
                    /\ p \in b.x .. (XEnd(b) - 1) /\ q \in b.y .. (YEnd(b) - 1)
  BY DEF Intersection, NoRect, IsEmpty, XEnd, YEnd, MinOf, MaxOf, CellIdxRect
<1>4. Cells(s) = Cells(a) \cap Cells(b)
  <2> HIDE DEF s
  <2>1. a.x .. (XEnd(a) - 1) \subseteq Int /\ a.y .. (YEnd(a) - 1) \subseteq Int
    BY DEF CellIdxRect, XEnd, YEnd
  <2>2. s.x .. (XEnd(s) - 1) \subseteq Int /\ s.y .. (YEnd(s) - 1) \subseteq Int
    BY <1>1 DEF CellIdxRect, XEnd, YEnd
  <2>3. QED BY <1>3, <2>1, <2>2 DEF Cells
<1>5. QED BY <1>1, <1>2, <1>4

-----------------------------------------------------------------------------

HolderOK(m) == HolderType(m) /\ InsideAvail(m) /\ GapsUnknown(m)

-----------------------------------------------------------------------------
\* A cell of a rectangle has its place inside the rectangle's array.
LEMMA OffsetInRange ==
    ASSUME NEW r \in CellIdxRect, NEW c \in Cells(r)
    PROVE  Offset(r, c[1], c[2]) \in 0 .. (r.w * r.h - 1)
<1> DEFINE dx == c[1] - r.x
           dy == c[2] - r.y
<1>1. /\ dx \in 0 .. (r.w - 1) /\ dy \in 0 .. (r.h - 1)
      /\ r.w \in Nat /\ r.h \in Nat
  BY DEF Cells, XEnd, YEnd, CellIdxRect
<1>2. Offset(r, c[1], c[2]) = dy * r.w + dx
  BY DEF Offset
<1> HIDE DEF dx, dy
<1>3. dy * r.w <= (r.h - 1) * r.w /\ 0 * r.w <= dy * r.w
  BY <1>1, ScaleMonotone
<1>4. (r.h - 1) * r.w = r.w * r.h - r.w /\ 0 * r.w = 0 /\ dy * r.w \in Int /\ r.w * r.h \in Int
  BY <1>1
<1>5. QED BY <1>1, <1>2, <1>3, <1>4

\* Where place dy * n + dx of the destination falls in the copied rows.
LEMMA RowAndColumn ==
    ASSUME NEW z \in Int, NEW n \in Nat \ {0}, NEW w \in Nat \ {0}, NEW rows \in Nat \ {0},
           NEW dx \in Int, NEW dy \in Int, -n < dx, dx < n, dx < 0 => w <= dx + n,
           z = dy * n + dx
    PROVE  IF dx \in 0 .. (w - 1) /\ dy \in 0 .. (rows - 1)
           THEN z \div n = dy /\ z % n = dx
           ELSE ~(z \div n \in 0 .. (rows - 1) /\ z % n < w)
<1>1. CASE 0 <= dx
  <2>1. dx \in 0 .. (n - 1)
    BY <1>1
  <2>2. z \div n = dy /\ z % n = dx
    BY <2>1, DivisionUnique
  <2>3. dx \in 0 .. (w - 1) <=> dx < w
    BY <1>1
  <2>4. QED BY <2>2, <2>3
<1>2. CASE dx < 0
  <2>1. (dy - 1) * n = dy * n - n /\ dy * n \in Int
    OBVIOUS
  <2>2. z = (dy - 1) * n + (dx + n)
    BY <2>1
  <2>3. dx + n \in 0 .. (n - 1) /\ dy - 1 \in Int
    BY <1>2
  <2>4. z % n = dx + n
    BY <2>2, <2>3, DivisionUnique
  <2>5. QED BY <1>2, <2>4
<1>3. QED BY <1>1, <1>2

(***************************************************************************)
(* The arithmetic on offsets and strides of server_map_holder.cpp:74-83    *)
(* and 130-139, for rows of a rectangle p that both the destination's      *)
(* rectangle d and the source's s contain: a place of the destination is   *)
(* in the copied rows exactly when its cell is in p, its source place is   *)
(* then the one of the same cell, and no read leaves the source array.     *)
(***************************************************************************)
InRows(d, p, k) ==
    LET z == k - Offset(d, p.x, p.y)
    IN  z \div d.w \in 0 .. (p.h - 1) /\ z % d.w < p.w

SourcePlace(d, s, p, k) ==
    LET z == k - Offset(d, p.x, p.y)
    IN  Offset(s, p.x, p.y) + (z \div d.w) * s.w + (z % d.w)

LEMMA RowsOfRect ==
    ASSUME NEW d \in CellIdxRect, NEW s \in CellIdxRect, NEW p \in CellIdxRect,
           ~IsEmpty(p), Contains(d, p), Contains(s, p)
    PROVE  /\ \A k \in 0 .. (d.w * d.h - 1) :
                 InRows(d, p, k) => SourcePlace(d, s, p, k) \in 0 .. (s.w * s.h - 1)
           /\ \A c \in Cells(d) :
                 LET k == Offset(d, c[1], c[2])
                 IN  /\ InRows(d, p, k) <=> c \in Cells(p)
                     /\ c \in Cells(p) => SourcePlace(d, s, p, k) = Offset(s, c[1], c[2])
<1> DEFINE off == Offset(d, p.x, p.y)
           soff == Offset(s, p.x, p.y)
<1>1. /\ d.x \in Int /\ d.y \in Int /\ d.w \in Nat \ {0} /\ d.h \in Nat \ {0}
      /\ s.x \in Int /\ s.y \in Int /\ s.w \in Nat \ {0} /\ s.h \in Nat \ {0}
      /\ p.x \in Int /\ p.y \in Int /\ p.w \in Nat \ {0} /\ p.h \in Nat \ {0}
  BY DEF CellIdxRect, IsEmpty, Contains
<1>2. /\ d.x <= p.x /\ p.x + p.w <= d.x + d.w
      /\ d.y <= p.y /\ p.y + p.h <= d.y + d.h
  BY <1>1 DEF Contains, XEnd, YEnd, MaxOf
<1>3. off \in Int /\ soff \in Int
  BY <1>1 DEF Offset
<1>4. ASSUME NEW i \in 0 .. (p.w - 1), NEW j \in 0 .. (p.h - 1)
      PROVE  /\ soff + j * s.w + i = Offset(s, p.x + i, p.y + j)
             /\ Offset(s, p.x + i, p.y + j) \in 0 .. (s.w * s.h - 1)
  <2>1. (p.y + j - s.y) * s.w = (p.y - s.y) * s.w + j * s.w
    BY <1>1
  <2>2. soff + j * s.w + i = Offset(s, p.x + i, p.y + j)
    BY <1>1, <2>1 DEF Offset
  <2>3. <<p.x + i, p.y + j>> \in Cells(p)
    BY <1>1 DEF Cells, XEnd, YEnd
  <2>4. <<p.x + i, p.y + j>> \in Cells(s)
    BY <2>3, ContainsCells
  <2>5. QED BY <2>2, <2>4, OffsetInRange
<1>5. ASSUME NEW k \in 0 .. (d.w * d.h - 1), InRows(d, p, k)
      PROVE  SourcePlace(d, s, p, k) \in 0 .. (s.w * s.h - 1)
  <2> DEFINE j == (k - off) \div d.w
             i == (k - off) % d.w
  <2>1. k - off \in Int
    BY <1>1, <1>3
  <2>2. i \in 0 .. (d.w - 1) /\ j \in 0 .. (p.h - 1) /\ i < p.w
    BY <1>1, <1>5, <2>1, DivisionFacts DEF InRows
  <2> HIDE DEF off, soff, i, j
  <2>3. i \in 0 .. (p.w - 1)
    BY <1>1, <2>2
  <2>4. soff + j * s.w + i \in 0 .. (s.w * s.h - 1)
    BY <1>4, <2>2, <2>3
  <2>5. QED BY <2>4 DEF SourcePlace, off, soff, i, j
<1>6. ASSUME NEW c \in Cells(d)
      PROVE  LET k == Offset(d, c[1], c[2])
             IN  /\ InRows(d, p, k) <=> c \in Cells(p)
                 /\ c \in Cells(p) => SourcePlace(d, s, p, k) = Offset(s, c[1], c[2])
  <2>1. PICK x \in Int, y \in Int :
           /\ c = <<x, y>>
           /\ d.x <= x /\ x < d.x + d.w /\ d.y <= y /\ y < d.y + d.h
    BY <1>1 DEF Cells, XEnd, YEnd
  <2> DEFINE dx == x - p.x
             dy == y - p.y
             z == Offset(d, x, y) - off
  <2>2. /\ dx \in Int /\ dy \in Int /\ -d.w < dx /\ dx < d.w
        /\ dx < 0 => p.w <= dx + d.w
        /\ x = p.x + dx /\ y = p.y + dy
    BY <1>1, <1>2, <2>1
  <2>3. z \in Int /\ z = dy * d.w + dx
    <3>1. (y - d.y) * d.w = (p.y - d.y) * d.w + (y - p.y) * d.w
      BY <1>1
    <3>2. /\ (p.y - d.y) * d.w \in Int /\ (y - p.y) * d.w \in Int
          /\ (y - d.y) * d.w \in Int
      BY <1>1
    <3>3. QED BY <1>1, <3>1, <3>2 DEF Offset
  <2>4. c \in Cells(p) <=> dx \in 0 .. (p.w - 1) /\ dy \in 0 .. (p.h - 1)
    BY <1>1, <2>1 DEF Cells, XEnd, YEnd
  <2> HIDE DEF dx, dy, z, soff
  <2>5. IF dx \in 0 .. (p.w - 1) /\ dy \in 0 .. (p.h - 1)
        THEN z \div d.w = dy /\ z % d.w = dx
        ELSE ~(z \div d.w \in 0 .. (p.h - 1) /\ z % d.w < p.w)
    BY <1>1, <2>2, <2>3, RowAndColumn
  <2>6. CASE c \in Cells(p)
    <3>1. dx \in 0 .. (p.w - 1) /\ dy \in 0 .. (p.h - 1) /\ dx < p.w
      BY <2>4, <2>6, <1>1
    <3>2. z \div d.w = dy /\ z % d.w = dx
      BY <2>5, <3>1
    <3>3. soff + dy * s.w + dx = Offset(s, x, y)
      BY <1>4, <2>2, <3>1
    <3>4. QED BY <2>1, <2>6, <3>1, <3>2, <3>3 DEF InRows, SourcePlace, z, soff
  <2>7. CASE c \notin Cells(p)
    BY <2>1, <2>4, <2>5, <2>7 DEF InRows, z
  <2>8. QED BY <2>6, <2>7
<1>7. QED BY <1>5, <1>6

(***************************************************************************)
(* The copy loops move a rectangle: after copying the rows of p from an    *)
(* array laid out over s to one laid out over d, each cell of p holds its  *)
(* source value and every other cell of d is as it was.                    *)
(***************************************************************************)
CopyOfRect(d, s, p, dest, src) ==
    CopyRows(dest, Offset(d, p.x, p.y), d.w,
             src, Offset(s, p.x, p.y), s.w, p.w, p.h)

\* Array res over d holds src's cells (laid out over s) in p, dest's elsewhere.
Overlaid(d, s, p, dest, src, res) ==
    \A c \in Cells(d) :
        res[Offset(d, c[1], c[2])] =
            IF c \in Cells(p) THEN src[Offset(s, c[1], c[2])]
            ELSE dest[Offset(d, c[1], c[2])]

LEMMA CopyRowsMovesRect ==
    ASSUME NEW d \in CellIdxRect, NEW s \in CellIdxRect, NEW p \in CellIdxRect,
           ~IsEmpty(p), Contains(d, p), Contains(s, p), NEW V,
           NEW dest \in [0 .. (d.w * d.h - 1) -> V],
           NEW src \in [0 .. (s.w * s.h - 1) -> V]
    PROVE  /\ CopyOfRect(d, s, p, dest, src) \in [0 .. (d.w * d.h - 1) -> V]
           /\ Overlaid(d, s, p, dest, src, CopyOfRect(d, s, p, dest, src))
<1> DEFINE res == CopyOfRect(d, s, p, dest, src)
<1>1. res = [k \in 0 .. (d.w * d.h - 1) |->
               IF InRows(d, p, k) THEN src[SourcePlace(d, s, p, k)] ELSE dest[k]]
  BY DEF CopyOfRect, CopyRows, InRows, SourcePlace
<1> HIDE DEF res
<1>2. \A k \in 0 .. (d.w * d.h - 1) :
        InRows(d, p, k) => SourcePlace(d, s, p, k) \in 0 .. (s.w * s.h - 1)
  BY RowsOfRect
<1>3. res \in [0 .. (d.w * d.h - 1) -> V]
  BY <1>1, <1>2
<1>4. ASSUME NEW c \in Cells(d)
      PROVE  res[Offset(d, c[1], c[2])] =
                IF c \in Cells(p) THEN src[Offset(s, c[1], c[2])]
                ELSE dest[Offset(d, c[1], c[2])]
  <2>1. Offset(d, c[1], c[2]) \in 0 .. (d.w * d.h - 1)
    BY OffsetInRange
  <2>2. /\ InRows(d, p, Offset(d, c[1], c[2])) <=> c \in Cells(p)
        /\ c \in Cells(p) =>
             SourcePlace(d, s, p, Offset(d, c[1], c[2])) = Offset(s, c[1], c[2])
    BY RowsOfRect
  <2>3. QED BY <1>1, <2>1, <2>2
<1>5. QED BY <1>3, <1>4 DEF res, Overlaid

-----------------------------------------------------------------------------
\* A fresh array is unknown everywhere.
LEMMA BufferUnknown ==
    ASSUME NEW r \in CellIdxRect
    PROVE  /\ Buffer(r) \in [0 .. (r.w * r.h - 1) -> CellValue]
           /\ \A c \in Cells(r) : Buffer(r)[Offset(r, c[1], c[2])] = Unknown
<1>1. ASSUME NEW c \in Cells(r)
      PROVE  Offset(r, c[1], c[2]) \in 0 .. (r.w * r.h - 1)
  BY OffsetInRange
<1>2. QED BY <1>1, ValueAssumption DEF Buffer

\* A rectangle of no width or no height has no cells.
LEMMA EmptyHasNoCells ==
    ASSUME NEW r \in CellIdxRect, IsEmpty(r)
    PROVE  Cells(r) = {}
BY DEF IsEmpty, Cells, XEnd, YEnd, CellIdxRect

(***************************************************************************)
(* The reallocation of reserveByCellIdxRect, from an array old over        *)
(* rectangle a with data in v to one over any rectangle new with room for  *)
(* v, keeps every cell of the data and leaves the rest unknown.            *)
(***************************************************************************)
Moved(a, v, old, new) ==
    IF IsEmpty(v) THEN Buffer(new)
    ELSE CopyRows(Buffer(new), Offset(new, v.x, v.y), new.w,
                  old, Offset(a, v.x, v.y), a.w, v.w, v.h)

LEMMA MovedArray ==
    ASSUME NEW a \in CellIdxRect, NEW v \in CellIdxRect, NEW new \in CellIdxRect,
           NEW old \in [0 .. (a.w * a.h - 1) -> CellValue],
           IsEmpty(v) \/ (Contains(a, v) /\ Contains(new, v))
    PROVE  /\ Moved(a, v, old, new) \in [0 .. (new.w * new.h - 1) -> CellValue]
           /\ \A c \in Cells(new) :
                 Moved(a, v, old, new)[Offset(new, c[1], c[2])] =
                    IF c \in Cells(v) THEN old[Offset(a, c[1], c[2])] ELSE Unknown
<1>1. /\ Buffer(new) \in [0 .. (new.w * new.h - 1) -> CellValue]
      /\ \A c \in Cells(new) : Buffer(new)[Offset(new, c[1], c[2])] = Unknown
  BY BufferUnknown
<1>2. CASE IsEmpty(v)
  BY <1>1, <1>2, EmptyHasNoCells DEF Moved
<1>3. CASE ~IsEmpty(v)
  <2> DEFINE dest == Buffer(new)
             res == CopyOfRect(new, a, v, dest, old)
  <2>1. Moved(a, v, old, new) = res
    BY <1>3 DEF Moved, CopyOfRect
  <2>2. dest \in [0 .. (new.w * new.h - 1) -> CellValue]
    BY <1>1
  <2> HIDE DEF dest
  <2>3. /\ res \in [0 .. (new.w * new.h - 1) -> CellValue]
        /\ Overlaid(new, a, v, dest, old, res)
    BY <1>3, <2>2, CopyRowsMovesRect
  <2> HIDE DEF res
  <2>4. QED BY <1>1, <2>1, <2>3 DEF dest, Overlaid
<1>4. QED BY <1>2, <1>3

(***************************************************************************)
(* What a holder n reached from m by reallocation has to keep: everything  *)
(* a user can see.                                                         *)
(***************************************************************************)
SameMap(m, n) ==
    /\ n.valid = m.valid /\ n.res = m.res /\ n.more = m.more
    /\ GridOf(n) = GridOf(m)

\* The rectangle reserveByCellIdxRect allocates has all it must cover.
LEMMA AllocationCovers ==
    ASSUME NEW m, HolderOK(m), NEW r \in CellIdxRect, ~IsEmpty(r)
    PROVE  LET new == Adjusted(Merge(m.avail, r))
           IN  /\ new \in CellIdxRect
               /\ Contains(new, r)
               /\ IsEmpty(m.valid) \/ Contains(new, m.valid)
<1> DEFINE mrg == Merge(m.avail, r)
           new == Adjusted(mrg)
<1>1. /\ m.avail \in CellIdxRect /\ m.valid \in CellIdxRect
      /\ IsEmpty(m.valid) \/ Contains(m.avail, m.valid)
  BY DEF HolderOK, HolderType, InsideAvail
<1>2. /\ mrg \in CellIdxRect /\ Contains(mrg, r)
      /\ ~IsEmpty(m.avail) => Contains(mrg, m.avail)
  BY <1>1, MergeBounds
<1>3. ~IsEmpty(mrg)
  BY <1>2 DEF Contains
<1> HIDE DEF mrg
<1>4. new \in CellIdxRect /\ Contains(new, mrg)
  BY <1>2, <1>3, AdjustedBounds
<1> HIDE DEF new
<1>5. Contains(new, r)
  BY <1>2, <1>4, ContainsTransitive
<1>6. CASE ~IsEmpty(m.valid)
  <2>1. ~IsEmpty(m.avail)
    BY <1>1, <1>6 DEF Contains
  <2>2. Contains(mrg, m.valid)
    BY <1>1, <1>2, <1>6, <2>1, ContainsTransitive
  <2>3. QED BY <1>1, <1>2, <1>4, <1>5, <1>6, <2>2, ContainsTransitive DEF new, mrg
<1>7. CASE IsEmpty(m.valid)
  BY <1>4, <1>5, <1>7 DEF new, mrg
<1>8. QED BY <1>6, <1>7

\* reserveByCellIdxRect: no map content changes, and r fits afterwards.
LEMMA ReservedKeepsMap ==
    ASSUME NEW m, HolderOK(m), NEW r \in CellIdxRect
    PROVE  /\ HolderOK(Reserved(m, r))
           /\ SameMap(m, Reserved(m, r))
           /\ ~IsEmpty(r) => Contains(Reserved(m, r).avail, r)
<1>1. CASE IsEmpty(r) \/ Contains(m.avail, r)
  BY <1>1 DEF Reserved, SameMap
<1>2. CASE ~(IsEmpty(r) \/ Contains(m.avail, r))
  <2> DEFINE new == Adjusted(Merge(m.avail, r))
             dat == Moved(m.avail, m.valid, m.dat, new)
             n == Reserved(m, r)
  <2>1. n = [m EXCEPT !.avail = new, !.dat = dat]
    BY <1>2 DEF Reserved, Moved
  <2>2. /\ new \in CellIdxRect /\ Contains(new, r)
        /\ IsEmpty(m.valid) \/ Contains(new, m.valid)
    BY <1>2, AllocationCovers
  <2> HIDE DEF new
  <2>3. /\ dat \in [0 .. (new.w * new.h - 1) -> CellValue]
        /\ \A c \in Cells(new) :
              dat[Offset(new, c[1], c[2])] =
                 IF c \in Cells(m.valid) THEN m.dat[Offset(m.avail, c[1], c[2])]
                 ELSE Unknown
    BY <2>2, MovedArray DEF HolderOK, HolderType, InsideAvail
  <2> HIDE DEF dat, n
  <2>4. HolderType(m)
    BY DEF HolderOK
  <2>5. /\ n.avail = new /\ n.dat = dat /\ n.valid = m.valid
        /\ n.res = m.res /\ n.more = m.more /\ DOMAIN n = DOMAIN m
    BY <2>1, <2>4 DEF HolderType
  <2>6. new.w >= 0 /\ new.h >= 0
    BY <2>2 DEF Contains, IsEmpty, CellIdxRect
  <2>7. HolderType(n)
    BY <2>2, <2>3, <2>4, <2>5, <2>6 DEF HolderType
  <2>8. InsideAvail(n) /\ GapsUnknown(n)
    BY <2>2, <2>3, <2>5 DEF InsideAvail, GapsUnknown
  <2>9. Cells(m.valid) \subseteq Cells(new)
    BY <2>2, <2>4, ContainsCells, EmptyHasNoCells DEF HolderType
  <2>10. GridOf(n) = GridOf(m)
    BY <2>3, <2>5, <2>9 DEF GridOf
  <2>11. QED BY <2>2, <2>5, <2>7, <2>8, <2>10 DEF HolderOK, SameMap, n
<1>3. QED BY <1>1, <1>2

(***************************************************************************)
(* checkToExtendMap_: the same, and the rectangle it asks for is never     *)
(* empty (assertions at server_map_holder.cpp:401-402).                    *)
(***************************************************************************)
LEMMA ExtendedKeepsMap ==
    ASSUME NEW m, HolderOK(m), NEW r \in CellIdxRect, ~IsEmpty(r)
    PROVE  /\ HolderOK(Extended(m, r))
           /\ SameMap(m, Extended(m, r))
           /\ Contains(Extended(m, r).avail, r)
<1>1. CASE Contains(m.avail, r)
  BY <1>1 DEF Extended, SameMap
<1>2. CASE ~Contains(m.avail, r)
  <2> DEFINE a == m.avail
             xMin == IF r.x < a.x THEN r.x - m.more ELSE a.x
             yMin == IF r.y < a.y THEN r.y - m.more ELSE a.y
             xEnd == IF XEnd(a) < XEnd(r) THEN XEnd(r) + m.more ELSE XEnd(a)
             yEnd == IF YEnd(a) < YEnd(r) THEN YEnd(r) + m.more ELSE YEnd(a)
             big == [x |-> xMin, y |-> yMin, w |-> xEnd - xMin, h |-> yEnd - yMin]
  <2>1. Extended(m, r) = Reserved(m, big)
    BY <1>2 DEF Extended
  <2>2. a \in CellIdxRect /\ m.more \in Nat
    BY DEF HolderOK, HolderType
  <2> HIDE DEF a
  <2>3. big \in CellIdxRect /\ Contains(big, r)
    BY <2>2 DEF CellIdxRect, Contains, IsEmpty, XEnd, YEnd, MaxOf
  <2> HIDE DEF big
  <2>4. ~IsEmpty(big)
    BY <2>3 DEF Contains
  <2>5. /\ HolderOK(Reserved(m, big)) /\ SameMap(m, Reserved(m, big))
        /\ Contains(Reserved(m, big).avail, big)
    BY <2>3, <2>4, ReservedKeepsMap
  <2>6. Reserved(m, big).avail \in CellIdxRect
    BY <2>5 DEF HolderOK, HolderType
  <2>7. QED BY <2>1, <2>3, <2>5, <2>6, ContainsTransitive
<1>3. QED BY <1>1, <1>2

(***************************************************************************)
(* setMapData: an acceptable tile ends up in the grid and nowhere else.    *)
(***************************************************************************)
LEMMA UpdatedWritesTile ==
    ASSUME NEW m, HolderOK(m), NEW t \in Tile, Acceptable(m, t)
    PROVE  /\ HolderOK(Updated(m, t))
           /\ Updated(m, t).res = m.res
           /\ Updated(m, t).valid = Merge(m.valid, t.rect)
           /\ GridOf(Updated(m, t)) =
                [c \in Cells(Merge(m.valid, t.rect)) |->
                    IF c \in Cells(t.rect) THEN t.dat[Offset(t.rect, c[1], c[2])]
                    ELSE IF c \in Cells(m.valid) THEN GridOf(m)[c]
                    ELSE Unknown]
<1> DEFINE r == t.rect
           e == Extended(m, r)
           a == e.avail
           dest == e.dat
           src == t.dat
           dat == CopyOfRect(a, r, r, dest, src)
           n == Updated(m, t)
           v == Merge(m.valid, r)
<1>1. /\ r \in CellIdxRect /\ ~IsEmpty(r)
      /\ src \in [0 .. (r.w * r.h - 1) -> CellValue]
  BY TileAssumption DEF Acceptable
<1>2. HolderOK(e) /\ SameMap(m, e) /\ Contains(a, r)
  BY <1>1, ExtendedKeepsMap
<1>3. n = [e EXCEPT !.dat = dat, !.valid = v]
  <2>1. Offset(r, r.x, r.y) = 0
    BY <1>1 DEF Offset, CellIdxRect
  <2>2. e.valid = m.valid
    BY <1>2 DEF SameMap
  <2>3. n = [e EXCEPT !.dat = CopyRows(e.dat, Offset(a, r.x, r.y), a.w, t.dat, 0,
                                       r.w, r.w, r.h),
                      !.valid = Merge(e.valid, r)]
    BY DEF Updated
  <2>4. QED BY <2>1, <2>2, <2>3 DEF CopyOfRect
<1> HIDE DEF n, e
<1>4. /\ HolderType(e) /\ InsideAvail(e) /\ GapsUnknown(e)
      /\ e.valid = m.valid /\ e.res = m.res /\ GridOf(e) = GridOf(m)
      /\ a \in CellIdxRect /\ a.w >= 0 /\ a.h >= 0
      /\ dest \in [0 .. (a.w * a.h - 1) -> CellValue]
      /\ m.valid \in CellIdxRect
      /\ IsEmpty(m.valid) \/ Contains(a, m.valid)
  BY <1>2 DEF HolderOK, HolderType, InsideAvail, SameMap
<1>5. Contains(r, r)
  BY <1>1 DEF Contains, IsEmpty, XEnd, YEnd, MaxOf, CellIdxRect
<1> HIDE DEF a, dest, src, r
<1>6. /\ dat \in [0 .. (a.w * a.h - 1) -> CellValue]
      /\ Overlaid(a, r, r, dest, src, dat)
  BY <1>1, <1>2, <1>4, <1>5, CopyRowsMovesRect
<1>7. /\ v \in CellIdxRect /\ Contains(v, r) /\ Contains(a, v)
      /\ ~IsEmpty(m.valid) => Contains(v, m.valid)
  BY <1>1, <1>2, <1>4, MergeBounds, MergeLeast
<1> HIDE DEF dat, v
<1>8. /\ n.avail = a /\ n.dat = dat /\ n.valid = v
      /\ n.res = e.res /\ n.more = e.more /\ DOMAIN n = DOMAIN e
  BY <1>3, <1>4 DEF HolderType, a
<1>9. v.w >= 0 /\ v.h >= 0
  BY <1>7 DEF Contains, IsEmpty, CellIdxRect
<1>10. HolderType(n)
  BY <1>4, <1>6, <1>7, <1>8, <1>9 DEF HolderType
<1>11. Cells(m.valid) \subseteq Cells(v) /\ Cells(r) \subseteq Cells(v) /\ Cells(v) \subseteq Cells(a)
  BY <1>1, <1>4, <1>7, ContainsCells, EmptyHasNoCells
<1>12. \A c \in Cells(a) \ Cells(m.valid) : dest[Offset(a, c[1], c[2])] = Unknown
  BY <1>4 DEF GapsUnknown, a, dest
<1>13. InsideAvail(n) /\ GapsUnknown(n)
  BY <1>6, <1>7, <1>8, <1>11, <1>12 DEF InsideAvail, GapsUnknown, Overlaid
<1>14. GridOf(m) = [c \in Cells(m.valid) |-> dest[Offset(a, c[1], c[2])]]
  BY <1>4 DEF GridOf, a, dest
<1>15. GridOf(n) = [c \in Cells(v) |->
                     IF c \in Cells(r) THEN src[Offset(r, c[1], c[2])]
                     ELSE IF c \in Cells(m.valid) THEN GridOf(m)[c]
                     ELSE Unknown]
  BY <1>6, <1>8, <1>11, <1>12, <1>14 DEF GridOf, Overlaid
<1>16. QED
  BY <1>4, <1>8, <1>10, <1>13, <1>15 DEF HolderOK, n, v, r, src

-----------------------------------------------------------------------------
(***************************************************************************)
(* The invariant.  LayoutSound is not inductive without the type, nor the  *)
(* fact about gaps without the one about containment: a reallocation       *)
(* copies just the valid part.                                             *)
(***************************************************************************)
LEMMA ClearedOK ==
    ASSUME NEW m, HolderOK(m)
    PROVE  /\ HolderOK(Cleared(m))
           /\ Cleared(m).valid = NoRect /\ Cleared(m).res = m.res
<1> DEFINE n == Cleared(m)
<1>1. HolderType(m)
  BY DEF HolderOK
<1>2. /\ n.avail = NoRect /\ n.dat = Buffer(NoRect) /\ n.valid = NoRect
      /\ n.res = m.res /\ n.more = m.more /\ DOMAIN n = DOMAIN m
  BY <1>1 DEF Cleared, HolderType
<1>3. /\ NoRect \in CellIdxRect /\ IsEmpty(NoRect) /\ NoRect.w = 0 /\ NoRect.h = 0
  BY DEF NoRect, CellIdxRect, IsEmpty
<1> HIDE DEF n
<1>4. HolderType(n)
  BY <1>1, <1>2, <1>3, BufferUnknown DEF HolderType
<1>5. InsideAvail(n) /\ GapsUnknown(n)
  BY <1>2, <1>3, EmptyHasNoCells DEF InsideAvail, GapsUnknown
<1>6. QED BY <1>2, <1>4, <1>5 DEF HolderOK, n

LEMMA InitOK == Init => HolderOK(holder)
<1> SUFFICES ASSUME NEW res \in Resolution, holder = NewHolder(res)
             PROVE  HolderOK(holder)
  BY DEF Init
<1>1. /\ holder.avail = NoRect /\ holder.dat = Buffer(NoRect) /\ holder.valid = NoRect
      /\ holder.res = res /\ holder.more = DefaultExtend
      /\ DOMAIN holder = {"avail", "valid", "dat", "res", "more"}
  BY DEF NewHolder
<1>2. /\ NoRect \in CellIdxRect /\ IsEmpty(NoRect) /\ NoRect.w = 0 /\ NoRect.h = 0
  BY DEF NoRect, CellIdxRect, IsEmpty
<1>3. HolderType(holder)
  BY <1>1, <1>2, BufferUnknown, ExtendAssumption DEF HolderType
<1>4. InsideAvail(holder) /\ GapsUnknown(holder)
  BY <1>1, <1>2, EmptyHasNoCells DEF InsideAvail, GapsUnknown
<1>5. QED BY <1>3, <1>4 DEF HolderOK

LEMMA ReinitialisedOK ==
    ASSUME NEW m, HolderOK(m), NEW res \in Resolution
    PROVE  /\ HolderOK(Reinitialised(m, res))
           /\ Reinitialised(m, res).valid = NoRect /\ Reinitialised(m, res).res = res
<1> DEFINE k == Cleared(m)
           n == Reinitialised(m, res)
<1>1. HolderType(k) /\ InsideAvail(k) /\ GapsUnknown(k) /\ k.valid = NoRect
  BY ClearedOK DEF HolderOK
<1>2. n = [k EXCEPT !.res = res]
  BY DEF Reinitialised
<1> HIDE DEF k, n
<1>3. /\ n.avail = k.avail /\ n.dat = k.dat /\ n.valid = k.valid
      /\ n.res = res /\ n.more = k.more /\ DOMAIN n = DOMAIN k
  BY <1>1, <1>2 DEF HolderType
<1>4. HolderType(n) /\ InsideAvail(n) /\ GapsUnknown(n)
  BY <1>1, <1>3 DEF HolderType, InsideAvail, GapsUnknown
<1>5. QED BY <1>1, <1>3, <1>4 DEF HolderOK, n

LEMMA ExtendCountOK ==
    ASSUME NEW m, HolderOK(m), NEW more \in Nat
    PROVE  /\ HolderOK([m EXCEPT !.more = more])
           /\ [m EXCEPT !.more = more].valid = m.valid
           /\ [m EXCEPT !.more = more].res = m.res
           /\ GridOf([m EXCEPT !.more = more]) = GridOf(m)
<1> DEFINE n == [m EXCEPT !.more = more]
<1>1. HolderType(m) /\ InsideAvail(m) /\ GapsUnknown(m)
  BY DEF HolderOK
<1>2. /\ n.avail = m.avail /\ n.dat = m.dat /\ n.valid = m.valid
      /\ n.res = m.res /\ n.more = more /\ DOMAIN n = DOMAIN m
  BY <1>1 DEF HolderType
<1> HIDE DEF n
<1>3. HolderType(n) /\ InsideAvail(n) /\ GapsUnknown(n) /\ GridOf(n) = GridOf(m)
  BY <1>1, <1>2 DEF HolderType, InsideAvail, GapsUnknown, GridOf
<1>4. QED BY <1>2, <1>3 DEF HolderOK, n

\* Every operation of the holder keeps the invariant.
LEMMA StepOK == HolderOK(holder) /\ [Next]_holder => HolderOK(holder')
<1> SUFFICES ASSUME HolderOK(holder), [Next]_holder
             PROVE  HolderOK(holder')
  OBVIOUS
<1>1. CASE Clear
  BY <1>1, ClearedOK DEF Clear
<1>2. ASSUME NEW res \in Resolution, Reinit(res)
      PROVE  HolderOK(holder')
  BY <1>2, ReinitialisedOK DEF Reinit
<1>3. ASSUME NEW n \in ExtendCount, SetMoreCellCountToExtend(n)
      PROVE  HolderOK(holder')
  <2>1. (IF 0 <= n THEN n ELSE DefaultExtend) \in Nat
    BY ExtendAssumption
  <2>2. QED BY <1>3, <2>1, ExtendCountOK DEF SetMoreCellCountToExtend
<1>4. ASSUME NEW r \in ReserveRect, ReserveByCellIdxRect(r)
      PROVE  HolderOK(holder')
  BY <1>4, ReservedKeepsMap, ReserveAssumption DEF ReserveByCellIdxRect
<1>5. ASSUME NEW t \in Tile, SetMapData(t)
      PROVE  HolderOK(holder')
  <2>1. CASE Acceptable(holder, t)
    BY <1>5, <2>1, UpdatedWritesTile DEF SetMapData
  <2>2. CASE ~Acceptable(holder, t)
    BY <1>5, <2>2 DEF SetMapData, Updated
  <2>3. QED BY <2>1, <2>2
<1>6. CASE UNCHANGED holder
  BY <1>6
<1>7. QED BY <1>1, <1>2, <1>3, <1>4, <1>5, <1>6 DEF Next

LEMMA Invariance == Spec => []HolderOK(holder)
<1>1. Init => HolderOK(holder)
  BY InitOK
<1>2. HolderOK(holder) /\ [Next]_holder => HolderOK(holder)'
  BY StepOK
<1>3. QED BY <1>1, <1>2, PTL DEF Spec

(***************************************************************************)
(* The array always has exactly one cell per cell of its rectangle.        *)
(***************************************************************************)
THEOREM TypeCorrect == Spec => []TypeOK
<1>1. HolderOK(holder) => TypeOK
  BY DEF HolderOK, TypeOK
<1>2. QED BY <1>1, Invariance, PTL

(***************************************************************************)
(* Data stays inside the allocation and what was never written reads as    *)
(* unknown, whatever the sequence of reallocations.                        *)
(***************************************************************************)
THEOREM LayoutCorrect == Spec => []LayoutSound
<1>1. HolderOK(holder) => LayoutSound
  BY DEF HolderOK, LayoutSound
<1>2. QED BY <1>1, Invariance, PTL

\* Where the layout is sound, no call that could come next can fail an assertion.
LEMMA LayoutGivesAsserts == HolderOK(holder) => AssertsHold
<1> SUFFICES ASSUME HolderOK(holder) PROVE AssertsHold
  OBVIOUS
<1>1. ASSUME NEW t \in Tile, Acceptable(holder, t)
      PROVE  LET e == Extended(holder, t.rect)
             IN  /\ Contains(e.avail, t.rect)
                 /\ IsEmpty(holder.valid) \/ Contains(e.avail, holder.valid)
  <2>1. t.rect \in CellIdxRect /\ ~IsEmpty(t.rect)
    BY <1>1, TileAssumption DEF Acceptable
  <2>2. QED BY <2>1, ExtendedKeepsMap DEF HolderOK, InsideAvail, SameMap
<1>2. ASSUME NEW r \in ReserveRect, ~IsEmpty(r)
      PROVE  LET new == Adjusted(Merge(holder.avail, r))
             IN  /\ Contains(new, r)
                 /\ IsEmpty(holder.valid) \/ Contains(new, holder.valid)
  BY <1>2, AllocationCovers, ReserveAssumption
<1>3. QED BY <1>1, <1>2 DEF AssertsHold

(***************************************************************************)
(* None of the assertions on copy offsets can fail.                        *)
(***************************************************************************)
THEOREM AssertsNeverFail == Spec => []AssertsHold
BY LayoutGivesAsserts, Invariance, PTL

(***************************************************************************)
(* Every message built from the map shows the grid: the two offsets of     *)
(* fillRosMapMsg pair each cell of the message with its own cell.          *)
(***************************************************************************)
LEMMA MessageOfRect ==
    ASSUME NEW m, HolderOK(m), NEW req \in CellIdxRect, ~IsEmpty(req),
           NEW c \in Cells(req)
    PROVE  RosMapMsg(m, req)[Offset(req, c[1], c[2])] =
              IF c \in Cells(m.valid) THEN RosCell(GridOf(m)[c]) ELSE -1
<1> DEFINE part == Intersection(m.valid, req)
           blank == [k \in 0 .. (req.w * req.h - 1) |-> -1]
           src == [k \in DOMAIN m.dat |-> RosCell(m.dat[k])]
           a == m.avail
           V == {-1, 0, 100}
           pl == Offset(req, c[1], c[2])
<1>1. /\ a \in CellIdxRect /\ m.valid \in CellIdxRect
      /\ DOMAIN m.dat = 0 .. (a.w * a.h - 1)
      /\ IsEmpty(m.valid) \/ Contains(a, m.valid)
  BY DEF HolderOK, HolderType, InsideAvail
<1>2. /\ part \in CellIdxRect
      /\ Cells(part) = Cells(m.valid) \cap Cells(req)
      /\ ~IsEmpty(part) => Contains(m.valid, part) /\ Contains(req, part)
  BY <1>1, IntersectionBounds
<1>3. src \in [0 .. (a.w * a.h - 1) -> V] /\ blank \in [0 .. (req.w * req.h - 1) -> V]
  BY <1>1 DEF RosCell
<1>4. pl \in 0 .. (req.w * req.h - 1) /\ blank[pl] = -1
  BY OffsetInRange
<1>5. CASE IsEmpty(part)
  <2>1. c \notin Cells(m.valid)
    BY <1>2, <1>5, EmptyHasNoCells
  <2>2. RosMapMsg(m, req) = blank
    BY <1>5 DEF RosMapMsg
  <2>3. QED BY <1>4, <2>1, <2>2
<1>6. CASE ~IsEmpty(part)
  <2> DEFINE res == CopyOfRect(req, a, part, blank, src)
  <2>1. RosMapMsg(m, req) = res
    BY <1>6 DEF RosMapMsg, CopyOfRect
  <2>2. Contains(req, part) /\ Contains(a, part)
    <3>1. Contains(m.valid, part) /\ ~IsEmpty(m.valid)
      BY <1>2, <1>6 DEF Contains
    <3>2. QED BY <1>1, <1>2, <1>6, <3>1, ContainsTransitive
  <2> HIDE DEF part, blank, src, a, V
  <2>3. Overlaid(req, a, part, blank, src, res)
    BY <1>1, <1>2, <1>3, <1>6, <2>2, CopyRowsMovesRect
  <2> HIDE DEF res
  <2>4. res[pl] = IF c \in Cells(part) THEN src[Offset(a, c[1], c[2])] ELSE blank[pl]
    BY <2>3 DEF Overlaid
  <2>5. CASE c \in Cells(m.valid)
    <3>1. c \in Cells(part) /\ c \in Cells(a)
      BY <1>1, <1>2, <2>2, <2>5, ContainsCells
    <3>2. Offset(a, c[1], c[2]) \in 0 .. (a.w * a.h - 1)
      BY <1>1, <3>1, OffsetInRange
    <3>3. src[Offset(a, c[1], c[2])] = RosCell(GridOf(m)[c])
      BY <1>1, <2>5, <3>2 DEF src, a, GridOf
    <3>4. QED BY <2>1, <2>4, <2>5, <3>1, <3>3
  <2>6. CASE c \notin Cells(m.valid)
    BY <1>2, <1>4, <2>1, <2>4, <2>6
  <2>7. QED BY <2>5, <2>6
<1>7. QED BY <1>5, <1>6

THEOREM MessageCorrect == Spec => []MessageShowsGrid
<1>1. HolderOK(holder) => MessageShowsGrid
  BY MessageOfRect, ReserveAssumption DEF MessageShowsGrid
<1>2. QED BY <1>1, Invariance, PTL

-----------------------------------------------------------------------------
(***************************************************************************)
(* The holder implements the grid: each call is a write of one tile, a     *)
(* reset, or invisible.                                                    *)
(***************************************************************************)
\* The rectangle functions are the same in the grid's specification.
LEMMA SameRectangles ==
    /\ Grid!NoRect = NoRect
    /\ \A r : Grid!Cells(r) = Cells(r) /\ (Grid!IsEmpty(r) <=> IsEmpty(r))
    /\ \A a, b : Grid!Merge(a, b) = Merge(a, b)
    /\ \A t, c : Grid!TileCell(t, c) = t.dat[Offset(t.rect, c[1], c[2])]
<1>1. Grid!NoRect = NoRect
  BY DEF Grid!NoRect, NoRect
<1>2. ASSUME NEW r
      PROVE  Grid!Cells(r) = Cells(r) /\ (Grid!IsEmpty(r) <=> IsEmpty(r))
  BY DEF Grid!Cells, Cells, Grid!XEnd, XEnd, Grid!YEnd, YEnd, Grid!IsEmpty, IsEmpty
<1>3. ASSUME NEW a, NEW b
      PROVE  Grid!Merge(a, b) = Merge(a, b)
  BY DEF Grid!Merge, Merge, Grid!IsEmpty, IsEmpty, Grid!MinOf, MinOf, Grid!MaxOf, MaxOf,
         Grid!XEnd, XEnd, Grid!YEnd, YEnd
<1>4. ASSUME NEW t, NEW c
      PROVE  Grid!TileCell(t, c) = t.dat[Offset(t.rect, c[1], c[2])]
  BY DEF Grid!TileCell, Grid!Offset, Offset
<1>5. QED BY <1>1, <1>2, <1>3, <1>4

LEMMA InitRefines == Init => Grid!GInit
<1> SUFFICES ASSUME NEW res \in Resolution, holder = NewHolder(res)
             PROVE  Grid!GInit
  BY DEF Init
<1>1. holder.valid = NoRect /\ holder.res = res
  BY DEF NewHolder
<1>2. Cells(NoRect) = {}
  BY EmptyHasNoCells DEF NoRect, CellIdxRect, IsEmpty
<1>3. QED BY <1>1, <1>2, SameRectangles DEF Grid!GInit, GridOf

LEMMA StepRefines == HolderOK(holder) /\ [Next]_holder => [Grid!GNext]_(Grid!gridVars)
<1> SUFFICES ASSUME HolderOK(holder), [Next]_holder
             PROVE  [Grid!GNext]_(Grid!gridVars)
  OBVIOUS
<1>1. Cells(NoRect) = {}
  BY EmptyHasNoCells DEF NoRect, CellIdxRect, IsEmpty
<1>2. CASE Clear
  <2>1. holder'.valid = NoRect /\ holder'.res = holder.res /\ holder.res \in Resolution
    BY <1>2, ClearedOK DEF Clear, HolderOK, HolderType
  <2>2. Grid!GForget
    BY <1>1, <2>1, SameRectangles DEF Grid!GForget, GridOf
  <2>3. QED BY <2>2 DEF Grid!GNext
<1>3. ASSUME NEW res \in Resolution, Reinit(res)
      PROVE  [Grid!GNext]_(Grid!gridVars)
  <2>1. holder'.valid = NoRect /\ holder'.res = res
    BY <1>3, ReinitialisedOK DEF Reinit
  <2>2. Grid!GForget
    BY <1>1, <2>1, SameRectangles DEF Grid!GForget, GridOf
  <2>3. QED BY <2>2 DEF Grid!GNext
<1>4. ASSUME NEW n \in ExtendCount, SetMoreCellCountToExtend(n)
      PROVE  [Grid!GNext]_(Grid!gridVars)
  <2>1. (IF 0 <= n THEN n ELSE DefaultExtend) \in Nat
    BY ExtendAssumption
  <2>2. /\ holder'.valid = holder.valid /\ holder'.res = holder.res
        /\ GridOf(holder') = GridOf(holder)
    BY <1>4, <2>1, ExtendCountOK DEF SetMoreCellCountToExtend
  <2>3. QED BY <2>2 DEF Grid!gridVars
<1>5. ASSUME NEW r \in ReserveRect, ReserveByCellIdxRect(r)
      PROVE  [Grid!GNext]_(Grid!gridVars)
  <2>1. SameMap(holder, holder')
    BY <1>5, ReservedKeepsMap, ReserveAssumption DEF ReserveByCellIdxRect
  <2>2. QED BY <2>1 DEF SameMap, Grid!gridVars
<1>6. ASSUME NEW t \in Tile, SetMapData(t)
      PROVE  [Grid!GNext]_(Grid!gridVars)
  <2>1. CASE Acceptable(holder, t)
    <3>1. /\ holder'.res = holder.res
          /\ holder'.valid = Merge(holder.valid, t.rect)
          /\ GridOf(holder') =
               [c \in Cells(Merge(holder.valid, t.rect)) |->
                   IF c \in Cells(t.rect) THEN t.dat[Offset(t.rect, c[1], c[2])]
                   ELSE IF c \in Cells(holder.valid) THEN GridOf(holder)[c]
                   ELSE Unknown]
      BY <1>6, <2>1, UpdatedWritesTile DEF SetMapData
    <3>2. Grid!GWrite(t)
      BY <2>1, <3>1, SameRectangles DEF Grid!GWrite, Acceptable
    <3>3. QED BY <3>2 DEF Grid!GNext
  <2>2. CASE ~Acceptable(holder, t)
    BY <1>6, <2>2 DEF SetMapData, Updated, Grid!gridVars
  <2>3. QED BY <2>1, <2>2
<1>7. CASE UNCHANGED holder
  BY <1>7 DEF Grid!gridVars, GridOf
<1>8. QED BY <1>2, <1>3, <1>4, <1>5, <1>6, <1>7 DEF Next

THEOREM HolderImplementsGrid == Spec => ImplementsGrid
<1>1. Init => Grid!GInit
  BY InitRefines
<1>2. HolderOK(holder) /\ [Next]_holder => [Grid!GNext]_(Grid!gridVars)
  BY StepRefines
<1>3. QED BY <1>1, <1>2, Invariance, PTL DEF Spec, ImplementsGrid, Grid!GSpec

-----------------------------------------------------------------------------
(***************************************************************************)
(* The scan of MapScan, over the same holder.                              *)
(***************************************************************************)
\* The robot's answer for a rectangle has each cell at its own place.
LEMMA AnswerCell ==
    ASSUME NEW r \in CellIdxRect, NEW res, NEW c \in Cells(r)
    PROVE  Answer(r, res).dat[Offset(r, c[1], c[2])] = World[c]
<1> DEFINE dx == c[1] - r.x
           dy == c[2] - r.y
           k == Offset(r, c[1], c[2])
<1>1. /\ r.x \in Int /\ r.y \in Int /\ r.w \in Nat \ {0}
      /\ dx \in 0 .. (r.w - 1) /\ dy \in Int
      /\ c = <<c[1], c[2]>> /\ c[1] \in Int /\ c[2] \in Int
  BY DEF Cells, XEnd, YEnd, CellIdxRect
<1>2. k \in 0 .. (r.w * r.h - 1)
  BY OffsetInRange
<1>3. Answer(r, res).dat[k] = World[<<r.x + (k % r.w), r.y + (k \div r.w)>>]
  BY <1>2 DEF Answer
<1>4. k = dy * r.w + dx
  BY DEF Offset
<1>5. r.x + dx = c[1] /\ r.y + dy = c[2]
  BY <1>1
<1> HIDE DEF k, dx, dy
<1>6. k \div r.w = dy /\ k % r.w = dx
  BY <1>1, <1>4, DivisionUnique
<1>7. Answer(r, res).dat[k] = World[c]
  BY <1>1, <1>3, <1>5, <1>6
<1>8. QED BY <1>7 DEF k

\* A rectangle with cells inside another is one of its parts.
LEMMA ContainedIsPart ==
    ASSUME NEW r \in CellIdxRect, NEW p \in CellIdxRect, ~IsEmpty(p), Contains(r, p)
    PROVE  p \in Parts(r)
<1>1. /\ p = [x |-> p.x, y |-> p.y, w |-> p.w, h |-> p.h]
      /\ p.x \in r.x .. XEnd(r) /\ p.y \in r.y .. YEnd(r)
      /\ p.w \in 1 .. r.w /\ p.h \in 1 .. r.h
  BY DEF CellIdxRect, Contains, IsEmpty, XEnd, YEnd, MaxOf
<1>2. QED BY <1>1 DEF Parts

(***************************************************************************)
(* setMapData of an answer for a part of a known area: the cells of the    *)
(* part are at the robot's value, the others as they were.                 *)
(***************************************************************************)
LEMMA AnswerWritten ==
    ASSUME NEW m, HolderOK(m), NEW r \in KnownRect, NEW p \in CellIdxRect,
           ~IsEmpty(p), Contains(r, p),
           NEW t, t = Answer(p, m.res), NEW n, n = Updated(m, t)
    PROVE  /\ t \in Tile /\ Acceptable(m, t) /\ t.rect = p
           /\ HolderOK(n)
           /\ n.valid = Merge(m.valid, p)
           /\ Cells(p) \subseteq Cells(n.valid)
           /\ Cells(m.valid) \subseteq Cells(n.valid)
           /\ \A c \in Cells(n.valid) :
                 GridOf(n)[c] = IF c \in Cells(p) THEN World[c]
                                ELSE IF c \in Cells(m.valid) THEN GridOf(m)[c]
                                ELSE Unknown
<1>1. r \in CellIdxRect /\ m.res \in Resolution /\ m.valid \in CellIdxRect
  BY RectAssumption, ReserveAssumption DEF HolderOK, HolderType
<1>2. t \in Tile
  BY <1>1, ContainedIsPart, AnswerAssumption
<1>3. t.rect = p /\ t.res = m.res
  BY DEF Answer
<1>4. \A c \in Cells(p) : t.dat[Offset(p, c[1], c[2])] = World[c]
  BY AnswerCell
<1>5. Acceptable(m, t)
  BY <1>3 DEF Acceptable
<1>6. /\ HolderOK(n) /\ n.valid = Merge(m.valid, p)
      /\ GridOf(n) = [c \in Cells(n.valid) |->
                         IF c \in Cells(p) THEN t.dat[Offset(p, c[1], c[2])]
                         ELSE IF c \in Cells(m.valid) THEN GridOf(m)[c]
                         ELSE Unknown]
  BY <1>2, <1>3, <1>5, UpdatedWritesTile
<1>7. Cells(p) \subseteq Cells(n.valid) /\ Cells(m.valid) \subseteq Cells(n.valid)
  BY <1>1, <1>6, MergeBounds, ContainsCells, EmptyHasNoCells
<1>8. QED BY <1>2, <1>3, <1>4, <1>5, <1>6, <1>7

\* setMapData of a tile inside the array does not move it.
LEMMA WrittenInPlace ==
    ASSUME NEW m, HolderOK(m), NEW t, Contains(m.avail, t.rect)
    PROVE  Updated(m, t).avail = m.avail
BY DEF Updated, Extended, HolderOK, HolderType

-----------------------------------------------------------------------------
(***************************************************************************)
(* The invariant of the scan.  Exactness is not inductive without the      *)
(* cursor's range, which keeps the next tile inside the known area, nor    *)
(* without what the array was reserved for.  The valid part is bounded by  *)
(* a rectangle, as merging two rectangles reaches cells of neither.        *)
(***************************************************************************)
\* Where the cursor may stand, and that it was reserved for.
ScanPlaced ==
    /\ known \in KnownRect /\ ~IsEmpty(known)
    /\ cellIdxX \in known.x .. (XEnd(known) - 1)
    /\ cellIdxY \in known.y .. YEnd(known)
    /\ Contains(holder.avail, known)

\* What the scan has written.
ScanWritten ==
    /\ IsEmpty(holder.valid) \/ Contains(known, holder.valid)
    /\ \A c \in Cells(known) :
          IF c \in Scanned THEN c \in ShownCells /\ Shown[c] = World[c]
          ELSE c \in ShownCells => Shown[c] = Unknown

ScanInv ==
    /\ HolderOK(holder)
    /\ at \in {"idle", "scan"} /\ synced \in BOOLEAN
    /\ known \in CellIdxRect /\ cellIdxX \in Int /\ cellIdxY \in Int
    /\ at = "scan" => ~synced /\ ScanPlaced /\ ScanWritten
    /\ SyncedShowsKnown

\* The next tile has cells, and all of them are in the known area.
LEMMA TileInKnown ==
    ASSUME known \in CellIdxRect, ScanPlaced, cellIdxY < YEnd(known)
    PROVE  /\ TileToAsk \in CellIdxRect /\ ~IsEmpty(TileToAsk)
           /\ Contains(known, TileToAsk)
           /\ XEnd(TileToAsk) <= XEnd(known) /\ cellIdxX < XEnd(TileToAsk)
           /\ YEnd(TileToAsk) <= YEnd(known) /\ cellIdxY < YEnd(TileToAsk)
BY OnceAssumption
   DEF TileToAsk, ScanPlaced, CellIdxRect, Contains, IsEmpty, XEnd, YEnd, MinOf, MaxOf

\* A tile is new, and moving the cursor past it adds it to what was scanned.
LEMMA ScannedGrows ==
    ASSUME known \in CellIdxRect, ScanPlaced, cellIdxY < YEnd(known),
           Advance(TileToAsk), known' = known
    PROVE  /\ Scanned' = Scanned \cup Cells(TileToAsk)
           /\ Scanned \cap Cells(TileToAsk) = {}
<1> DEFINE X == XEnd(TileToAsk)
           Y == YEnd(TileToAsk)
<1>1. /\ cellIdxX \in Int /\ cellIdxY \in Int /\ Once \in Nat \ {0}
      /\ known.x \in Int /\ known.y \in Int /\ XEnd(known) \in Int /\ YEnd(known) \in Int
      /\ known.x <= cellIdxX /\ cellIdxX < XEnd(known)
      /\ known.y <= cellIdxY /\ cellIdxY < YEnd(known)
  BY OnceAssumption DEF ScanPlaced, CellIdxRect, XEnd, YEnd
<1>2. /\ X = MinOf(XEnd(known), cellIdxX + Once)
      /\ Y = MinOf(YEnd(known), cellIdxY + Once)
  BY <1>1 DEF TileToAsk, XEnd, YEnd, MinOf
<1>3. IF X < XEnd(known) THEN cellIdxX' = X /\ cellIdxY' = cellIdxY
      ELSE cellIdxX' = known.x /\ cellIdxY' = Y
  BY DEF Advance
<1>4. \A c : c \in Cells(TileToAsk) <=>
                /\ c \in Int \X Int
                /\ cellIdxX <= c[1] /\ c[1] < X /\ cellIdxY <= c[2] /\ c[2] < Y
  BY <1>1, <1>2 DEF Cells, TileToAsk, XEnd, YEnd, MinOf
<1>5. \A c : c \in Cells(known) <=>
                /\ c \in Int \X Int
                /\ known.x <= c[1] /\ c[1] < XEnd(known)
                /\ known.y <= c[2] /\ c[2] < YEnd(known)
  BY <1>1 DEF Cells
<1>6. Scanned = {c \in Cells(known) :
                    c[2] < cellIdxY \/ (c[2] < cellIdxY + Once /\ c[1] < cellIdxX)}
  BY DEF Scanned
<1>7. Scanned' = {c \in Cells(known) :
                    c[2] < cellIdxY' \/ (c[2] < cellIdxY' + Once /\ c[1] < cellIdxX')}
  BY DEF Scanned, Cells, XEnd, YEnd
<1> HIDE DEF X, Y
<1>8. ASSUME NEW c \in Int \X Int
      PROVE  /\ c \in Scanned' <=> c \in Scanned \/ c \in Cells(TileToAsk)
             /\ ~(c \in Scanned /\ c \in Cells(TileToAsk))
  <2>1. c[1] \in Int /\ c[2] \in Int
    OBVIOUS
  <2>2. CASE X < XEnd(known)
    BY <1>1, <1>2, <1>3, <1>4, <1>5, <1>6, <1>7, <2>1, <2>2 DEF MinOf
  <2>3. CASE ~(X < XEnd(known))
    BY <1>1, <1>2, <1>3, <1>4, <1>5, <1>6, <1>7, <2>1, <2>3 DEF MinOf
  <2>4. QED BY <2>2, <2>3
<1>9. QED BY <1>4, <1>5, <1>6, <1>7, <1>8

LEMMA ScanInitOK == ScanInit => ScanInv
<1> SUFFICES ASSUME ScanInit PROVE ScanInv
  OBVIOUS
<1>1. NoRect \in CellIdxRect
  BY DEF NoRect, CellIdxRect
<1>2. HolderOK(holder)
  BY InitOK DEF ScanInit
<1>3. at = "idle" /\ known = NoRect /\ cellIdxX = 0 /\ cellIdxY = 0 /\ synced = FALSE
  BY DEF ScanInit
<1>4. SyncedShowsKnown
  BY <1>3 DEF SyncedShowsKnown
<1>5. at = "scan" => ~synced /\ ScanPlaced /\ ScanWritten
  BY <1>3
<1>6. synced \in BOOLEAN /\ at \in {"idle", "scan"}
  BY <1>3
<1>7. known \in CellIdxRect /\ cellIdxX \in Int /\ cellIdxY \in Int
  BY <1>1, <1>3
<1>8. QED BY <1>2, <1>4, <1>5, <1>6, <1>7 DEF ScanInv

\* The array is reserved for the known area, and nothing is shown in it yet.
LEMMA BeginScanOK == ScanInv /\ BeginScan => ScanInv'
<1> SUFFICES ASSUME ScanInv, NEW r \in KnownRect, ~IsEmpty(r), known' = r,
                    holder' = Reserved(Cleared(holder), r),
                    cellIdxX' = r.x, cellIdxY' = r.y, at' = "scan", synced' = FALSE
             PROVE  ScanInv'
  BY DEF BeginScan
<1>1. r \in CellIdxRect
  BY RectAssumption, ReserveAssumption
<1>2. HolderOK(holder') /\ holder'.valid = NoRect /\ Contains(holder'.avail, r)
  BY <1>1, ClearedOK, ReservedKeepsMap DEF ScanInv, SameMap
<1>3. r.x \in r.x .. (XEnd(r) - 1) /\ r.y \in r.y .. YEnd(r)
  BY <1>1 DEF CellIdxRect, XEnd, YEnd, IsEmpty
<1>4. ScanPlaced'
  BY <1>2, <1>3 DEF ScanPlaced, IsEmpty, XEnd, YEnd, Contains
<1>5. Cells(holder'.valid) = {} /\ IsEmpty(holder'.valid)
  BY <1>2, EmptyHasNoCells DEF NoRect, CellIdxRect, IsEmpty
<1>6. Scanned' = {}
  BY <1>1 DEF Scanned, Cells, XEnd, YEnd, CellIdxRect
<1>7. ScanWritten'
  BY <1>5, <1>6 DEF ScanWritten, ShownCells, IsEmpty, Cells, XEnd, YEnd
<1>8. QED BY <1>1, <1>2, <1>3, <1>4, <1>7 DEF ScanInv, SyncedShowsKnown, CellIdxRect

\* The array reserved for the known area has room for every tile.
LEMMA ScanTileInPlace == ScanInv /\ ScanTile => holder'.avail = holder.avail
<1> SUFFICES ASSUME ScanInv, ScanTile PROVE holder'.avail = holder.avail
  OBVIOUS
<1>1. /\ HolderOK(holder) /\ known \in CellIdxRect /\ ScanPlaced /\ cellIdxY < YEnd(known)
      /\ holder' = Updated(holder, Answer(TileToAsk, holder.res))
  BY DEF ScanInv, ScanTile
<1>2. Contains(holder.avail, known) /\ holder.avail \in CellIdxRect
  BY <1>1 DEF ScanPlaced, HolderOK, HolderType
<1>3. Contains(holder.avail, TileToAsk)
  BY <1>1, <1>2, TileInKnown, ContainsTransitive
<1>4. Answer(TileToAsk, holder.res).rect = TileToAsk
  BY DEF Answer
<1>5. QED BY <1>1, <1>3, <1>4, WrittenInPlace

\* A tile is written at the robot's values where nothing was shown before.
LEMMA ScanTileOK == ScanInv /\ ScanTile => ScanInv'
<1> SUFFICES ASSUME ScanInv, ScanTile PROVE ScanInv'
  OBVIOUS
<1> DEFINE tile == TileToAsk
<1>1. /\ HolderOK(holder) /\ known \in CellIdxRect /\ at = "scan" /\ ~synced
      /\ ScanPlaced /\ ScanWritten /\ cellIdxY < YEnd(known)
      /\ holder' = Updated(holder, Answer(tile, holder.res))
      /\ Advance(tile) /\ at' = at /\ known' = known /\ synced' = synced
  BY DEF ScanInv, ScanTile
<1>2. /\ tile \in CellIdxRect /\ ~IsEmpty(tile) /\ Contains(known, tile)
      /\ XEnd(tile) <= XEnd(known) /\ cellIdxX < XEnd(tile)
      /\ YEnd(tile) <= YEnd(known) /\ cellIdxY < YEnd(tile)
  BY <1>1, TileInKnown
<1>3. known \in KnownRect /\ holder.valid \in CellIdxRect /\ holder.avail \in CellIdxRect
  BY <1>1 DEF ScanPlaced, HolderOK, HolderType
<1>4. Scanned' = Scanned \cup Cells(tile) /\ Scanned \cap Cells(tile) = {}
  BY <1>1, ScannedGrows
<1> HIDE DEF tile
<1>5. /\ HolderOK(holder') /\ holder'.valid = Merge(holder.valid, tile)
      /\ Cells(tile) \subseteq Cells(holder'.valid)
      /\ Cells(holder.valid) \subseteq Cells(holder'.valid)
      /\ \A c \in Cells(holder'.valid) :
            GridOf(holder')[c] = IF c \in Cells(tile) THEN World[c]
                                 ELSE IF c \in Cells(holder.valid) THEN GridOf(holder)[c]
                                 ELSE Unknown
  <2> DEFINE t == Answer(tile, holder.res)
  <2>1. holder' = Updated(holder, t)
    BY <1>1
  <2>2. t = Answer(tile, holder.res)
    OBVIOUS
  <2> HIDE DEF t
  <2>3. QED BY <1>1, <1>2, <1>3, <2>1, <2>2, AnswerWritten
<1>6. holder'.avail = holder.avail
  BY ScanTileInPlace
<1>7. cellIdxX' \in known.x .. (XEnd(known) - 1) /\ cellIdxY' \in known.y .. YEnd(known)
  BY <1>1, <1>2 DEF Advance, ScanPlaced, CellIdxRect, XEnd, YEnd
<1>8. ScanPlaced'
  BY <1>1, <1>6, <1>7 DEF ScanPlaced, IsEmpty, XEnd, YEnd, Contains
<1>9. Contains(known, holder'.valid)
  BY <1>1, <1>2, <1>3, <1>5, MergeLeast DEF ScanWritten
<1>10. ASSUME NEW c \in Cells(known)
       PROVE  IF c \in Scanned' THEN c \in Cells(holder'.valid) /\ GridOf(holder')[c] = World[c]
              ELSE c \in Cells(holder'.valid) => GridOf(holder')[c] = Unknown
  <2>1. IF c \in Scanned THEN c \in Cells(holder.valid) /\ GridOf(holder)[c] = World[c]
        ELSE c \in Cells(holder.valid) => GridOf(holder)[c] = Unknown
    BY <1>1 DEF ScanWritten, ShownCells, Shown
  <2>2. CASE c \in Cells(tile)
    BY <1>4, <1>5, <2>2
  <2>3. CASE c \in Scanned
    BY <1>4, <1>5, <2>1, <2>3
  <2>4. CASE c \notin Scanned'
    BY <1>4, <1>5, <2>1, <2>4
  <2>5. QED BY <1>4, <2>2, <2>3, <2>4
<1>11. ScanWritten'
  BY <1>1, <1>9, <1>10
     DEF ScanWritten, ShownCells, Shown, Contains, IsEmpty, Cells, XEnd, YEnd, GridOf
<1>12. cellIdxX' \in Int /\ cellIdxY' \in Int
  BY <1>1, <1>7 DEF CellIdxRect, XEnd, YEnd
<1>13. QED
  BY <1>1, <1>5, <1>8, <1>11, <1>12 DEF ScanInv, SyncedShowsKnown

LEMMA TileFailsOK == ScanInv /\ TileFails => ScanInv'
BY DEF ScanInv, TileFails, cursor, SyncedShowsKnown, ShownCells, Shown, GridOf, Cells, XEnd, YEnd

\* With the cursor beyond the last row, all of the known area was scanned.
LEMMA EndScanOK == ScanInv /\ EndScan => ScanInv'
<1> SUFFICES ASSUME ScanInv, EndScan PROVE ScanInv'
  OBVIOUS
<1>1. /\ known \in CellIdxRect /\ ScanWritten /\ cellIdxY \in Int /\ cellIdxY >= YEnd(known)
      /\ holder' = holder /\ known' = known /\ at' = "idle" /\ synced' = TRUE
      /\ cellIdxX' = cellIdxX /\ cellIdxY' = cellIdxY
  BY DEF ScanInv, EndScan, cursor
<1>2. Scanned = Cells(known)
  BY <1>1 DEF Scanned, Cells, XEnd, YEnd, CellIdxRect
<1>3. \A c \in Cells(known) : c \in ShownCells /\ Shown[c] = World[c]
  BY <1>1, <1>2 DEF ScanWritten
<1>4. SyncedShowsKnown'
  BY <1>1, <1>3 DEF SyncedShowsKnown, ShownCells, Shown
<1>5. QED BY <1>1, <1>4 DEF ScanInv

\* A later update writes what the robot's map says, of any known area.
LEMMA UpdateNearRobotOK == ScanInv /\ UpdateNearRobot => ScanInv'
<1> SUFFICES ASSUME ScanInv, at = "idle", NEW r \in KnownRect, NEW near \in NearRect,
                    ~IsEmpty(Intersection(near, r)),
                    holder' = Updated(holder, Answer(Intersection(near, r), holder.res)),
                    at' = at, known' = known, synced' = synced,
                    cellIdxX' = cellIdxX, cellIdxY' = cellIdxY
             PROVE  ScanInv'
  BY DEF UpdateNearRobot, cursor
<1> DEFINE part == Intersection(near, r)
<1>1. r \in CellIdxRect /\ near \in CellIdxRect
  BY RectAssumption, ReserveAssumption
<1>2. part \in CellIdxRect /\ ~IsEmpty(part) /\ Contains(r, part)
  BY <1>1, IntersectionBounds
<1> HIDE DEF part
<1>3. /\ HolderOK(holder')
      /\ Cells(holder.valid) \subseteq Cells(holder'.valid)
      /\ \A c \in Cells(holder'.valid) :
            GridOf(holder')[c] = IF c \in Cells(part) THEN World[c]
                                 ELSE IF c \in Cells(holder.valid) THEN GridOf(holder)[c]
                                 ELSE Unknown
  <2> DEFINE t == Answer(part, holder.res)
  <2>1. holder' = Updated(holder, t) /\ HolderOK(holder) /\ r \in KnownRect
    BY DEF part, ScanInv
  <2>2. t = Answer(part, holder.res)
    OBVIOUS
  <2> HIDE DEF t
  <2>3. QED BY <1>2, <2>1, <2>2, AnswerWritten
<1>4. SyncedShowsKnown'
  <2>1. SyncedShowsKnown
    BY DEF ScanInv
  <2>2. QED BY <1>3, <2>1 DEF SyncedShowsKnown, ShownCells, Shown
<1>5. QED BY <1>3, <1>4 DEF ScanInv

LEMMA ScanStepOK == ScanInv /\ [ScanNext]_scanVars => ScanInv'
<1> SUFFICES ASSUME ScanInv, [ScanNext]_scanVars PROVE ScanInv'
  OBVIOUS
<1>1. CASE BeginScan
  BY <1>1, BeginScanOK
<1>2. CASE ScanTile
  BY <1>2, ScanTileOK
<1>3. CASE TileFails
  BY <1>3, TileFailsOK
<1>4. CASE EndScan
  BY <1>4, EndScanOK
<1>5. CASE UpdateNearRobot
  BY <1>5, UpdateNearRobotOK
<1>6. CASE UNCHANGED scanVars
  BY <1>6 DEF scanVars, cursor, ScanInv, ScanPlaced, ScanWritten, SyncedShowsKnown,
              Scanned, ShownCells, Shown
<1>7. QED BY <1>1, <1>2, <1>3, <1>4, <1>5, <1>6 DEF ScanNext

LEMMA ScanInvariance == ScanSpec => []ScanInv
<1>1. ScanInit => ScanInv
  BY ScanInitOK
<1>2. ScanInv /\ [ScanNext]_scanVars => ScanInv'
  BY ScanStepOK
<1>3. QED BY <1>1, <1>2, PTL DEF ScanSpec

(***************************************************************************)
(* The state of a scan has its type, and between two requests its cursor   *)
(* stands on a cell of the known area or on the row after the last.        *)
(***************************************************************************)
THEOREM ScanTypeCorrect == ScanSpec => []ScanTypeOK
<1>1. ScanInv => ScanTypeOK
  BY DEF ScanInv, ScanTypeOK, ScanPlaced, HolderOK, TypeOK
<1>2. QED BY <1>1, ScanInvariance, PTL

(***************************************************************************)
(* While it is scanned, the map shows exactly the part of the known area   *)
(* that lies before the cursor, at the robot's values: for every size of   *)
(* the area and of a tile, and wherever an earlier scan failed.            *)
(***************************************************************************)
THEOREM ScanIsExact == ScanSpec => []ScanExact
<1>1. ScanInv => ScanExact
  <2> SUFFICES ASSUME ScanInv, at = "scan" PROVE ScanExact
    BY DEF ScanExact
  <2>1. known \in CellIdxRect /\ holder.valid \in CellIdxRect /\ ScanWritten
    BY DEF ScanInv, HolderOK, HolderType
  <2>2. ShownCells \subseteq Cells(known)
    BY <2>1, ContainsCells, EmptyHasNoCells DEF ScanWritten, ShownCells
  <2>3. QED BY <2>1, <2>2 DEF ScanWritten, ScanExact
<1>2. QED BY <1>1, ScanInvariance, PTL

(***************************************************************************)
(* After a completed scan all of the known area is shown as the robot has  *)
(* it, through any number of updates near the robot.                       *)
(***************************************************************************)
THEOREM SyncedIsShown == ScanSpec => []SyncedShowsKnown
<1>1. ScanInv => SyncedShowsKnown
  BY DEF ScanInv
<1>2. QED BY <1>1, ScanInvariance, PTL

(***************************************************************************)
(* None of the holder's assertions on copy offsets fails in a scan or in   *)
(* an update near the robot.                                               *)
(***************************************************************************)
THEOREM ScanNeverFailsAsserts == ScanSpec => []AssertsHold
<1>1. ScanInv => AssertsHold
  BY LayoutGivesAsserts DEF ScanInv
<1>2. QED BY <1>1, ScanInvariance, PTL

(***************************************************************************)
(* The array is not reallocated during a scan, and no cell is asked for    *)
(* twice.                                                                  *)
(***************************************************************************)
THEOREM ScanStaysInPlace == ScanSpec => ScansInPlace
<1> DEFINE InPlace == at = "scan" /\ at' = "scan" =>
                        /\ holder'.avail = holder.avail
                        /\ Cells(TileToAsk) \intersect Scanned = {}
<1>1. ScanInv /\ [ScanNext]_scanVars => [InPlace]_scanVars
  <2> SUFFICES ASSUME ScanInv, ScanNext, at = "scan", at' = "scan"
               PROVE  InPlace
    OBVIOUS
  <2>1. ScanTile
    BY DEF ScanNext, BeginScan, TileFails, EndScan, UpdateNearRobot
  <2>2. holder'.avail = holder.avail
    BY <2>1, ScanTileInPlace
  <2>3. Scanned \cap Cells(TileToAsk) = {}
    BY <2>1, ScannedGrows DEF ScanInv, ScanTile
  <2>4. QED BY <2>2, <2>3
<1>2. QED BY <1>1, ScanInvariance, PTL DEF ScanSpec, ScansInPlace

(***************************************************************************)
(* Each tile takes the cursor on, to the right in its row or to the start  *)
(* of a later row, and leaves it where it can be asked about next.         *)
(***************************************************************************)
CursorAdvances ==
    \/ cellIdxY' = cellIdxY /\ cellIdxX < cellIdxX' /\ cellIdxX' < XEnd(known)
    \/ cellIdxY < cellIdxY' /\ cellIdxY' <= YEnd(known) /\ cellIdxX' = known.x

\* The most tiles that a scan still has to ask for, a column per row to spare.
Remaining == (YEnd(known) - cellIdxY) * (known.w + 1) + (XEnd(known) - cellIdxX)

LEMMA TileAdvances ==
    ASSUME ScanInv, ScanTile
    PROVE  CursorAdvances /\ known' = known
<1>1. /\ known \in CellIdxRect /\ ScanPlaced /\ cellIdxY < YEnd(known)
      /\ Advance(TileToAsk) /\ known' = known
  BY DEF ScanInv, ScanTile
<1>2. QED BY <1>1, TileInKnown DEF Advance, CursorAdvances

LEMMA RemainingShrinks ==
    ASSUME NEW w \in Nat, NEW d \in Nat, NEW x \in 1 .. w,
           NEW e \in Nat, NEW z \in 1 .. w,
           (e = d /\ z < x) \/ (e < d /\ z = w)
    PROVE  /\ e * (w + 1) + z < d * (w + 1) + x
           /\ e * (w + 1) + z \in Nat /\ d * (w + 1) + x \in Nat
<1> DEFINE n == w + 1
<1>1. n \in Nat
  OBVIOUS
<1>2. 0 * n <= e * n /\ 0 * n <= d * n
  BY <1>1, ScaleMonotone
<1>3. e * n \in Int /\ d * n \in Int /\ 0 * n = 0
  BY <1>1
<1>4. e * n + z \in Nat /\ d * n + x \in Nat
  <2> HIDE DEF n
  <2>1. QED BY <1>2, <1>3
<1>5. CASE e = d /\ z < x
  BY <1>5, <1>4
<1>6. CASE e < d /\ z = w
  <2>1. (e + 1) * (w + 1) <= d * (w + 1)
    BY <1>6, ScaleMonotone
  <2>2. (e + 1) * (w + 1) = e * (w + 1) + w + 1 /\ e * (w + 1) \in Int /\ d * (w + 1) \in Int
    OBVIOUS
  <2>3. QED BY <1>6, <1>4, <2>1, <2>2
<1>7. QED BY <1>5, <1>6

(***************************************************************************)
(* The two loops of syncWholeMap_ run out: a natural number goes down with *)
(* every tile, so that a scan of any area with tiles of any size makes no  *)
(* more than so many requests.  (That it gets to its end is ScanEnds,      *)
(* which needs the fairness.)                                              *)
(***************************************************************************)
ScanGoesOn == at = "scan" /\ at' = "scan"

THEOREM ScanRunsOut ==
    ScanSpec => [][ScanGoesOn => /\ CursorAdvances
                                 /\ Remaining \in Nat /\ Remaining' \in Nat
                                 /\ Remaining' < Remaining]_scanVars
<1> DEFINE RunsOut == ScanGoesOn => /\ CursorAdvances
                                    /\ Remaining \in Nat /\ Remaining' \in Nat
                                    /\ Remaining' < Remaining
<1>1. ScanInv /\ [ScanNext]_scanVars => [RunsOut]_scanVars
  <2> SUFFICES ASSUME ScanInv, ScanNext, at = "scan", at' = "scan"
               PROVE  /\ CursorAdvances
                      /\ Remaining \in Nat /\ Remaining' \in Nat
                      /\ Remaining' < Remaining
    BY DEF ScanGoesOn
  <2>1. ScanTile
    BY DEF ScanNext, BeginScan, TileFails, EndScan, UpdateNearRobot
  <2>2. CursorAdvances /\ known' = known
    BY <2>1, TileAdvances
  <2> DEFINE w == known.w
             d == YEnd(known) - cellIdxY
             x == XEnd(known) - cellIdxX
             e == YEnd(known) - cellIdxY'
             z == XEnd(known) - cellIdxX'
  <2>3. w \in Nat /\ d \in Nat /\ x \in 1 .. w
    BY DEF ScanInv, ScanPlaced, CellIdxRect, IsEmpty, XEnd, YEnd
  <2>4. e \in Nat /\ z \in 1 .. w /\ ((e = d /\ z < x) \/ (e < d /\ z = w))
    <3>1. ScanPlaced'
      BY <2>1, ScanTileOK DEF ScanInv
    <3>2. QED
      BY <2>2, <3>1 DEF CursorAdvances, ScanInv, ScanPlaced, CellIdxRect, IsEmpty, XEnd, YEnd
  <2>5. Remaining = d * (w + 1) + x
    BY DEF Remaining
  <2>6. Remaining' = e * (w + 1) + z
    BY <2>2 DEF Remaining, XEnd, YEnd
  <2> HIDE DEF w, d, x, e, z
  <2>7. /\ e * (w + 1) + z < d * (w + 1) + x
        /\ e * (w + 1) + z \in Nat /\ d * (w + 1) + x \in Nat
    BY <2>3, <2>4, RemainingShrinks
  <2>8. QED BY <2>2, <2>5, <2>6, <2>7
<1>2. QED BY <1>1, ScanInvariance, PTL DEF ScanSpec

(***************************************************************************)
(* Scanning and updating keep to the abstract grid: a scan begins with it  *)
(* forgotten, and each answer is one write of one tile.                    *)
(***************************************************************************)
LEMMA ScanStepRefines ==
    ScanInv /\ [ScanNext]_scanVars => [Grid!GNext]_(Grid!gridVars)
<1> SUFFICES ASSUME ScanInv, [ScanNext]_scanVars
             PROVE  [Grid!GNext]_(Grid!gridVars)
  OBVIOUS
<1>1. HolderOK(holder)
  BY DEF ScanInv
<1>2. ASSUME NEW r \in KnownRect, NEW p \in CellIdxRect, ~IsEmpty(p), Contains(r, p),
             holder' = Updated(holder, Answer(p, holder.res))
      PROVE  [Grid!GNext]_(Grid!gridVars)
  <2> DEFINE t == Answer(p, holder.res)
  <2>1. holder' = Updated(holder, t) /\ t = Answer(p, holder.res)
    BY <1>2
  <2> HIDE DEF t
  <2>2. t \in Tile /\ Acceptable(holder, t)
    BY <1>1, <1>2, <2>1, AnswerWritten
  <2>3. SetMapData(t)
    BY <2>1 DEF SetMapData
  <2>4. [Next]_holder
    BY <2>2, <2>3 DEF Next
  <2>5. QED BY <1>1, <2>4, StepRefines
<1>3. CASE BeginScan
  <2>1. PICK r \in KnownRect : holder' = Reserved(Cleared(holder), r)
    BY <1>3 DEF BeginScan
  <2>2. r \in CellIdxRect
    BY RectAssumption, ReserveAssumption
  <2>3. /\ holder'.valid = NoRect /\ holder'.res = holder.res
        /\ holder.res \in Resolution
    BY <1>1, <2>1, <2>2, ClearedOK, ReservedKeepsMap DEF SameMap, HolderOK, HolderType
  <2>4. Cells(NoRect) = {}
    BY EmptyHasNoCells DEF NoRect, CellIdxRect, IsEmpty
  <2>5. Grid!GForget
    BY <2>3, <2>4, SameRectangles DEF Grid!GForget, GridOf
  <2>6. QED BY <2>5 DEF Grid!GNext
<1>4. CASE ScanTile
  <2>1. /\ known \in CellIdxRect /\ ScanPlaced /\ cellIdxY < YEnd(known)
        /\ holder' = Updated(holder, Answer(TileToAsk, holder.res))
    BY <1>4 DEF ScanInv, ScanTile
  <2>2. known \in KnownRect
    BY <2>1 DEF ScanPlaced
  <2>3. TileToAsk \in CellIdxRect /\ ~IsEmpty(TileToAsk) /\ Contains(known, TileToAsk)
    BY <2>1, TileInKnown
  <2>4. QED BY <1>2, <2>1, <2>2, <2>3
<1>5. CASE UpdateNearRobot
  <2>1. PICK r \in KnownRect, near \in NearRect :
          /\ ~IsEmpty(Intersection(near, r))
          /\ holder' = Updated(holder, Answer(Intersection(near, r), holder.res))
    BY <1>5 DEF UpdateNearRobot
  <2>2. r \in CellIdxRect /\ near \in CellIdxRect
    BY RectAssumption, ReserveAssumption
  <2>3. Intersection(near, r) \in CellIdxRect /\ Contains(r, Intersection(near, r))
    BY <2>1, <2>2, IntersectionBounds
  <2>4. QED BY <1>2, <2>1, <2>3
<1>6. CASE TileFails \/ EndScan \/ UNCHANGED scanVars
  BY <1>6 DEF TileFails, EndScan, scanVars, Grid!gridVars, GridOf
<1>7. QED BY <1>3, <1>4, <1>5, <1>6 DEF ScanNext

THEOREM ScanKeepsGrid == ScanSpec => ImplementsGrid
<1>1. ScanInit => Grid!GInit
  BY InitRefines DEF ScanInit
<1>2. ScanInv /\ [ScanNext]_scanVars => [Grid!GNext]_(Grid!gridVars)
  BY ScanStepRefines
<1>3. QED
  BY <1>1, <1>2, ScanInvariance, PTL DEF ScanSpec, ImplementsGrid, Grid!GSpec

-----------------------------------------------------------------------------
(***************************************************************************)
(* What the grid promises, and the holder and the scan by implementing it. *)
(***************************************************************************)
\* A write of the grid, in the terms of this module.
LEMMA GridWrite ==
    ASSUME NEW t \in Tile, Grid!GWrite(t)
    PROVE  /\ t.rect \in CellIdxRect /\ t.res = holder.res /\ ~IsEmpty(t.rect)
           /\ holder'.valid = Merge(holder.valid, t.rect) /\ holder'.res = holder.res
           /\ \A c \in Cells(holder'.valid) :
                 GridOf(holder')[c] =
                    IF c \in Cells(t.rect) THEN Grid!TileCell(t, c)
                    ELSE IF c \in Cells(holder.valid) THEN GridOf(holder)[c]
                    ELSE Unknown
BY SameRectangles, TileAssumption DEF Grid!GWrite

LEMMA NothingInventedStep ==
    Grid!NothingInvented /\ [Grid!GNext]_(Grid!gridVars) => Grid!NothingInvented'
<1> SUFFICES ASSUME Grid!NothingInvented, [Grid!GNext]_(Grid!gridVars)
             PROVE  Grid!NothingInvented'
  OBVIOUS
<1>1. CASE Grid!GForget
  <2>1. holder'.valid = NoRect
    BY <1>1, SameRectangles DEF Grid!GForget
  <2>2. Cells(holder'.valid) = {}
    BY <2>1, EmptyHasNoCells DEF NoRect, CellIdxRect, IsEmpty
  <2>3. QED BY <2>2, SameRectangles DEF Grid!NothingInvented
<1>2. ASSUME NEW t \in Tile, Grid!GWrite(t)
      PROVE  Grid!NothingInvented'
  <2> SUFFICES ASSUME NEW c \in Cells(holder'.valid), GridOf(holder')[c] # Unknown
               PROVE  \E u \in Tile : /\ u.res = holder'.res /\ c \in Cells(u.rect)
                                      /\ GridOf(holder')[c] = Grid!TileCell(u, c)
    BY SameRectangles DEF Grid!NothingInvented, Grid!Told, Grid!TileCell, Grid!Offset
  <2>1. CASE c \in Cells(t.rect)
    BY <1>2, <2>1, GridWrite
  <2>2. CASE c \notin Cells(t.rect)
    <3>1. c \in Cells(holder.valid) /\ GridOf(holder')[c] = GridOf(holder)[c]
      BY <1>2, <2>2, GridWrite
    <3>2. \E u \in Tile : /\ u.res = holder.res /\ c \in Cells(u.rect)
                          /\ GridOf(holder)[c] = Grid!TileCell(u, c)
      BY <3>1, SameRectangles DEF Grid!NothingInvented, Grid!Told
    <3>3. QED BY <1>2, <3>1, <3>2, GridWrite
  <2>3. QED BY <2>1, <2>2
<1>3. CASE UNCHANGED Grid!gridVars
  BY <1>3 DEF Grid!gridVars, Grid!NothingInvented, Grid!Told, Grid!Cells, Grid!XEnd,
              Grid!YEnd, Grid!TileCell, Grid!Offset
<1>4. QED BY <1>1, <1>2, <1>3 DEF Grid!GNext

LEMMA GridInvents == Grid!GSpec => []Grid!NothingInvented
<1>1. Grid!GInit => Grid!NothingInvented
  <2> SUFFICES ASSUME Grid!GInit PROVE Grid!NothingInvented
    OBVIOUS
  <2>1. Cells(NoRect) = {}
    BY EmptyHasNoCells DEF NoRect, CellIdxRect, IsEmpty
  <2>2. QED BY <2>1, SameRectangles DEF Grid!GInit, Grid!NothingInvented
<1>2. QED BY <1>1, NothingInventedStep, PTL DEF Grid!GSpec

LEMMA NothingLostStep ==
    ASSUME holder.valid \in CellIdxRect, [Grid!GNext]_(Grid!gridVars),
           holder'.valid # NoRect, NEW c \in Cells(holder.valid)
    PROVE  /\ c \in Cells(holder'.valid)
           /\ GridOf(holder')[c] = GridOf(holder)[c] \/ Grid!Told(c, GridOf(holder')[c])
<1>1. CASE Grid!GForget
  BY <1>1, SameRectangles DEF Grid!GForget
<1>2. ASSUME NEW t \in Tile, Grid!GWrite(t)
      PROVE  /\ c \in Cells(holder'.valid)
             /\ GridOf(holder')[c] = GridOf(holder)[c] \/ Grid!Told(c, GridOf(holder')[c])
  <2>1. Cells(holder.valid) \subseteq Cells(Merge(holder.valid, t.rect))
    <3>1. t.rect \in CellIdxRect
      BY <1>2, GridWrite
    <3>2. QED BY <3>1, MergeBounds, ContainsCells, EmptyHasNoCells
  <2>2. c \in Cells(holder'.valid)
    BY <1>2, <2>1, GridWrite
  <2>3. QED BY <1>2, <2>2, GridWrite, SameRectangles DEF Grid!Told
<1>3. CASE UNCHANGED Grid!gridVars
  BY <1>3 DEF Grid!gridVars
<1>4. QED BY <1>1, <1>2, <1>3 DEF Grid!GNext

(***************************************************************************)
(* Every value the map shows is one that a tile of the map's resolution    *)
(* had for this very cell: no offset of the copying, no reallocation and   *)
(* no gap between two tiles puts a value where it does not belong.         *)
(***************************************************************************)
THEOREM HolderInventsNothing == Spec => []Grid!NothingInvented
<1> QED BY HolderImplementsGrid, GridInvents, PTL DEF ImplementsGrid

(***************************************************************************)
(* Until the map is cleared or reinitialised, a cell stays in it through   *)
(* every reallocation and changes only to what a tile says of it.          *)
(***************************************************************************)
THEOREM HolderLosesNothing == Spec => Grid!NothingLost
<1>1. HolderOK(holder) /\ [Grid!GNext]_(Grid!gridVars) => [Grid!KeepsCells]_(Grid!gridVars)
  BY NothingLostStep, SameRectangles DEF HolderOK, HolderType, Grid!KeepsCells
<1>2. QED
  BY <1>1, Invariance, HolderImplementsGrid, PTL
     DEF ImplementsGrid, Grid!GSpec, Grid!NothingLost
=============================================================================
