-------------------------- MODULE LaserScan_proof ---------------------------
(***************************************************************************)
(* Proofs about LaserScan, for any number of beams and any scan.           *)
(***************************************************************************)
EXTENDS LaserScan, TLAPS

LEMMA ProductMonotone ==
    ASSUME NEW a \in Nat, NEW b \in Nat, NEW s \in Nat, a <= b
    PROVE  a * s \in Nat /\ a * s <= b * s
<1>1. PICK d \in Nat : b = a + d
    BY b - a \in Nat
<1>2. (a + d) * s = a * s + d * s
    OBVIOUS
<1>3. a * s \in Nat /\ d * s \in Nat
    OBVIOUS
<1> QED
    BY <1>1, <1>2, <1>3

LEMMA ProductNext ==
    ASSUME NEW a \in Nat, NEW s \in Nat
    PROVE  (a + 1) * s = a * s + s /\ (-s) * a = -(a * s)
OBVIOUS

LEMMA PiPositive == Pi \in Nat /\ Pi > 0 /\ Step \in Nat /\ Step > 0
BY LaserAssumption DEF Pi, Step

LEMMA NormalisedRange ==
    ASSUME NEW a \in Int
    PROVE  Normalised(a) \in (-Pi)..(Pi - 1)
<1>1. Circle \in Nat /\ Circle > 0
    BY PiPositive DEF Circle
<1>2. (a + Pi) % Circle \in 0..(Circle - 1)
    BY <1>1, PiPositive
<1> QED
    BY <1>2, PiPositive DEF Normalised, Circle

\* Within the range it changes nothing.
LEMMA NormalisedSame ==
    ASSUME NEW a \in (-Pi)..(Pi - 1)
    PROVE  Normalised(a) = a
<1>1. Circle \in Nat /\ Circle > 0 /\ a + Pi \in 0..(Circle - 1)
    BY PiPositive DEF Circle
<1>2. (a + Pi) % Circle = a + Pi
    BY <1>1
<1> QED
    BY <1>2, PiPositive DEF Normalised

\* Rounding to the nearest step.
Rounded(diff) == (2 * diff + Step) \div (2 * Step)

LEMMA RoundedNearest ==
    ASSUME NEW diff \in Nat
    PROVE  /\ Rounded(diff) \in Nat
           /\ 2 * diff <= 2 * (Rounded(diff) * Step) + Step
           /\ 2 * (Rounded(diff) * Step) <= 2 * diff + Step
<1> DEFINE n == 2 * diff + Step
           d == 2 * Step
           q == n \div d
<1>1. n \in Nat /\ d \in Nat /\ d > 0
    BY PiPositive
<1>2. q \in Nat /\ q * d <= n /\ n < q * d + d
    <2> HIDE DEF n, d
    <2> QED
        BY <1>1
<1>3. q * d = 2 * (q * Step)
    BY <1>2, PiPositive
<1> HIDE DEF q
<1>4. q * Step \in Nat
    BY <1>2, PiPositive
<1>5. Rounded(diff) = q
    BY DEF Rounded, q
<1> QED
    BY <1>1, <1>2, <1>3, <1>4, <1>5, PiPositive

Diff(angle, clockwise0) == IF clockwise0 THEN Pi - angle ELSE angle + Pi

LEMMA DestIndexRounds ==
    ASSUME NEW a, NEW cw
    PROVE  DestIndex(a, cw) = IF Count <= Rounded(Diff(a, cw)) THEN 0
                              ELSE Rounded(Diff(a, cw))
BY DEF DestIndex, Rounded, Diff

LEMMA DestIndexIsBeam ==
    ASSUME NEW a \in (-Pi)..(Pi - 1), NEW cw \in BOOLEAN
    PROVE  DestIndex(a, cw) \in Beams
<1>1. Diff(a, cw) \in Nat
    BY PiPositive DEF Diff
<1> QED
    BY <1>1, RoundedNearest, DestIndexRounds, LaserAssumption DEF Beams

(***************************************************************************)
(* An angle is at most half a step, along the circle, from the angle of    *)
(* its beam, in both directions and across the seam.                       *)
(***************************************************************************)
LEMMA BeamIsNear ==
    ASSUME NEW a \in (-Pi)..(Pi - 1), NEW cw \in BOOLEAN
    PROVE  2 * Closeness(a, BeamAngle(DestIndex(a, cw), cw)) <= Step
<1> DEFINE diff == Diff(a, cw)
           r == Rounded(diff)
           p == r * Step
<1>1. Pi \in Nat /\ Pi > 0 /\ Step \in Nat /\ Step > 0 /\ Circle = 2 * Pi
    BY PiPositive DEF Circle
<1>2. Circle = Count * Step /\ Count \in Nat /\ Count > 0
    BY LaserAssumption DEF Circle, Pi, Step
<1>3. Step <= Circle
    <2>1. 1 * Step <= Count * Step /\ 1 * Step = Step
        BY <1>1, <1>2, ProductMonotone
    <2> QED
        BY <1>2, <2>1
<1>4. diff \in 0..Circle /\ diff = IF cw THEN Pi - a ELSE a + Pi
    BY <1>1 DEF Diff
<1>5. r \in Nat /\ 2 * diff <= 2 * p + Step /\ 2 * p <= 2 * diff + Step
    BY <1>4, RoundedNearest
<1>6. p \in Nat /\ (r = 0 => p = 0) /\ (r > 0 => p >= Step)
      /\ (r < Count => p <= Circle - Step) /\ (Count <= r => p >= Circle)
    <2>1. p \in Nat /\ (r = 0 => p = 0)
        BY <1>1, <1>5
    <2>2. r > 0 => p >= Step
        <3>1. r > 0 => 1 * Step <= r * Step /\ 1 * Step = Step
            BY <1>1, <1>5, ProductMonotone
        <3> QED
            BY <3>1
    <2>3. r < Count => p <= Circle - Step
        <3>1. r < Count => (r + 1) * Step <= Count * Step
            BY <1>1, <1>2, <1>5, ProductMonotone
        <3>2. (r + 1) * Step = r * Step + Step
            BY <1>1, <1>5, ProductNext
        <3> HIDE DEF r
        <3> QED
            BY <1>1, <1>2, <2>1, <3>1, <3>2
    <2>4. Count <= r => p >= Circle
        BY <1>1, <1>2, <1>5, ProductMonotone
    <2> QED
        BY <2>1, <2>2, <2>3, <2>4
<1>7. DestIndex(a, cw) = IF Count <= r THEN 0 ELSE r
    BY DestIndexRounds
<1>8. Normalised(Pi) = -Pi
    <2>1. (Pi + Pi) % Circle = 0
        <3>1. Pi + Pi = Circle /\ Circle \in Nat /\ Circle > 0
            BY <1>1
        <3>2. Circle % Circle = 0
            BY <3>1
        <3> QED
            BY <3>1, <3>2
    <2> QED
        BY <1>1, <2>1 DEF Normalised
<1>9. Normalised(-Pi) = -Pi
    BY <1>1, NormalisedSame
<1> HIDE DEF diff, r, p
<1>10. CASE Count <= r
    <2>1. BeamAngle(DestIndex(a, cw), cw) = -Pi
        <3>1. AngleMin(cw) + AngleIncrement(cw) * 0 = IF cw THEN Pi ELSE -Pi
            BY <1>1 DEF AngleMin, AngleIncrement
        <3> QED
            BY <1>7, <1>8, <1>9, <1>10, <3>1 DEF BeamAngle
    <2>2. Distance(a, -Pi) = a + Pi
        BY <1>1 DEF Distance
    <2>3. 2 * diff >= 2 * Circle - Step
        BY <1>1, <1>4, <1>5, <1>6, <1>10
    <2> QED
        BY <1>1, <1>3, <1>4, <2>1, <2>2, <2>3 DEF Closeness
<1>11. CASE r < Count /\ cw /\ r = 0
    <2>1. BeamAngle(DestIndex(a, cw), cw) = -Pi
        <3>1. AngleMin(cw) + AngleIncrement(cw) * 0 = Pi
            BY <1>1, <1>11 DEF AngleMin, AngleIncrement
        <3> QED
            BY <1>2, <1>7, <1>8, <1>11, <3>1 DEF BeamAngle
    <2>2. Distance(a, -Pi) = a + Pi
        BY <1>1 DEF Distance
    <2>3. 2 * diff <= Step
        BY <1>1, <1>4, <1>5, <1>6, <1>11
    <2>4. diff = Pi - a /\ diff > 0 /\ diff <= Pi
        BY <1>1, <1>3, <1>4, <1>11, <2>3
    <2>5. Closeness(a, -Pi) = diff
        BY <1>1, <2>2, <2>4 DEF Closeness
    <2> QED
        BY <2>1, <2>3, <2>5
<1>12. CASE r < Count /\ ~(cw /\ r = 0)
    <2> DEFINE dest == IF cw THEN Pi - p ELSE p - Pi
    <2>1. BeamAngle(DestIndex(a, cw), cw) = dest
        <3>1. AngleMin(cw) + AngleIncrement(cw) * r = dest
            <4>1. (-Step) * r = -p /\ Step * r = p
                BY <1>1, <1>5 DEF p
            <4> QED
                BY <1>1, <1>6, <4>1 DEF AngleMin, AngleIncrement
        <3>2. dest \in (-Pi)..(Pi - 1)
            BY <1>1, <1>5, <1>6, <1>12
        <3> QED
            BY <1>5, <1>2, <1>7, <1>12, <3>1, <3>2, NormalisedSame DEF BeamAngle
    <2>2. Distance(a, dest) = IF diff <= p THEN p - diff ELSE diff - p
        BY <1>1, <1>4, <1>6 DEF Distance
    <2>3. 2 * Distance(a, dest) <= Step /\ Distance(a, dest) \in Nat
        BY <1>1, <1>4, <1>5, <1>6, <2>2
    <2> HIDE DEF dest
    <2> QED
        BY <1>1, <1>3, <2>1, <2>3 DEF Closeness
<1> QED
    BY <1>2, <1>5, <1>10, <1>11, <1>12
-----------------------------------------------------------------------------
\* What FillPoint relies on: the angle remembered for a beam is that of the
\* point shown on it.
AnglesKept ==
    done # NotFilling => \A beam \in Beams : ranges[beam] # 0 =>
        tmpSrcAngles[beam] = Normalised(Nth(ranges[beam]).angle)

\* A raw scan that is being filled or has been published was taken.
RawTaken ==
    /\ raw /\ (published > 0 \/ done # NotFilling) => latestLidarStartTimestamp = stamp
    /\ raw /\ done # NotFilling => published = 0
    /\ done # NotFilling => compensate /\ Len(points) >= 2

IInv == TypeOK /\ ClosestShown /\ AnglesKept /\ RawTaken /\ RawOnce /\ TurnsAsSaid

LEMMA EmptyTyped ==
    /\ \A n \in Nat : Empty \in [Beams -> 0..n]
    /\ Empty \in [Beams -> (-Pi)..(Pi - 1)]
BY PiPositive DEF Empty

LEMMA InitIInv == Init => IInv
<1> SUFFICES ASSUME Init PROVE IInv
    OBVIOUS
<1> USE DEF Init
<1>1. points \in Seq(Point) /\ Len(points) = 0
    OBVIOUS
<1>2. TypeOK
    <2>1. ranges \in [Beams -> 0..Len(points)] /\ tmpSrcAngles \in [Beams -> (-Pi)..(Pi - 1)]
        BY <1>1, EmptyTyped
    <2>2. stamp \in 1..MaxScans /\ latestLidarStartTimestamp \in 0..MaxScans
        BY LaserAssumption
    <2>3. done \in {NotFilling} \cup 0..Len(points)
        BY Zenon
    <2>4. raw \in BOOLEAN /\ clockwise \in BOOLEAN /\ compensate \in BOOLEAN /\ reverse \in BOOLEAN
        BY Zenon
    <2>5. published \in 0..2
        <3>1. published = 0
            BY Zenon
        <3> HIDE DEF Init
        <3> QED
            BY <3>1, SMT
    <2> HIDE DEF Init
    <2> QED
        BY <1>1, <2>1, <2>2, <2>3, <2>4, <2>5 DEF TypeOK
<1> QED
    BY <1>2 DEF IInv, ClosestShown, AnglesKept, RawTaken, RawOnce, TurnsAsSaid, NotFilling

\* The k-th point gone through is a point of the scan.
LEMMA NthIsPoint ==
    ASSUME TypeOK, NEW k \in 1..Len(points)
    PROVE  /\ Nth(k) \in Point /\ Nth(k).angle \in Int
           /\ Normalised(Nth(k).angle) \in (-Pi)..(Pi - 1)
           /\ DestIndex(Normalised(Nth(k).angle), clockwise) \in Beams
<1>1. Nth(k) \in Point
    BY DEF TypeOK, Nth
<1>2. Nth(k).angle \in Int
    BY <1>1, LaserAssumption DEF Point
<1> QED
    BY <1>1, <1>2, NormalisedRange, DestIndexIsBeam DEF TypeOK

LEMMA GapIsNat ==
    ASSUME TypeOK, NEW k \in 1..Len(points), NEW beam \in Beams
    PROVE  Gap(k, beam) \in Int
<1>1. Normalised(Nth(k).angle) \in Int
    BY NthIsPoint, PiPositive
<1>2. AngleMin(clockwise) + AngleIncrement(clockwise) * beam \in Int
    BY PiPositive DEF AngleMin, AngleIncrement, Beams
<1>3. BeamAngle(beam, clockwise) \in Int
    BY <1>2, NormalisedRange, PiPositive DEF BeamAngle
<1> HIDE DEF AngleMin, AngleIncrement
<1>4. \A a, b \in Int : Closeness(a, b) \in Int
    BY PiPositive DEF Closeness, Distance, Circle
<1> QED
    BY <1>1, <1>3, <1>4 DEF Gap

(***************************************************************************)
(* One more point: only its own beam can change, and it changes exactly    *)
(* when the point is the first on it or closer than the one shown.         *)
(***************************************************************************)
LEMMA FillPointKeeps == ASSUME IInv, FillPoint PROVE IInv'
<1> USE DEF IInv
<1> DEFINE k == done + 1
           angle == Normalised(Nth(k).angle)
           beam == DestIndex(angle, clockwise)
           write == Nth(k).valid /\ ShouldWrite(angle, beam)
<1>1. done \in Nat /\ Len(points) \in Nat /\ k \in 1..Len(points) /\ done' = k
      /\ k = done + 1
    BY DEF FillPoint, TypeOK, NotFilling
<1>2. UNCHANGED <<raw, clockwise, compensate, stamp, points, latestLidarStartTimestamp,
                  reverse, published>>
    BY DEF FillPoint, params
<1>3. angle \in (-Pi)..(Pi - 1) /\ beam \in Beams
    BY <1>1, NthIsPoint
<1>4. IF write THEN /\ ranges' = [ranges EXCEPT ![beam] = k]
                    /\ tmpSrcAngles' = [tmpSrcAngles EXCEPT ![beam] = angle]
               ELSE UNCHANGED <<ranges, tmpSrcAngles>>
    BY DEF FillPoint
<1>5. /\ ranges \in [Beams -> 0..Len(points)] /\ tmpSrcAngles \in [Beams -> (-Pi)..(Pi - 1)]
      /\ done # NotFilling /\ done' # NotFilling
    BY <1>1 DEF TypeOK, FillPoint, NotFilling
<1>6. \A b \in Beams : ranges'[b] = (IF write /\ b = beam THEN k ELSE ranges[b])
                      /\ tmpSrcAngles'[b] = (IF write /\ b = beam THEN angle ELSE tmpSrcAngles[b])
    BY <1>3, <1>4, <1>5
<1>7. TypeOK'
    <2>1. ranges' \in [Beams -> 0..Len(points)]
        <3>1. k \in 0..Len(points)
            BY <1>1
        <3> HIDE DEF k, beam, angle, write
        <3> QED
            BY <1>3, <1>4, <1>5, <3>1
    <2>2. tmpSrcAngles' \in [Beams -> (-Pi)..(Pi - 1)]
        BY <1>3, <1>4, <1>5
    <2> QED
        BY <1>1, <1>2, <2>1, <2>2 DEF TypeOK
<1>8. RawTaken' /\ RawOnce' /\ TurnsAsSaid'
    BY <1>1, <1>2, <1>5 DEF RawTaken, RawOnce, TurnsAsSaid, Nth
<1>9. \A j : Nth(j)' = Nth(j)
    BY <1>2 DEF Nth
<1>10. AnglesKept'
    BY <1>2, <1>5, <1>6, <1>9 DEF AnglesKept
<1>11. \A b \in Beams : Hits(b)' = Hits(b) \cup (IF Nth(k).valid /\ b = beam THEN {k} ELSE {})
    <2> TAKE b \in Beams
    <2>1. Hits(b)' = {j \in 1..k : Nth(j).valid
                        /\ DestIndex(Normalised(Nth(j).angle), clockwise) = b}
        BY <1>1, <1>2, <1>9 DEF Hits
    <2>2. 1..k = (1..done) \cup {k}
        BY <1>1
    <2> QED
        BY <2>1, <2>2 DEF Hits
<1>12. \A j, b : Gap(j, b)' = Gap(j, b)
    BY <1>2, <1>9 DEF Gap
<1>13. \A b \in Beams : Hits(b) \subseteq 1..done
    BY DEF Hits
<1>14. k \notin 1..done
    BY <1>1
<1>15. ShouldWrite(angle, beam) <=>
          ranges[beam] = 0 \/ Gap(k, beam) < Gap(ranges[beam], beam)
    BY <1>3, <1>5 DEF ShouldWrite, MoreClose, AnglesKept, Gap
<1>16. \A j \in 1..k : Gap(j, beam) \in Int
    BY <1>1, <1>3, GapIsNat
<1> HIDE DEF k, angle, beam
<1>17. ASSUME NEW b \in Beams
       PROVE  IF Hits(b)' = {} THEN ranges'[b] = 0
              ELSE /\ ranges'[b] \in Hits(b)'
                   /\ \A j \in Hits(b)' :
                        \/ Gap(ranges'[b], b) < Gap(j, b)
                        \/ Gap(ranges'[b], b) = Gap(j, b) /\ ranges'[b] <= j
    <2>1. IF Hits(b) = {} THEN ranges[b] = 0
          ELSE /\ ranges[b] \in Hits(b)
               /\ \A j \in Hits(b) :
                    \/ Gap(ranges[b], b) < Gap(j, b)
                    \/ Gap(ranges[b], b) = Gap(j, b) /\ ranges[b] <= j
        BY <1>5 DEF ClosestShown
    <2>2. CASE ~(Nth(k).valid /\ b = beam)
        BY <1>6, <1>11, <2>1, <2>2
    <2>3. CASE Nth(k).valid /\ b = beam
        <3>1. Hits(b)' = Hits(b) \cup {k}
            BY <1>11, <2>3
        <3>2. CASE ranges[b] = 0
            <4>1. Hits(b) = {}
                BY <1>1, <1>13, <2>1, <3>2
            <4>2. ranges'[b] = k
                BY <1>6, <1>15, <2>3, <3>2
            <4> QED
                BY <1>1, <3>1, <4>1, <4>2
        <3>3. CASE ranges[b] # 0 /\ Gap(k, b) < Gap(ranges[b], b)
            <4>1. ranges'[b] = k
                BY <1>6, <1>15, <2>3, <3>3
            <4>2. \A j \in Hits(b) : Gap(k, b) < Gap(j, b)
                <5> TAKE j \in Hits(b)
                <5>1. j \in 1..k /\ ranges[b] \in 1..k /\ k \in 1..k
                    <6>1. j \in 1..done /\ ranges[b] \in 1..done
                        BY <1>13, <2>1
                    <6> QED
                        BY <1>1, <6>1
                <5>2. Gap(j, b) \in Int /\ Gap(ranges[b], b) \in Int /\ Gap(k, b) \in Int
                    BY <1>16, <2>3, <5>1
                <5>3. Gap(ranges[b], b) < Gap(j, b) \/ Gap(ranges[b], b) = Gap(j, b)
                    BY <2>1
                <5> QED
                    BY <3>3, <5>2, <5>3
            <4> QED
                BY <1>1, <3>1, <4>1, <4>2
        <3>4. CASE ranges[b] # 0 /\ ~(Gap(k, b) < Gap(ranges[b], b))
            <4>1. ranges'[b] = ranges[b] /\ ranges[b] \in Hits(b)
                BY <1>6, <1>15, <2>1, <2>3, <3>4
            <4>2. ranges[b] \in 1..done
                BY <1>13, <4>1
            <4>3. \/ Gap(ranges[b], b) < Gap(k, b)
                  \/ Gap(ranges[b], b) = Gap(k, b) /\ ranges[b] <= k
                <5>1. ranges[b] \in 1..k /\ k \in 1..k /\ ranges[b] <= k
                    BY <1>1, <4>2
                <5>2. Gap(ranges[b], b) \in Int /\ Gap(k, b) \in Int
                    BY <1>16, <2>3, <5>1
                <5> QED
                    BY <3>4, <5>1, <5>2
            <4> QED
                BY <2>1, <3>1, <4>1, <4>3
        <3> QED
            BY <3>2, <3>3, <3>4
    <2> QED
        BY <2>2, <2>3
<1>18. ClosestShown'
    BY <1>5, <1>12, <1>17 DEF ClosestShown
<1> QED
    BY <1>7, <1>8, <1>10, <1>18

-----------------------------------------------------------------------------
\* A worker that looks at the scan changes only whether it was taken.
LEMMA TakeTyped ==
    ASSUME TypeOK, Take
    PROVE  /\ latestLidarStartTimestamp' \in 0..MaxScans
           /\ raw => latestLidarStartTimestamp' = stamp
           /\ ~raw => latestLidarStartTimestamp' = latestLidarStartTimestamp
BY LaserAssumption DEF TypeOK, Take

LEMMA NewScanKeeps == ASSUME IInv, NewScan PROVE IInv'
<1> USE DEF IInv
<1>1. points' \in Seq(Point)
    BY DEF NewScan, Scans
<1>2. Len(points') \in Nat
    BY <1>1
<1>3. ranges' \in [Beams -> 0..Len(points')] /\ tmpSrcAngles' \in [Beams -> (-Pi)..(Pi - 1)]
    BY <1>2, EmptyTyped DEF NewScan
<1>4. stamp' \in 1..MaxScans
    BY LaserAssumption DEF NewScan, TypeOK
<1>5. done' = NotFilling /\ published' = 0 /\ UNCHANGED params
      /\ UNCHANGED <<latestLidarStartTimestamp, reverse>>
    BY DEF NewScan
<1>6. TypeOK'
    BY <1>1, <1>3, <1>4, <1>5 DEF TypeOK, params
<1> QED
    BY <1>5, <1>6 DEF ClosestShown, AnglesKept, RawTaken, RawOnce, TurnsAsSaid

LEMMA SkipSmallScanKeeps == ASSUME IInv, SkipSmallScan PROVE IInv'
<1> USE DEF IInv
<1>1. UNCHANGED <<params, stamp, points, reverse, done, ranges, tmpSrcAngles, published>>
      /\ done = NotFilling
    BY DEF SkipSmallScan, Take
<1>2. TypeOK'
    BY <1>1, TakeTyped DEF SkipSmallScan, TypeOK, params
<1>3. RawTaken'
    BY <1>1, TakeTyped DEF SkipSmallScan, RawTaken, params
<1>4. TurnsAsSaid' /\ RawOnce'
    BY <1>1 DEF TurnsAsSaid, Nth, RawOnce, params
<1> QED
    BY <1>1, <1>2, <1>3, <1>4 DEF ClosestShown, AnglesKept

LEMMA BeginCompensationKeeps == ASSUME IInv, BeginCompensation PROVE IInv'
<1> USE DEF IInv
<1>1. /\ UNCHANGED <<params, stamp, points, published>>
      /\ ranges' = Empty /\ tmpSrcAngles' = Empty /\ done' = 0 /\ reverse' = Reversed
      /\ compensate /\ Len(points) >= 2 /\ Len(points) \in Nat
    BY DEF BeginCompensation, TypeOK
<1>2. TypeOK'
    <2>1. ranges' \in [Beams -> 0..Len(points')] /\ tmpSrcAngles' \in [Beams -> (-Pi)..(Pi - 1)]
        BY <1>1, EmptyTyped
    <2>2. reverse' \in BOOLEAN
        BY <1>1 DEF Reversed
    <2>3. done' \in {NotFilling} \cup 0..Len(points')
        BY <1>1
    <2> QED
        BY <1>1, <2>1, <2>2, <2>3, TakeTyped DEF BeginCompensation, TypeOK, params
<1>3. ClosestShown'
    <2>1. \A b \in Beams : Hits(b)' = {} /\ ranges'[b] = 0
        <3>1. 1..0 = {}
            OBVIOUS
        <3> QED
            BY <1>1, <3>1 DEF Hits, Empty
    <2> QED
        BY <2>1 DEF ClosestShown
<1>4. AnglesKept'
    BY <1>1 DEF AnglesKept, Empty
<1>5. raw => published = 0 /\ latestLidarStartTimestamp' = stamp
    <2>1. raw => latestLidarStartTimestamp # stamp /\ latestLidarStartTimestamp' = stamp
        BY DEF BeginCompensation, Take
    <2>2. published \in Nat
        BY DEF TypeOK
    <2> QED
        BY <2>1, <2>2 DEF RawTaken
<1>6. RawTaken' /\ RawOnce' /\ TurnsAsSaid'
    BY <1>1, <1>5 DEF RawTaken, RawOnce, TurnsAsSaid, params
<1> QED
    BY <1>2, <1>3, <1>4, <1>6

LEMMA PublishCompensatedKeeps == ASSUME IInv, PublishCompensated PROVE IInv'
<1> USE DEF IInv
<1>1. /\ UNCHANGED <<params, stamp, points, latestLidarStartTimestamp, reverse, ranges,
                     tmpSrcAngles>>
      /\ done' = NotFilling /\ PublishOnce
    BY DEF PublishCompensated
<1>2. done # NotFilling
    BY DEF PublishCompensated, TypeOK, NotFilling
<1>3. published' \in 0..2 /\ (published = 0 => published' = 1)
    BY <1>1 DEF PublishOnce, TypeOK
<1>4. TypeOK'
    BY <1>1, <1>3 DEF TypeOK, params
<1>5. RawTaken' /\ RawOnce' /\ TurnsAsSaid'
    BY <1>1, <1>2, <1>3 DEF RawTaken, RawOnce, TurnsAsSaid, params
<1> QED
    BY <1>1, <1>4, <1>5 DEF ClosestShown, AnglesKept

(***************************************************************************)
(* Beam by beam: the points are gone through from the end the direction    *)
(* asks for.                                                               *)
(***************************************************************************)
LEMMA PublishOriginalKeeps == ASSUME IInv, PublishOriginal PROVE IInv'
<1> USE DEF IInv
<1>1. /\ UNCHANGED <<params, stamp, points, done, ranges, tmpSrcAngles>>
      /\ done = NotFilling /\ ~compensate /\ Len(points) >= 2 /\ Len(points) \in Nat
      /\ reverse' = Reversed /\ PublishOnce
    BY DEF PublishOriginal, Take, TypeOK
<1>2. published' \in 0..2 /\ (published = 0 => published' = 1)
    BY <1>1 DEF PublishOnce, TypeOK
<1>3. TypeOK'
    <2>1. reverse' \in BOOLEAN
        BY <1>1 DEF Reversed
    <2> QED
        BY <1>1, <1>2, <2>1, TakeTyped DEF PublishOriginal, TypeOK, params
<1>4. raw => published = 0 /\ latestLidarStartTimestamp' = stamp
    <2>1. raw => latestLidarStartTimestamp # stamp /\ latestLidarStartTimestamp' = stamp
        BY DEF PublishOriginal, Take
    <2>2. published \in Nat
        BY DEF TypeOK
    <2> QED
        BY <2>1, <2>2 DEF RawTaken
<1>5. RawTaken' /\ RawOnce'
    BY <1>1, <1>2, <1>4 DEF RawTaken, RawOnce, params
<1>6. TurnsAsSaid'
    <2>1. Nth(1)' = IF Reversed THEN points[Len(points)] ELSE points[1]
        BY <1>1 DEF Nth
    <2>2. Nth(Len(points))' = IF Reversed THEN points[1] ELSE points[Len(points)]
        BY <1>1 DEF Nth
    <2>3. First \in Int /\ Last \in Int
        <3>1. points[1] \in Point /\ points[Len(points)] \in Point
            BY <1>1 DEF TypeOK
        <3> QED
            BY <3>1, LaserAssumption DEF Point, First, Last
    <2>4. IF clockwise THEN Nth(Len(points))'.angle <= Nth(1)'.angle
          ELSE Nth(1)'.angle <= Nth(Len(points))'.angle
        BY <2>1, <2>2, <2>3 DEF Reversed, First, Last
    <2> QED
        BY <1>1, <2>4 DEF TurnsAsSaid, Nth, params
<1> QED
    BY <1>1, <1>3, <1>5, <1>6 DEF ClosestShown, AnglesKept

LEMMA StutterKeeps == ASSUME IInv, UNCHANGED vars PROVE IInv'
BY DEF IInv, vars, params, TypeOK, ClosestShown, AnglesKept, RawTaken, RawOnce,
       TurnsAsSaid, Hits, Gap, Nth

LEMMA Invariance == Spec => []IInv
<1>1. IInv /\ [Next]_vars => IInv'
    BY NewScanKeeps, SkipSmallScanKeeps, BeginCompensationKeeps, FillPointKeeps,
       PublishCompensatedKeeps, PublishOriginalKeeps, StutterKeeps DEF Next
<1> QED
    BY InitIInv, <1>1, PTL DEF Spec

(***************************************************************************)
(* Every variable keeps its type: no beam index leaves the message and no  *)
(* angle leaves the circle, whatever angles the lidar gives.               *)
(***************************************************************************)
THEOREM TypeCorrect == Spec => []TypeOK
<1>1. IInv => TypeOK
    BY DEF IInv
<1> QED
    BY Invariance, <1>1, PTL

(***************************************************************************)
(* A beam of the compensated scan shows the closest of the points on it.   *)
(***************************************************************************)
THEOREM ClosestIsShown == Spec => []ClosestShown
<1>1. IInv => ClosestShown
    BY DEF IInv
<1> QED
    BY Invariance, <1>1, PTL

(***************************************************************************)
(* The angle the message gives a beam is at most half a step from the      *)
(* angle measured, for any number of beams and in both directions.         *)
(***************************************************************************)
THEOREM BeamsAreNear == Spec => []WithinHalfStep
<1>1. ASSUME IInv PROVE WithinHalfStep
    <2> SUFFICES ASSUME done # NotFilling, NEW b \in Beams, ranges[b] # 0
                 PROVE  2 * Gap(ranges[b], b) <= Step
        BY DEF WithinHalfStep
    <2>1. ranges[b] \in Hits(b)
        BY <1>1 DEF IInv, ClosestShown
    <2>2. ranges[b] \in 1..Len(points)
        BY <1>1 DEF IInv, TypeOK
    <2> DEFINE angle == Normalised(Nth(ranges[b]).angle)
    <2>3. angle \in (-Pi)..(Pi - 1) /\ clockwise \in BOOLEAN
        BY <1>1, <2>2, NthIsPoint DEF IInv, TypeOK
    <2>4. DestIndex(angle, clockwise) = b
        BY <2>1 DEF Hits
    <2> QED
        BY <2>3, <2>4, BeamIsNear DEF Gap
<1> QED
    BY Invariance, <1>1, PTL

(***************************************************************************)
(* The lidar's raw scan is published at most once.                         *)
(***************************************************************************)
THEOREM RawScanOnce == Spec => []RawOnce
<1>1. IInv => RawOnce
    BY DEF IInv
<1> QED
    BY Invariance, <1>1, PTL

(***************************************************************************)
(* A scan published beam by beam turns the way the parameter says.         *)
(***************************************************************************)
THEOREM DirectionAsSaid == Spec => []TurnsAsSaid
<1>1. IInv => TurnsAsSaid
    BY DEF IInv
<1> QED
    BY Invariance, <1>1, PTL
=============================================================================
