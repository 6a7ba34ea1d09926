------------------------------ MODULE LaserScan ------------------------------
(***************************************************************************)
(* The LaserScan worker: it takes a scan of the robot and publishes it     *)
(* either beam by beam or compensated to Count beams of equal step, where  *)
(* each beam shows the measured point closest to its angle.  Angles are    *)
(* integers in a unit that divides half the step; the circle is Count      *)
(* steps.  A valid point has a finite distance: an infinite range in the   *)
(* message says that its beam has no point yet.                            *)
(***************************************************************************)
EXTENDS Integers, Sequences

CONSTANTS Count,        \* compensatedAngleCnt_
          HalfStep,     \* half of absAngleIncrement_, in units
          Angles,       \* angles of measured points
          MaxPoints,    \* points of a scan
          MaxScans      \* scans the robot takes in one behaviour

ASSUME LaserAssumption ==
    /\ Count \in Nat /\ Count > 0
    /\ HalfStep \in Nat /\ HalfStep > 0
    /\ Angles \subseteq Int
    /\ MaxPoints \in Nat /\ MaxScans \in Nat /\ MaxScans > 0

Step == 2 * HalfStep
Pi == Count * HalfStep
Circle == 2 * Pi
Beams == 0..(Count - 1)

-----------------------------------------------------------------------------
(* Angles and beams. *)

\* Into -Pi..Pi-1.
Normalised(angle) == ((angle + Pi) % Circle) - Pi

AngleMin(clockwise) == IF clockwise THEN Pi ELSE -Pi
AngleIncrement(clockwise) == IF clockwise THEN -Step ELSE Step

\* Seeded fault: the index wraps only beyond the last beam but one.
DestIndexUnwrapped(angle, clockwise) ==
    LET diff == IF clockwise THEN Pi - angle ELSE angle + Pi
        idx == (2 * diff + Step) \div (2 * Step)
    IN  IF Count <= idx THEN Count - 1 ELSE idx

\* The beam of an angle: the nearest one, halves away from the first.
DestIndex(angle, clockwise) ==
    LET diff == IF clockwise THEN Pi - angle ELSE angle + Pi
        idx == (2 * diff + Step) \div (2 * Step)
    IN  IF Count <= idx THEN 0 ELSE idx

BeamAngle(beam, clockwise) ==
    Normalised(AngleMin(clockwise) + AngleIncrement(clockwise) * beam)

Distance(a, b) == IF a <= b THEN b - a ELSE a - b

\* Along the circle.
Closeness(angle, dest) ==
    LET diff == Distance(angle, dest)
    IN  IF Circle <= diff THEN 0 ELSE IF Pi < diff THEN Circle - diff ELSE diff

MoreClose(angle, dest, oldAngle) == Closeness(angle, dest) < Closeness(oldAngle, dest)

-----------------------------------------------------------------------------
Point == [angle : Angles, valid : BOOLEAN]

VARIABLES
    raw, clockwise, compensate,   \* raw_ladar_data, ladar_data_clockwise, angle_compensate
    stamp, points,                \* the robot's latest scan
    latestLidarStartTimestamp,
    reverse,                      \* the points are gone through from the last
    done,                         \* points gone through, or NotFilling
    ranges,                       \* beam -> the point shown, in the order gone
                                  \* through, 0 for infinity
    tmpSrcAngles,                 \* beam -> angle of that point
    published                     \* times this scan was published, up to 2

params == <<raw, clockwise, compensate>>
vars == <<params, stamp, points, latestLidarStartTimestamp, reverse, done, ranges,
          tmpSrcAngles, published>>

NotFilling == -1

TypeOK ==
    /\ raw \in BOOLEAN /\ clockwise \in BOOLEAN /\ compensate \in BOOLEAN
    /\ stamp \in 1..MaxScans
    /\ points \in Seq(Point)
    /\ latestLidarStartTimestamp \in 0..MaxScans
    /\ reverse \in BOOLEAN
    /\ done \in {NotFilling} \cup 0..Len(points)
    /\ ranges \in [Beams -> 0..Len(points)]
    /\ tmpSrcAngles \in [Beams -> (-Pi)..(Pi - 1)]
    /\ published \in 0..2

Scans == UNION {[1..n -> Point] : n \in 0..MaxPoints}
Empty == [b \in Beams |-> 0]

Init ==
    /\ raw \in BOOLEAN /\ clockwise \in BOOLEAN /\ compensate \in BOOLEAN
    /\ stamp = 1 /\ points = <<>>
    /\ latestLidarStartTimestamp = 0
    /\ reverse = FALSE /\ done = NotFilling
    /\ ranges = Empty /\ tmpSrcAngles = Empty
    /\ published = 0

\* The lidar turns once more.
NewScan ==
    /\ done = NotFilling /\ stamp < MaxScans
    /\ stamp' = stamp + 1
    /\ points' \in Scans
    /\ published' = 0
    /\ ranges' = Empty /\ tmpSrcAngles' = Empty
    /\ UNCHANGED <<params, latestLidarStartTimestamp, reverse, done>>

First == points[1].angle
Last == points[Len(points)].angle

\* Seeded fault: only the clockwise case is thought of.
ReversedClockwiseOnly == Last > First /\ clockwise

\* isLaserDataReverse
Reversed ==
    \/ Last < First /\ ~clockwise
    \/ Last > First /\ clockwise

\* The k-th point gone through.
Nth(k) == points[IF reverse THEN Len(points) - k + 1 ELSE k]

PublishOnce == published' = IF published = 2 THEN 2 ELSE published + 1

\* Seeded fault: the start time is not compared.
TakeAgain ==
    /\ done = NotFilling
    /\ latestLidarStartTimestamp' = IF raw THEN stamp ELSE latestLidarStartTimestamp

\* A raw scan is taken once; any other as often as the worker runs.
Take ==
    /\ done = NotFilling
    /\ raw => latestLidarStartTimestamp # stamp
    /\ latestLidarStartTimestamp' = IF raw THEN stamp ELSE latestLidarStartTimestamp

SkipSmallScan ==
    /\ Take
    /\ Len(points) < 2
    /\ UNCHANGED <<params, stamp, points, reverse, done, ranges, tmpSrcAngles, published>>

BeginCompensation ==
    /\ Take
    /\ Len(points) >= 2 /\ compensate
    /\ reverse' = Reversed
    /\ done' = 0
    /\ ranges' = Empty
    /\ tmpSrcAngles' = Empty
    /\ UNCHANGED <<params, stamp, points, published>>

\* Seeded fault: the later point wins.
ShouldWriteAlways(angle, beam) == TRUE

ShouldWrite(angle, beam) ==
    \/ ranges[beam] = 0
    \/ MoreClose(angle, BeamAngle(beam, clockwise), tmpSrcAngles[beam])

\* compensateAndfillRangeInMsg_ on the next point.
FillPoint ==
    /\ done # NotFilling /\ done < Len(points)
    /\ done' = done + 1
    /\ LET angle == Normalised(Nth(done + 1).angle)
           beam == DestIndex(angle, clockwise)
       IN  IF Nth(done + 1).valid /\ ShouldWrite(angle, beam)
             THEN /\ ranges' = [ranges EXCEPT ![beam] = done + 1]
                  /\ tmpSrcAngles' = [tmpSrcAngles EXCEPT ![beam] = angle]
             ELSE UNCHANGED <<ranges, tmpSrcAngles>>
    /\ UNCHANGED <<params, stamp, points, latestLidarStartTimestamp, reverse, published>>

PublishCompensated ==
    /\ done = Len(points)
    /\ done' = NotFilling
    /\ PublishOnce
    /\ UNCHANGED <<params, stamp, points, latestLidarStartTimestamp, reverse, ranges,
                   tmpSrcAngles>>

\* fillOriginalRangesInMsg_: the points in the order gone through, the first
\* and the last angle with them.
PublishOriginal ==
    /\ Take
    /\ Len(points) >= 2 /\ ~compensate
    /\ reverse' = Reversed
    /\ PublishOnce
    /\ UNCHANGED <<params, stamp, points, done, ranges, tmpSrcAngles>>

Next ==
    \/ NewScan
    \/ SkipSmallScan \/ BeginCompensation \/ FillPoint \/ PublishCompensated
    \/ PublishOriginal

Spec == Init /\ [][Next]_vars

-----------------------------------------------------------------------------
\* The points gone through that fall on a beam.
Hits(beam) ==
    {k \in 1..done : /\ Nth(k).valid
                     /\ DestIndex(Normalised(Nth(k).angle), clockwise) = beam}
Gap(k, beam) == Closeness(Normalised(Nth(k).angle), BeamAngle(beam, clockwise))

\* At every point of the pass a beam shows infinity when no valid point falls
\* on it, else the closest of those gone through, the first one of equals:
\* compensateAndfillRangeInMsg_ loses no point to one further away, and the
\* stale 0 of tmpSrcAngles never decides.
ClosestShown ==
    done # NotFilling =>
      \A beam \in Beams :
        IF Hits(beam) = {} THEN ranges[beam] = 0
        ELSE /\ ranges[beam] \in Hits(beam)
             /\ \A k \in Hits(beam) :
                  \/ Gap(ranges[beam], beam) < Gap(k, beam)
                  \/ Gap(ranges[beam], beam) = Gap(k, beam) /\ ranges[beam] <= k

\* The angle the message gives a beam (angle_min + beam * angle_increment, both
\* directions, across the seam at Pi) is at most half a step from the angle of
\* the point shown: the index and the angles of the message agree.
WithinHalfStep ==
    done # NotFilling =>
      \A beam \in Beams :
        ranges[beam] # 0 => 2 * Gap(ranges[beam], beam) <= Step

\* A raw scan is published at most once, however often the worker runs.
RawOnce == raw => published <= 1

\* What is published beam by beam turns the way ladar_data_clockwise says:
\* angle_max lies beyond angle_min in that direction.
TurnsAsSaid ==
    published > 0 /\ ~compensate =>
      LET angle_min == Nth(1).angle
          angle_max == Nth(Len(points)).angle
      IN  IF clockwise THEN angle_max <= angle_min ELSE angle_min <= angle_max
=============================================================================
