---------------------------- MODULE MC_LaserScan ----------------------------
(***************************************************************************)
(* Four beams of four units: points on a beam, a quarter and half a step   *)
(* off it on either side, at the seam and beyond it, three to a scan, so   *)
(* that three can meet on one beam.                                        *)
(***************************************************************************)
EXTENDS LaserScan

MCAngles == {-8, -7, -6, -2, -1, 0, 1, 2, 6, 7, 8, 15}
=============================================================================
