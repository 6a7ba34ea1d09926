----------------------------- MODULE MC_MapSync -----------------------------
(***************************************************************************)
(* Two tiles, so that a scan can be interrupted half way, two resolutions  *)
(* and a second connection.                                                *)
(***************************************************************************)
EXTENDS MapSync

MCResolution == {5, 10}
=============================================================================
