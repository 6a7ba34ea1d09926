-------------------------- MODULE MC_WorkerSchedule -------------------------
(***************************************************************************)
(* Four workers: one whose interval is no longer than a slow doPerform,    *)
(* two in between, one whose interval is longer than the longest sleep.    *)
(***************************************************************************)
EXTENDS WorkerSchedule

MCInterval == <<2, 5, 9, 15>>
=============================================================================
