---------------------------- MODULE MC_SdkServer ----------------------------
(***************************************************************************)
(* Two workers, the first one eager (Odometry), the second one not         *)
(* (ReadEvents), and three connections: the one in use, the one a callback *)
(* still holds and the one about to be made.                               *)
(***************************************************************************)
EXTENDS SdkServer

CONSTANTS c1, c2, c3

MCConn == {c1, c2, c3}
MCCalling == {1, 2}
MCEager == {1}
=============================================================================
