------------------------- MODULE MC_VelocityControl -------------------------
(* Three connections: one lost while the action is used, one lost while the *)
(* next action is made, one to recover on.                                  *)
EXTENDS VelocityControl
=============================================================================
