---------------------------- MODULE MC_VoicePick ----------------------------
(***************************************************************************)
(* Plans of one and two actions: a full transport, a pick whose object     *)
(* stays in the gripper, a place on its own, one action the code does not  *)
(* know and one it cannot read.                                            *)
(***************************************************************************)
EXTENDS VoicePick

MCPlans == {<<"pick", "place">>, <<"navigate", "pick">>, <<"place">>,
            <<"other">>, <<"broken">>}
=============================================================================
