--------------------------- MODULE VelocityControl ---------------------------
(***************************************************************************)
(* The two velocity topics of the node: cmd_vel (movement monitored by the *)
(* robot) and cmd_vel_no_limit (not monitored).  Their callbacks share one *)
(* action object, velocityControllAction_.  The message that finds it      *)
(* empty only constructs the action and is dropped; the object outlives    *)
(* the connection it was made on.  The callbacks reach the platform as the *)
(* member slamwarePltfm_, without its lock, while the work thread replaces *)
(* it after a lost connection.                                             *)
(***************************************************************************)
EXTENDS Integers

CONSTANT MaxConn          \* connections made in one behaviour

ASSUME MaxConnAssumption == MaxConn \in Nat

Topics == {"cmd_vel", "cmd_vel_no_limit"}
Flag(topic) == IF topic = "cmd_vel" THEN "monitored" ELSE "not_monitored"
Conns == 1..MaxConn
NoConn == 0
NoAction == [conn |-> NoConn, flag |-> "none"]
Idle == "idle"

VARIABLES
    slamwarePltfm,            \* the server's platform, NoConn when empty
    conn,                     \* what became of each connection
    closing,                  \* swapped out of the server, not yet disconnected
    velocityControllAction,   \* the shared action, NoAction when empty
    callback,                 \* the topic whose callback runs, or Idle
    died,                     \* the process ended on an empty platform
    lost                      \* messages in a row lost for no fault of the robot

vars == <<slamwarePltfm, conn, closing, velocityControllAction, callback, died, lost>>

TypeOK ==
    /\ slamwarePltfm \in Conns \cup {NoConn}
    /\ conn \in [Conns -> {"unused", "open", "lost", "closed"}]
    /\ closing \in Conns \cup {NoConn}
    /\ velocityControllAction \in
         [conn : Conns, flag : {"monitored", "not_monitored"}] \cup {NoAction}
    /\ callback \in Topics \cup {Idle}
    /\ died \in BOOLEAN
    /\ lost \in Nat

Init ==
    /\ slamwarePltfm = NoConn
    /\ conn = [c \in Conns |-> "unused"]
    /\ closing = NoConn
    /\ velocityControllAction = NoAction
    /\ callback = Idle
    /\ died = FALSE
    /\ lost = 0

-----------------------------------------------------------------------------
(* The work thread and the network. *)

Connect(c) ==
    /\ slamwarePltfm = NoConn /\ closing = NoConn
    /\ conn[c] = "unused"
    /\ conn' = [conn EXCEPT ![c] = "open"]
    /\ slamwarePltfm' = c
    /\ UNCHANGED <<closing, velocityControllAction, callback, died, lost>>

LoseConnection(c) ==
    /\ conn[c] = "open"
    /\ conn' = [conn EXCEPT ![c] = "lost"]
    /\ lost' = 0
    /\ UNCHANGED <<slamwarePltfm, closing, velocityControllAction, callback, died>>

SwapOutPlatform ==
    /\ slamwarePltfm # NoConn /\ conn[slamwarePltfm] = "lost"
    /\ closing' = slamwarePltfm
    /\ slamwarePltfm' = NoConn
    /\ UNCHANGED <<conn, velocityControllAction, callback, died, lost>>

DisconnectPlatform ==
    /\ closing # NoConn
    /\ conn' = [conn EXCEPT ![closing] = "closed"]
    /\ closing' = NoConn
    /\ UNCHANGED <<slamwarePltfm, velocityControllAction, callback, died, lost>>

-----------------------------------------------------------------------------
(* The ROS thread.  Callback: the wrapper saw a platform and calls the     *)
(* handler; the message is handled when the handler returns.               *)

NotConnected ==
    /\ callback = Idle /\ slamwarePltfm = NoConn
    /\ lost' = 0
    /\ UNCHANGED <<slamwarePltfm, conn, closing, velocityControllAction, callback, died>>

CallbackBegins(topic) ==
    /\ callback = Idle /\ slamwarePltfm # NoConn
    /\ callback' = topic
    /\ UNCHANGED <<slamwarePltfm, conn, closing, velocityControllAction, died, lost>>

\* The robot can be reached through the platform as it is now.
Reachable == slamwarePltfm # NoConn /\ conn[slamwarePltfm] = "open"
LostOne == IF Reachable THEN lost + 1 ELSE 0

\* velocityControl() returns: the action is stored, the message is dropped.
ConstructAction ==
    /\ callback # Idle /\ velocityControllAction = NoAction
    /\ Reachable
    /\ velocityControllAction' = [conn |-> slamwarePltfm, flag |-> Flag(callback)]
    /\ callback' = Idle
    /\ lost' = LostOne
    /\ UNCHANGED <<slamwarePltfm, conn, closing, died>>

\* velocityControl() throws: a lost connection, an empty platform or a robot
\* that refuses.
ConstructFails ==
    /\ callback # Idle /\ velocityControllAction = NoAction
    /\ callback' = Idle
    /\ lost' = 0
    /\ UNCHANGED <<slamwarePltfm, conn, closing, velocityControllAction, died>>

\* velocityControl() on a platform emptied since the wrapper looked at it:
\* the call goes through a null pointer.
ConstructOnEmpty ==
    /\ callback # Idle /\ velocityControllAction = NoAction
    /\ slamwarePltfm = NoConn
    /\ died' = TRUE
    /\ callback' = Idle
    /\ UNCHANGED <<slamwarePltfm, conn, closing, velocityControllAction, lost>>

SetVelocity ==
    /\ callback # Idle /\ velocityControllAction # NoAction
    /\ conn[velocityControllAction.conn] = "open"
    /\ callback' = Idle
    /\ lost' = 0
    /\ UNCHANGED <<slamwarePltfm, conn, closing, velocityControllAction, died>>

\* Seeded fault: the action is kept after setVelocity() threw.
KeepAction == UNCHANGED velocityControllAction

\* setVelocity() throws on a connection that is gone: the action is dropped.
ForgetAction == velocityControllAction' = NoAction

SetVelocityOnGone ==
    /\ callback # Idle /\ velocityControllAction # NoAction
    /\ conn[velocityControllAction.conn] # "open"
    /\ ForgetAction
    /\ callback' = Idle
    /\ lost' = LostOne
    /\ UNCHANGED <<slamwarePltfm, conn, closing, died>>

\* setVelocity() throws because the robot refuses, the action having ended.
SetVelocityRefused ==
    /\ callback # Idle /\ velocityControllAction # NoAction
    /\ conn[velocityControllAction.conn] = "open"
    /\ ForgetAction
    /\ callback' = Idle
    /\ lost' = 0
    /\ UNCHANGED <<slamwarePltfm, conn, closing, died>>

-----------------------------------------------------------------------------
RosStep ==
    \/ NotConnected
    \/ \E topic \in Topics : CallbackBegins(topic)
    \/ ConstructAction \/ ConstructFails \/ ConstructOnEmpty
    \/ SetVelocity \/ SetVelocityOnGone \/ SetVelocityRefused

WorkStep ==
    \/ \E c \in Conns : Connect(c) \/ LoseConnection(c)
    \/ SwapOutPlatform \/ DisconnectPlatform

Next == ~died /\ (RosStep \/ WorkStep)

Spec == Init /\ [][Next]_vars

-----------------------------------------------------------------------------
\* After a reconnection the action of the old connection and the empty one
\* that follows it cost one message each.  Whatever the order of messages of
\* the two topics, lost connections and refusals, no third message in a row
\* is lost while the robot can be reached and refuses nothing.
LossBounded == lost <= 2

\* The reason: a message lost on a reachable robot leaves either no action or
\* one of the connection in use, and a second one in a row leaves the latter.
LostLeavesFreshAction ==
    lost >= 1 => /\ Reachable
                 /\ velocityControllAction # NoAction
                      => velocityControllAction.conn = slamwarePltfm
SecondConstructs == lost = 2 => velocityControllAction # NoAction

\* What has been swapped out was lost.
ClosingIsLost == closing # NoConn => conn[closing] = "lost"

IInv == TypeOK /\ LossBounded /\ LostLeavesFreshAction /\ SecondConstructs /\ ClosingIsLost
=============================================================================
