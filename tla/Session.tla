------------------------------ MODULE Session -------------------------------
(***************************************************************************)
(* What the node promises of its session with the robot, whatever threads, *)
(* locks and retries SdkServer uses for it: connections are made one after *)
(* the other, a connection in use by the work loop is neither withdrawn    *)
(* nor closed, no callback and no work outlives the server, and a server   *)
(* that ends leaves nothing open at the robot.                             *)
(***************************************************************************)
CONSTANTS Conn, NoConn

VARIABLES
    phase,              \* "starting", "running", "closing", "over" or "aborted"
    live,               \* connections the robot has not seen closed
    link,               \* the one offered to callbacks and workers, or NoConn
    callbackUses,       \* the one the running callback uses, or NoConn
    loopUses            \* the one the work loop uses, or NoConn

svars == <<phase, live, link, callbackUses, loopUses>>

SInit ==
    /\ phase = "starting"
    /\ live = {}
    /\ link = NoConn /\ callbackUses = NoConn /\ loopUses = NoConn

Up == phase \in {"starting", "running", "closing"}

-----------------------------------------------------------------------------
Connect ==
    /\ Up /\ live = {} /\ link = NoConn
    /\ \E c \in Conn \ {callbackUses} : live' = {c}
    /\ UNCHANGED <<phase, link, callbackUses, loopUses>>

Offer ==
    /\ Up /\ link = NoConn
    /\ link' \in live
    /\ UNCHANGED <<phase, live, callbackUses, loopUses>>

Withdraw ==
    /\ link # NoConn /\ loopUses = NoConn
    /\ phase \in {"running", "closing"}
    /\ link' = NoConn
    /\ UNCHANGED <<phase, live, callbackUses, loopUses>>

Disconnect ==
    /\ live # {} /\ link = NoConn /\ loopUses = NoConn
    /\ live' = {}
    /\ UNCHANGED <<phase, link, callbackUses, loopUses>>

-----------------------------------------------------------------------------
BeginCallback ==
    /\ phase = "running" /\ link # NoConn /\ callbackUses = NoConn
    /\ callbackUses' = link
    /\ UNCHANGED <<phase, live, link, loopUses>>

EndCallback ==
    /\ callbackUses # NoConn
    /\ callbackUses' = NoConn
    /\ UNCHANGED <<phase, live, link, loopUses>>

BeginLoop ==
    /\ phase \in {"running", "closing"} /\ link # NoConn /\ loopUses = NoConn
    /\ loopUses' = link
    /\ UNCHANGED <<phase, live, link, callbackUses>>

EndLoop ==
    /\ loopUses # NoConn
    /\ loopUses' = NoConn
    /\ UNCHANGED <<phase, live, link, callbackUses>>

-----------------------------------------------------------------------------
\* It starts with a connection, closes between two callbacks and ends with
\* nothing in use or open.
Start == phase = "starting" /\ link # NoConn /\ phase' = "running"
Close == phase = "running" /\ callbackUses = NoConn /\ phase' = "closing"
End ==
    /\ phase = "closing" /\ phase' = "over"
    /\ live = {} /\ link = NoConn /\ callbackUses = NoConn /\ loopUses = NoConn
Abort == phase = "starting" /\ phase' = "aborted"

Progress ==
    /\ Start \/ Close \/ End \/ Abort
    /\ UNCHANGED <<live, link, callbackUses, loopUses>>

SNext ==
    \/ Connect \/ Offer \/ Withdraw \/ Disconnect
    \/ BeginCallback \/ EndCallback \/ BeginLoop \/ EndLoop
    \/ Progress

SSpec == SInit /\ [][SNext]_svars

-----------------------------------------------------------------------------
(***************************************************************************)
(* What users of a session rely on.  What is offered is the one connection *)
(* there is, the work loop runs on the one that is offered, a callback     *)
(* only while the node is running, and nothing is in use, offered or open  *)
(* when the node is over.                                                  *)
(***************************************************************************)
SessionSafe ==
    /\ live = {} \/ \E c \in Conn : live = {c}
    /\ link # NoConn => live = {link}
    /\ loopUses # NoConn => loopUses = link
    /\ phase \in {"starting", "aborted"} => loopUses = NoConn
    /\ callbackUses # NoConn => phase = "running"
    /\ phase = "over" => live = {} /\ link = NoConn /\ loopUses = NoConn

(***************************************************************************)
(* From its first call to its last, a run of the work loop keeps its       *)
(* connection, and no other one is made, closed or offered beside it.      *)
(***************************************************************************)
LoopUndisturbed ==
    [][loopUses # NoConn /\ loopUses' # NoConn =>
          loopUses' = loopUses /\ link' = link /\ live' = live]_svars
=============================================================================
