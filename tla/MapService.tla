----------------------------- MODULE MapService -----------------------------
(***************************************************************************)
(* The services sync_get_stcm and sync_set_stcm with their clients: the    *)
(* C++ client's syncGetStcm and syncSetStcm, which wait without limit, and *)
(* the floor script, which gives up after 10 s and recovers the            *)
(* localisation whatever came back.  One ROS thread runs all callbacks of  *)
(* the server; a handler is a row of calls to the robot, each of which may *)
(* throw, and what it returns is dropped by ROS 2: the reply is sent       *)
(* either way and says nothing of it.                                      *)
(***************************************************************************)
EXTENDS Naturals, Sequences

CONSTANTS Map,            \* composite maps
          MaxCalls,       \* service calls in one behaviour
          RecoverDepth    \* of the recover_localization subscription, 1 in the code

ASSUME BoundsAssumption == MaxCalls \in Nat /\ RecoverDepth \in Nat

NoMap == "no map"
Garbled == "garbled"      \* the content of a file that is not a composite map
Content == Map \cup {NoMap, Garbled}
None == "none"

Caller == {"syncGetStcm", "syncSetStcm", "floor"}
HandlerStep == {"parse", "clear", "cancel", "off", "set", "on", "request", "get"}

VARIABLES
    robot,        \* its map, its switches, and the map its action was given on
    connected,    \* the server's connection to the robot works
    calls,        \* the calls made, in order
    server,       \* the handler the ROS thread is in
    caller,       \* where each caller is, with its last call and its result
    recovers,     \* messages waiting in that subscription
    file          \* what syncGetStcm's file holds

vars == <<robot, connected, calls, server, caller, recovers, file>>

Call == [by : Caller, map : Content, status : {"queued", "running", "ok", "failed"},
         reply : Content]
NotServing == [at |-> "idle", id |-> 0]

TypeOK ==
    /\ robot \in [map : Map \cup {NoMap}, localising : BOOLEAN, updating : BOOLEAN,
                  action : Map \cup {NoMap, None}]
    /\ connected \in BOOLEAN
    /\ calls \in Seq(Call) /\ Len(calls) <= MaxCalls
    /\ server \in [at : HandlerStep \cup {"idle"}, id : 0..Len(calls)]
    /\ caller \in [Caller -> [at : {"idle", "waiting", "told"}, id : 0..Len(calls),
                              result : BOOLEAN]]
    /\ recovers \in 0..RecoverDepth
    /\ file \in Content

Init ==
    /\ robot \in [map : Map, localising : {TRUE}, updating : BOOLEAN, action : {None}]
    /\ connected = TRUE
    /\ calls = <<>>
    /\ server = NotServing
    /\ caller = [c \in Caller |-> [at |-> "idle", id |-> 0, result |-> FALSE]]
    /\ recovers = 0
    /\ file = NoMap

-----------------------------------------------------------------------------
(* The ROS thread of the server. *)

Serving(step) == server.at = step /\ server.id \in 1..Len(calls)
Goto(step) == server' = [server EXCEPT !.at = step]

\* Requests of one service are taken in the order of the calls.
SameService(c, d) == (c.by = "syncGetStcm") = (d.by = "syncGetStcm")
TakeRequest(id) ==
    /\ server = NotServing
    /\ id \in DOMAIN calls /\ calls[id].status = "queued"
    /\ \A other \in 1..(id - 1) :
         calls[other].status = "queued" => ~SameService(calls[other], calls[id])
    /\ calls' = [calls EXCEPT ![id].status = "running"]
    /\ server' = [at |-> IF calls[id].by = "syncGetStcm" THEN "get" ELSE "parse", id |-> id]
    /\ UNCHANGED <<robot, connected, caller, recovers, file>>

\* The wrapper's return: the response goes out as the handler left it.
Respond(status, content) ==
    /\ calls' = [calls EXCEPT ![server.id].status = status, ![server.id].reply = content]
    /\ server' = NotServing
    /\ UNCHANGED <<connected, caller, recovers, file>>

\* Seeded fault: the exception ends the handler and with it the answer.
HandlerFailsSilently ==
    /\ server # NotServing /\ server.at # "request"
    /\ server' = NotServing
    /\ UNCHANGED <<robot, connected, calls, caller, recovers, file>>

\* An exception of any call, or a platform that is not there: the response
\* is the empty one.
HandlerFails ==
    /\ server # NotServing /\ server.at # "request"
    /\ Respond("failed", NoMap)
    /\ UNCHANGED robot

Quiet == UNCHANGED <<connected, calls, caller, recovers, file>>

GetCompositeMap ==
    /\ Serving("get") /\ connected
    /\ Respond("ok", robot.map)
    /\ UNCHANGED robot

LoadStream ==
    /\ Serving("parse") /\ calls[server.id].map \in Map
    /\ Goto("clear")
    /\ UNCHANGED robot /\ Quiet

ClearMap ==
    /\ Serving("clear") /\ connected
    /\ robot' = [robot EXCEPT !.map = NoMap]
    /\ Goto("cancel") /\ Quiet

\* Seeded fault: the running action is looked up but not cancelled.
CancelNothing ==
    /\ Serving("cancel") /\ connected
    /\ UNCHANGED robot
    /\ Goto("off") /\ Quiet

CancelAction ==
    /\ Serving("cancel") /\ connected
    /\ robot' = [robot EXCEPT !.action = None]
    /\ Goto("off") /\ Quiet

\* setMapLocalization(false), setMapUpdate(false): two calls, either may throw.
LocalizationOff ==
    /\ Serving("off") /\ connected /\ robot.localising
    /\ robot' = [robot EXCEPT !.localising = FALSE]
    /\ UNCHANGED server /\ Quiet

UpdateOff ==
    /\ Serving("off") /\ connected /\ ~robot.localising
    /\ robot' = [robot EXCEPT !.updating = FALSE]
    /\ Goto("set") /\ Quiet

SetCompositeMap ==
    /\ Serving("set") /\ connected
    /\ robot' = [robot EXCEPT !.map = calls[server.id].map]
    /\ Goto("on") /\ Quiet

\* Seeded fault: the localization stays off.
LocalizationStaysOff ==
    /\ Serving("on") /\ connected
    /\ UNCHANGED robot
    /\ Goto("request") /\ Quiet

LocalizationOn ==
    /\ Serving("on") /\ connected
    /\ robot' = [robot EXCEPT !.localising = TRUE]
    /\ Goto("request") /\ Quiet

SetStcmReturns ==
    /\ Serving("request")
    /\ Respond("ok", NoMap)
    /\ UNCHANGED robot

\* The topics that act on what a load touches, one robot call each; they wait
\* while a service handler runs.
MsgCb(next) ==
    /\ server = NotServing /\ connected
    /\ robot' = next
    /\ UNCHANGED <<connected, calls, server, caller, recovers, file>>

MoveTo == MsgCb([robot EXCEPT !.action = robot.map])
ClearMapTopic == MsgCb([robot EXCEPT !.map = NoMap])
SetMapUpdate == MsgCb([robot EXCEPT !.updating = ~@])
SetMapLocalization == MsgCb([robot EXCEPT !.localising = ~@])

\* A recovery moves the robot: the SDK gives it as an action, as moveTo does.
\* Without a connection, or when the call throws, the message is just gone.
RecoverLocalization ==
    /\ server = NotServing /\ recovers > 0
    /\ recovers' = recovers - 1
    /\ \/ connected /\ robot' = [robot EXCEPT !.action = robot.map]
       \/ robot' = robot
    /\ UNCHANGED <<connected, calls, server, caller, file>>

Serve ==
    \/ \E id \in 1..Len(calls) : TakeRequest(id)
    \/ HandlerFails
    \/ GetCompositeMap
    \/ LoadStream \/ ClearMap \/ CancelAction \/ LocalizationOff \/ UpdateOff
    \/ SetCompositeMap \/ LocalizationOn \/ SetStcmReturns

Messages ==
    MoveTo \/ ClearMapTopic \/ SetMapUpdate \/ SetMapLocalization \/ RecoverLocalization

-----------------------------------------------------------------------------
(* The callers. *)

At(c, place) == caller[c].at = place
Told(c, id, result) == [caller EXCEPT ![c] = [at |-> "told", id |-> id, result |-> result]]
Answered(id) == calls[id].status \in {"ok", "failed"}

\* The request is sent; for a load, after the file was read.
SendRequest(c, content) ==
    /\ At(c, "idle") /\ Len(calls) < MaxCalls
    /\ calls' = Append(calls, [by |-> c, map |-> content, status |-> "queued",
                               reply |-> NoMap])
    /\ caller' = [caller EXCEPT ![c] = [at |-> "waiting", id |-> Len(calls) + 1,
                                        result |-> FALSE]]
    /\ UNCHANGED <<robot, connected, server, recovers, file>>

\* The file cannot be opened or read: the load returns false at once.
FileMissing(c) ==
    /\ c # "syncGetStcm" /\ At(c, "idle") /\ Len(calls) < MaxCalls
    /\ caller' = Told(c, 0, FALSE)
    /\ UNCHANGED <<robot, connected, calls, server, recovers, file>>

\* The future of the call completes.
CallCompletes(c) ==
    /\ c # "syncGetStcm" /\ At(c, "waiting") /\ Answered(caller[c].id)
    /\ caller' = Told(c, caller[c].id, TRUE)
    /\ UNCHANGED <<robot, connected, calls, server, recovers, file>>

GetCompletes ==
    /\ At("syncGetStcm", "waiting") /\ Answered(caller["syncGetStcm"].id)
    /\ \/ /\ file' = calls[caller["syncGetStcm"].id].reply
          /\ caller' = Told("syncGetStcm", caller["syncGetStcm"].id, TRUE)
       \/ /\ file' = file       \* the file cannot be opened
          /\ caller' = Told("syncGetStcm", caller["syncGetStcm"].id, FALSE)
       \/ /\ file' = Garbled    \* written in part
          /\ caller' = Told("syncGetStcm", caller["syncGetStcm"].id, FALSE)
    /\ UNCHANGED <<robot, connected, calls, server, recovers>>

\* spin_until_future_complete gives up; the request stays with the server.
WaitTimesOut ==
    /\ At("floor", "waiting")
    /\ caller' = Told("floor", caller["floor"].id, FALSE)
    /\ UNCHANGED <<robot, connected, calls, server, recovers, file>>

\* The script recovers the localization in both cases, perhaps of the map before
\* while its own request still waits.  A full subscription drops its oldest.
RecLoc ==
    /\ At("floor", "told")
    /\ recovers' = IF recovers < RecoverDepth THEN recovers + 1 ELSE recovers
    /\ caller' = [caller EXCEPT !["floor"].at = "idle"]
    /\ UNCHANGED <<robot, connected, calls, server, file>>

CallReturns(c) ==
    /\ c # "floor" /\ At(c, "told")
    /\ caller' = [caller EXCEPT ![c].at = "idle"]
    /\ UNCHANGED <<robot, connected, calls, server, recovers, file>>

Run(c) ==
    \/ c = "syncGetStcm" /\ SendRequest(c, NoMap)
    \/ c = "syncSetStcm" /\ \E content \in Map \cup {Garbled} : SendRequest(c, content)
    \/ c = "floor" /\ \E content \in Map : SendRequest(c, content)
    \/ FileMissing(c) \/ CallReturns(c)
    \/ CallCompletes(c)
    \/ c = "syncGetStcm" /\ GetCompletes
    \/ c = "floor" /\ (WaitTimesOut \/ RecLoc)

LoseConnection ==
    /\ connected' = ~connected
    /\ UNCHANGED <<robot, calls, server, caller, recovers, file>>

Next == Serve \/ Messages \/ (\E c \in Caller : Run(c)) \/ LoseConnection

Spec == Init /\ [][Next]_vars
FairSpec == Spec /\ WF_vars(Serve)
                 /\ WF_vars(CallCompletes("syncSetStcm")) /\ WF_vars(GetCompletes)

-----------------------------------------------------------------------------
\* A move or a recovery begun on one map is never carried on with on another
\* that a client loads: the load cancels it, nothing starts a new one before the
\* map is set, and a load that fails on the way sets no map.  So a recovery that
\* the floor script sent after giving up its wait does not run into its own load.
NoMoveAcrossMaps ==
    robot.action # None /\ robot.map # NoMap => robot.action = robot.map

\* When srvCbSyncSetStcm_ returns true the robot holds the requested map,
\* localises on it and does not change it, whatever an earlier load that
\* failed half way, or a topic, did to its switches.
LoadedIsInUse ==
    [][\A id \in DOMAIN calls :
          calls[id].status = "running" /\ calls'[id].status = "ok"
            /\ calls[id].by # "syncGetStcm"
          => robot.map = calls[id].map /\ robot.localising /\ ~robot.updating]_vars

\* Every wait without a limit ends: a server that spins answers every request,
\* also when the robot is gone or a call throws.
WaitsEnd ==
    /\ At("syncSetStcm", "waiting") ~> ~At("syncSetStcm", "waiting")
    /\ At("syncGetStcm", "waiting") ~> ~At("syncGetStcm", "waiting")

\* "load stcm from filePath, and upload to slamware", "get stcm and write to
\* filePath" (slamware_ros_sdk_client.h:111, 97): when one of the two functions
\* returns true the robot was given the map, or its map was got.
TrueMeansDone ==
    \A c \in {"syncSetStcm", "syncGetStcm"} :
      At(c, "told") /\ caller[c].result => calls[caller[c].id].status = "ok"
=============================================================================
