------------------------------ MODULE MapSync -------------------------------
(***************************************************************************)
(* How the explored map follows the robot's: the ExploreMapUpdate worker   *)
(* on the work thread (server_workers.cpp:255-484) reads the robot's map   *)
(* tile by tile, while the ROS thread asks for synchronisations, clears    *)
(* the robot's map or replaces it (slamware_ros_sdk_server.cpp).           *)
(*                                                                         *)
(* A tile is one rectangle of the whole-map scan, numbered in scan order;  *)
(* a robot's map covers all tiles or none.  What a tile shows is which     *)
(* edition of which robot's map it was read from, and at which resolution. *)
(* The array the tiles are written to is MapHolder's.  An action is what a *)
(* thread does up to its next call to the robot or use of the shared flag. *)
(***************************************************************************)
EXTENDS Integers, FiniteSets

CONSTANTS
    NumTiles,       \* rectangles of a whole-map scan
    Resolution,     \* resolutions a robot's map may have
    MaxConn,        \* bound on the connections made
    MaxEdition      \* bound on the editions of the robot's map

ASSUME TilesAssumption == NumTiles \in Nat \ {0}
ASSUME BoundAssumption == MaxConn \in Nat \ {0} /\ MaxEdition \in Nat \ {0}

VARIABLES
    conn,               \* the connection of the work loop
    robot,              \* the robot's map: edition, resolution, known or empty
    localization,       \* the robot's setMapLocalization switch
    wpc,                \* where the work thread is
    next,               \* the tile the worker asks for
    shouldReinitMap,    \* shouldReinitMap_
    syncMapRequested,   \* ServerWorkData::syncMapRequested
    hold,               \* exploreMapHolder: what each tile shows
    holdRes, holdConn,  \* its resolution; history: the connection it is from
    rpc, cbConn,        \* the ROS thread, and the connection of its callback
    due,                \* history: tiles asked for and not yet read since
    shown               \* history: the edition a set_stcm left to be shown

robotVars == <<conn, robot, localization>>
workVars == <<wpc, next, shouldReinitMap>>
mapVars == <<hold, holdRes, holdConn>>
rosVars == <<rpc, cbConn>>
vars == <<robotVars, workVars, syncMapRequested, mapVars, rosVars, due, shown>>

Tiles == 1 .. NumTiles
NoTile == [conn |-> 0, edition |-> 0, res |-> 0]
Reading == [conn |-> conn, edition |-> robot.edition, res |-> robot.res]

WorkLabel == {"idle", "reinit", "known", "tile", "store", "near", "nearTile", "off"}
RosLabel == {"spin", "clear", "off", "set", "on", "request"}

-----------------------------------------------------------------------------
(* requestSyncMap, by whichever thread.                                    *)

\* A scan under way will still read the tiles from next on.
StillToRead ==
    CASE wpc = "tile" -> next .. NumTiles
      [] wpc = "store" -> {}
      [] OTHER -> Tiles

RequestSyncMap ==
    /\ syncMapRequested' = TRUE
    /\ due' = due \union StillToRead

Replaced(ed, res, known) == [edition |-> ed, res |-> res, known |-> known]

-----------------------------------------------------------------------------
(* The work thread.                                                        *)

\* The loop ends on a connection exception of this or another worker ...
Disconnect ==
    /\ wpc \notin {"off", "store"} /\ conn < MaxConn /\ robot.edition < MaxEdition
    /\ wpc' = "off"
    /\ UNCHANGED <<robotVars, next, shouldReinitMap, syncMapRequested, mapVars,
                   rosVars, due, shown>>

\* Seeded fault: the worker does not start over with a new connection.
ReinitWorkLoopKeepingMap ==
    /\ wpc = "off"
    /\ conn' = conn + 1
    /\ \E res \in Resolution, known \in BOOLEAN :
          robot' = Replaced(robot.edition + 1, res, known)
    /\ wpc' = "idle"
    /\ shown' = 0
    /\ UNCHANGED <<localization, next, shouldReinitMap, syncMapRequested, mapVars,
                   rosVars, due>>

\* ... and starts over, after reinitWorkLoop, perhaps with another robot.
ReinitWorkLoop ==
    /\ wpc = "off"
    /\ conn' = conn + 1
    /\ \E res \in Resolution, known \in BOOLEAN :
          robot' = Replaced(robot.edition + 1, res, known)
    /\ shouldReinitMap' = TRUE
    /\ wpc' = "idle"
    /\ shown' = 0
    /\ UNCHANGED <<localization, next, syncMapRequested, mapVars, rosVars, due>>

\* doPerform up to its first call to the robot.
DoPerform ==
    /\ wpc = "idle"
    /\ IF shouldReinitMap
       THEN wpc' = "reinit" /\ RequestSyncMap
       ELSE /\ wpc' = IF syncMapRequested THEN "known" ELSE "near"
            /\ UNCHANGED <<syncMapRequested, due>>
    /\ UNCHANGED <<robotVars, next, shouldReinitMap, mapVars, rosVars, shown>>

\* A call fails without a connection exception: doPerform is over.
CallFails ==
    /\ wpc \in {"reinit", "known", "tile", "near", "nearTile"}
    /\ wpc' = "idle"
    /\ UNCHANGED <<robotVars, next, shouldReinitMap, syncMapRequested, mapVars,
                   rosVars, due, shown>>

Blank == [t \in Tiles |-> NoTile]

\* checkToReinitMap_ has a map: the holder is reinitialised to its resolution,
\* and doPerform goes on to find the synchronisation it has just requested.
ReinitMap ==
    /\ wpc = "reinit"
    /\ hold' = Blank /\ holdRes' = robot.res /\ holdConn' = conn
    /\ shouldReinitMap' = FALSE
    /\ wpc' = "known"
    /\ UNCHANGED <<robotVars, next, syncMapRequested, rosVars, due, shown>>

\* Seeded fault: the request is taken down when its scan starts.
SyncWholeMapTakesDown ==
    /\ wpc = "known"
    /\ IF robot.known
       THEN hold' = Blank /\ next' = 1 /\ wpc' = "tile" /\ syncMapRequested' = FALSE
       ELSE wpc' = "idle" /\ UNCHANGED <<hold, next, syncMapRequested>>
    /\ UNCHANGED <<robotVars, shouldReinitMap, holdRes, holdConn, rosVars, due,
                   shown>>

\* syncWholeMap_ learns the known area; nothing is cleared when it is empty.
SyncWholeMap ==
    /\ wpc = "known"
    /\ IF robot.known
       THEN hold' = Blank /\ next' = 1 /\ wpc' = "tile"
       ELSE wpc' = "idle" /\ UNCHANGED <<hold, next>>
    /\ UNCHANGED <<robotVars, shouldReinitMap, syncMapRequested, holdRes,
                   holdConn, rosVars, due, shown>>

\* checkRecvResolution_ and setMapData: a tile of another resolution is not
\* written, it makes the next doPerform reinitialise the map.
UpdateTile(after) ==
    IF robot.res = holdRes
    THEN /\ hold' = [hold EXCEPT ![next] = Reading]
         /\ due' = due \ {next}
         /\ wpc' = after
         /\ UNCHANGED shouldReinitMap
    ELSE /\ shouldReinitMap' = TRUE
         /\ wpc' = "idle"
         /\ UNCHANGED <<hold, due>>

SyncTile ==
    /\ wpc = "tile"
    /\ UpdateTile(IF next = NumTiles THEN "store" ELSE "tile")
    /\ next' = IF next = NumTiles THEN next ELSE next + 1
    /\ UNCHANGED <<robotVars, syncMapRequested, holdRes, holdConn, rosVars, shown>>

\* Seeded fault: the request stays up after the scan.
SyncDoneKeepsRequest ==
    /\ wpc = "store"
    /\ wpc' = "idle"
    /\ UNCHANGED <<robotVars, next, shouldReinitMap, syncMapRequested, mapVars,
                   rosVars, due, shown>>

\* The request is taken down only after the scan.
SyncDone ==
    /\ wpc = "store"
    /\ syncMapRequested' = FALSE
    /\ wpc' = "idle"
    /\ UNCHANGED <<robotVars, next, shouldReinitMap, mapVars, rosVars, due, shown>>

\* updateMapNearRobot_: an empty known area asks for a synchronisation; the
\* part of it near the robot may be empty.
NearKnownArea ==
    /\ wpc = "near"
    /\ IF robot.known
       THEN /\ \/ wpc' = "idle" /\ UNCHANGED next
               \/ wpc' = "nearTile" /\ next' \in Tiles
            /\ UNCHANGED <<syncMapRequested, due>>
       ELSE wpc' = "idle" /\ RequestSyncMap /\ UNCHANGED next
    /\ UNCHANGED <<robotVars, shouldReinitMap, mapVars, rosVars, shown>>

\* Seeded fault: an update near the robot counts as a synchronisation.
NearTileServes ==
    /\ wpc = "nearTile"
    /\ UpdateTile("idle")
    /\ syncMapRequested' = FALSE
    /\ UNCHANGED <<robotVars, next, holdRes, holdConn, rosVars, shown>>

NearTile ==
    /\ wpc = "nearTile"
    /\ UpdateTile("idle")
    /\ UNCHANGED <<robotVars, next, syncMapRequested, holdRes, holdConn, rosVars,
                   shown>>

\* ServerReadEventsWorker finds a loop closure.
LoopClosure ==
    /\ wpc = "idle"
    /\ RequestSyncMap
    /\ UNCHANGED <<robotVars, workVars, mapVars, rosVars, shown>>

WorkStep ==
    \/ ReinitWorkLoop \/ DoPerform \/ ReinitMap \/ SyncWholeMap \/ SyncTile
    \/ SyncDone \/ NearKnownArea \/ NearTile \/ CallFails

-----------------------------------------------------------------------------
(* The ROS thread: callbacks run one at a time, on the connection they find*)
(* when they start; a call on a connection that is gone throws.            *)

Connected == wpc # "off"
StillConnected == Connected /\ cbConn = conn

\* msgCbSyncMap_
MsgCbSyncMap ==
    /\ rpc = "spin" /\ Connected
    /\ RequestSyncMap
    /\ UNCHANGED <<robotVars, workVars, mapVars, rosVars, shown>>

\* The robot forgets its map; no synchronisation is asked for.
ClearRobotMap ==
    /\ robot.edition < MaxEdition
    /\ robot' = Replaced(robot.edition + 1, robot.res, FALSE)
    /\ shown' = 0

\* msgCbClearMap_
MsgCbClearMap ==
    /\ rpc = "spin" /\ Connected
    /\ ClearRobotMap
    /\ UNCHANGED <<conn, localization, workVars, syncMapRequested, mapVars,
                   rosVars, due>>

\* srvCbSyncSetStcm_ starts, with a stream that loads.
SrvCbSyncSetStcm ==
    /\ rpc = "spin" /\ Connected
    /\ rpc' = "clear" /\ cbConn' = conn
    /\ UNCHANGED <<robotVars, workVars, syncMapRequested, mapVars, due, shown>>

\* clearMap, then the current action is cancelled.
SetStcmClear ==
    /\ rpc = "clear" /\ StillConnected
    /\ ClearRobotMap
    /\ rpc' = "off"
    /\ UNCHANGED <<conn, localization, workVars, syncMapRequested, mapVars,
                   cbConn, due>>

\* setMapLocalization(false), setMapUpdate(false)
SetStcmOff ==
    /\ rpc = "off" /\ StillConnected
    /\ localization' = FALSE
    /\ rpc' = "set"
    /\ UNCHANGED <<conn, robot, workVars, syncMapRequested, mapVars, cbConn, due,
                   shown>>

SetStcmSet ==
    /\ rpc = "set" /\ StillConnected /\ robot.edition < MaxEdition
    /\ \E res \in Resolution : robot' = Replaced(robot.edition + 1, res, TRUE)
    /\ rpc' = "on"
    /\ shown' = 0
    /\ UNCHANGED <<conn, localization, workVars, syncMapRequested, mapVars,
                   cbConn, due>>

SetStcmOn ==
    /\ rpc = "on" /\ StillConnected
    /\ localization' = TRUE
    /\ rpc' = "request"
    /\ UNCHANGED <<conn, robot, workVars, syncMapRequested, mapVars, cbConn, due,
                   shown>>

\* Seeded fault: the service does not ask for a synchronisation.
SetStcmUnrequested ==
    /\ rpc = "request"
    /\ rpc' = "spin"
    /\ shown' = IF StillConnected /\ StillToRead = Tiles THEN robot.edition ELSE 0
    /\ UNCHANGED <<robotVars, workVars, syncMapRequested, mapVars, cbConn, due>>

\* The edition is to be shown unless a scan is under way that missed it.
SetStcmRequest ==
    /\ rpc = "request"
    /\ RequestSyncMap
    /\ rpc' = "spin"
    /\ shown' = IF StillConnected /\ StillToRead = Tiles THEN robot.edition ELSE 0
    /\ UNCHANGED <<robotVars, workVars, mapVars, cbConn>>

\* Any of the calls throws: the service returns false and stops there.
SetStcmThrows ==
    /\ rpc \in {"clear", "off", "set", "on"}
    /\ rpc' = "spin"
    /\ UNCHANGED <<robotVars, workVars, syncMapRequested, mapVars, cbConn, due,
                   shown>>

RosStep ==
    \/ MsgCbSyncMap \/ MsgCbClearMap \/ SrvCbSyncSetStcm
    \/ SetStcmClear \/ SetStcmOff \/ SetStcmSet \/ SetStcmOn \/ SetStcmRequest
    \/ SetStcmThrows

-----------------------------------------------------------------------------
\* A robot without a map explores one.
Explore ==
    /\ ~robot.known
    /\ robot' = [robot EXCEPT !.known = TRUE]
    /\ UNCHANGED <<conn, localization, workVars, syncMapRequested, mapVars,
                   rosVars, due, shown>>

\* The first work loop is about to run: the worker and the data are new.
Init ==
    /\ conn = 1 /\ localization = TRUE
    /\ \E res \in Resolution, known \in BOOLEAN : robot = Replaced(1, res, known)
    /\ wpc = "idle" /\ next = 1 /\ shouldReinitMap = TRUE
    /\ syncMapRequested = TRUE
    /\ hold = Blank /\ holdRes \in Resolution /\ holdConn = 0
    /\ rpc = "spin" /\ cbConn = 0
    /\ due = Tiles /\ shown = 0

Next == WorkStep \/ LoopClosure \/ Disconnect \/ RosStep \/ Explore

Spec == Init /\ [][Next]_vars

(***************************************************************************)
(* The work thread keeps running: its loop calls the worker, calls return  *)
(* or throw.  A call that is made over and over, as the one for a given    *)
(* tile, is answered in the end, and a robot explores.                     *)
(***************************************************************************)
FairSpec ==
    /\ Spec
    /\ WF_vars(WorkStep) /\ WF_vars(Explore)
    /\ SF_vars(ReinitMap) /\ SF_vars(SyncWholeMap)
    /\ \A t \in Tiles : SF_vars(SyncTile /\ next = t)

-----------------------------------------------------------------------------
Tile == [conn: 1 .. MaxConn, edition: 1 .. MaxEdition, res: Resolution]

TypeOK ==
    /\ conn \in 1 .. MaxConn
    /\ robot \in [edition: 1 .. MaxEdition, res: Resolution, known: BOOLEAN]
    /\ localization \in BOOLEAN
    /\ wpc \in WorkLabel /\ rpc \in RosLabel
    /\ next \in Tiles
    /\ shouldReinitMap \in BOOLEAN /\ syncMapRequested \in BOOLEAN
    /\ hold \in [Tiles -> Tile \union {NoTile}]
    /\ holdRes \in Resolution
    /\ holdConn \in 0 .. MaxConn /\ cbConn \in 0 .. MaxConn
    /\ due \subseteq Tiles /\ shown \in 0 .. MaxEdition

(***************************************************************************)
(* A map is never put together from two robots or two resolutions: all its *)
(* tiles were read on one connection at the holder's resolution, and while *)
(* the worker adds tiles that connection is the one in use.                *)
(***************************************************************************)
NoMixedMaps ==
    /\ \A t \in Tiles : hold[t] # NoTile =>
          hold[t].conn = holdConn /\ hold[t].res = holdRes
    /\ wpc \in {"tile", "nearTile"} => holdConn = conn

(***************************************************************************)
(* A map with holes, which a scan leaves that was broken off, is known to  *)
(* be one: the request for a synchronisation is still up.                  *)
(***************************************************************************)
HolesArePending == (\E t \in Tiles : hold[t] = NoTile) => syncMapRequested

(***************************************************************************)
(* When the request is taken down, every tile has been read since it was   *)
(* last asked for, by the ROS thread, by an event or by the worker itself. *)
(* What is asked for during a scan counts for the tiles the scan has not   *)
(* reached: the scan's end takes such a request down with the others.      *)
(***************************************************************************)
RequestsServed == ~syncMapRequested => due = {}

(***************************************************************************)
(* After set_stcm succeeded while no scan was under way, once the request  *)
(* is down and until the robot's map changes again the map shows the       *)
(* edition that was set, in every tile.                                    *)
(***************************************************************************)
CompositeShown ==
    shown # 0 /\ ~syncMapRequested => \A t \in Tiles : hold[t].edition = shown

(***************************************************************************)
(* With a robot that answers, a request is served, however often calls     *)
(* fail, once the connection and the robot's map have stopped changing     *)
(* (they do, within MaxConn and MaxEdition).                               *)
(***************************************************************************)
SyncHappens == syncMapRequested ~> ~syncMapRequested

-----------------------------------------------------------------------------
(***************************************************************************)
(* The worker, the callbacks and the flag between the threads implement    *)
(* the picture that MapMirror promises.                                    *)
(***************************************************************************)
HolderSource == [conn |-> holdConn, res |-> holdRes]

Mirror == INSTANCE MapMirror WITH
              Version <- Tile, Source <- [conn: 0 .. MaxConn, res: Resolution],
              robot <- Reading, picture <- hold, source <- HolderSource,
              asked <- syncMapRequested, owed <- due, unread <- StillToRead

ImplementsMirror == Mirror!MSpec
=============================================================================
