# The Slamware ROS 2 workspace in TLA+

Models, model checks and proofs of the program in `src/`: the ROS 2 node
`slamware_ros_sdk_server`, which connects a Slamtec robot to ROS 2, its client
library and the scripts built on them. Paths below are relative to the
repository; `server/` stands for `src/src/slamware_ros_sdk/src/server/`.

## 1. The system

### Components

| component | state it keeps | operations | correct when |
|---|---|---|---|
| **server and main** (`server/slamware_ros_sdk_server.cpp`, `..._node.cpp`, `server_worker_base.cpp`) | `state_`, `isStopRequested_`, the shared platform `slamwarePltfm_`, the workers, the work data, each worker's `isWorkLoopInitOk_` | `startRun`, connect loop, `reinitWorkLoop_`, `loopWork_`, reconnection, `requestStop`, `waitUntilStopped`, `cleanup_` | its assertions hold, threads meet only live objects, connections do not pile up, it ends when asked, it reconnects |
| **explored map storage** (`server/server_map_holder.*`) | a row-major cell array over an aligned rectangle, and the part of it that holds data | `clear`, `reinit`, `reserve...`, `setMapData`, `fillRosMapMsg` | it is a plain grid: reallocation, alignment and message lose and invent nothing |
| **explored map synchronisation** (`ServerExploreMapUpdateWorker`, `ServerReadEventsWorker`, `server_work_data.*`) | the holder, `shouldReinitMap_`, the shared flag `syncMapRequested` | scan of the whole map, update near the robot, re-initialisation; `sync_map`, `set_stcm` and loop closure raise the flag, `clear_map` clears the robot's map and does not | maps of two robots or resolutions are never mixed, a hole is filled some day, a request counts for every tile not yet read when it was made |
| **map services** (`srvCbSyncGetStcm_`, `srvCbSyncSetStcm_`, `slamware_ros_sdk_client.*`, `scripts/multi_floor.py`) | the robot's map, localisation and update switches, its current action; calls under way, files | `syncGetStcm`, `syncSetStcm`, `_load_map_for_floor` with its 10 s limit, `rec_loc` | a loaded map is in use, a movement never goes on over another map, who waits is answered, a failure is told |
| **velocity topics** (`msgCbRobotControl_`, `msgCbRobotControlNoLimit_`) | `velocityControllAction_`, one for both | a message constructs the action or sets a velocity through it | a reconnection costs a bounded number of messages |
| **laser scan** (`ServerLaserScanWorker`) | `latestLidarStartTimestamp_`, the message being filled | take a scan, compensate to beams of equal step or copy | every beam shows the closest point, at the angle the message gives it; no raw scan twice |
| **work loop timing** (`checkToPerform`, the sleep of `loopWork_`) | each worker's `nextTimepointToTrigger_`, the earliest of them | check every worker in turn, perform those due, sleep | no worker is overdue by more than the others' work, none starves |
| **other publishing workers** | a publisher each | read the robot, publish | - |
| **forwarding callbacks** (`set_pose`, lines, `go_home`, ...) | none | one call to the robot | - |
| **parameters, message conversion** (`server_params.*`, `msg_convert.*`) | parameters, read once at start | get, convert | - |
| **voice driven picking** (`src/src/grasp_topic/scripts/xinhai_connect.py`) | `pending_voice_instruction`, `obj_pose`, `operate_pose`, the gripper, subscriptions of picks | latch an instruction, ask the planner, navigate, pick, place | an instruction is carried out once and in order and the newest is not lost; the arm grasps what it last saw until a callback has thrown, and places where it grasped |
| **arm scripts** (`src/src/grasp_topic/scripts/grasp_duco_ros2*.py`, `control_host_model*.py`) | calibrated poses | calls to the vendor's arm library | - |
| **vendored SDK** (`src/src/slamware_sdk/`) | third-party | modelled from its use | - |

### How they interact

Two threads run in the node. The **ROS thread** (`main`) goes through
`startRun`, runs every subscription and service callback inside `rclcpp::spin`
and runs the destructor. The **work thread** connects, initialises the workers
and performs them pass after pass. They share `slamwarePltfm_` (behind a lock,
except in the velocity callbacks), the atomics `state_` and `isStopRequested_`,
the work data and its `syncMapRequested`. Every callback takes its own copy of
the platform first; a copy keeps a released connection alive, a closed one
throws. Clients in other processes wait for replies of the two map services;
the floor script gives up after 10 s, the C++ client never does.

### What is hard

A connection is lost at any call, also in the middle of a row of calls, and
comes back perhaps to another robot; the platform is swapped out under a
callback; a stop arrives anywhere; one worker of several fails to initialise; a
whole-map scan takes many calls while the ROS thread clears, replaces or asks
for the map; `set_stcm` fails half way; a reply arrives after its caller gave
up; tiles arrive on both sides of the origin and the array moves; a slow worker
delays the others; an instruction is spoken while the one before is carried out;
a pick fails, leaves a subscription behind that gets the next pick's pose, and its
own pose goes to the next pick;
angles meet the seam at pi. PROJECT.json lists these, each at its line, with the property
that covers it or the reason why none does.

## 2. The modules

| module | models | extends or instantiates |
|---|---|---|
| `CellRect` | integer rectangles and the alignment arithmetic | - |
| `MapGrid` | abstract: a map holder as a grid without layout, and what its users rely on (`NothingInvented`, `NothingLost`) | `CellRect` |
| `MapHolder` | the array with its reallocation; refines `MapGrid` | `CellRect`, `INSTANCE MapGrid` |
| `Session` | abstract: the node's session with the robot, and what its users rely on (`SessionSafe`, `LoopUndisturbed`) | - |
| `SdkServer` | main and work thread, connection, initialisation, shutdown; refines `Session` | `INSTANCE Session` |
| `WorkerSchedule` | when the workers of the work loop run, in discrete time | - |
| `MapMirror` | abstract: the picture of the robot's map that those who ask for a synchronisation rely on (`MirrorSafe`, `MirrorFollows`) | - |
| `MapSync` | update worker against ROS thread and robot; refines `MapMirror` | `INSTANCE MapMirror` |
| `MapScan` | the tiles of a scan and the update near the robot, written into the map holder | `MapHolder` |
| `VelocityControl` | the velocity callbacks against reconnection | - |
| `MapService` | the two services with their three callers | - |
| `LaserScan` | the laser scan worker | - |
| `VoicePick` | the main loop of the voice driven manipulator and its callbacks | - |
| `X_proof` | the theorems about `X`; those about `MapScan` stand in `MapHolder_proof`, with the lemmas they share | `X`, `TLAPS` |
| `MC_X` | the small instance of `X` that TLC checks | `X` |

`X.tla` keeps the names of the source. PROJECT.json maps every definition to
its lines. Operators whose comment begins "Seeded fault" are variants of the
operation that follows them, with a plausible bug; nothing in a specification
refers to them. Each property is known to fail with one of them in place.

**MapHolder.** The holder is one record (`holder`: data, `avail`, `valid`,
resolution, extension count) and each method of the class is an operator from a holder
to the holder it leaves. Copying is row by row with the offsets the code
computes; both `BOOST_ASSERT`s on the offsets are the invariant `AssertsHold`.
`ImplementsGrid` is the refinement: `bounds` is `valid`, `grid` reads the array
at the offset of each cell.

**SdkServer.** `pc["main"]` and `pc["work"]` say where each thread is; an action
reaches from one point where the other thread may see something to the next.
`slamwarePltfm`, `handle` (the copy a thread works on) and `conn` (what became of
each connection) model the shared pointer. A `disconnect` that throws counts as one that closed. `Eager` are the workers whose
`reinitWorkLoop` sets `isWorkLoopInitOk_` before their own query to the robot.
`ImplementsSession` maps this to `Session`: `Phase` is where main is, `Live` the
connections the robot has not seen closed, `LoopUses` and `CallbackUses` the copies
the two threads work on. The retries, the rounds of initialisation and the passes
are stutters of the session.

**WorkerSchedule.** All times are relative to the present, so the state space is
finite: what is due in n ticks is n, what is overdue is negative, and time passes
in `FinishPerform` (a `doPerform` of up to `MaxPerform`) and `Sleep` (up to `Jitter`
too long). The sleep is rounded down to milliseconds, as `duration_cast` does.

**MapSync.** A tile of the map shows an edition of a robot's map at a resolution
over a connection. The scan is `SyncWholeMap`, then one `SyncTile` per tile, each of
which may fail (`CallFails`), then `SyncDone` with its `store(false)`.
`SrvCbSyncSetStcm` and the `SetStcm...` actions after it are the robot calls of
`set_stcm`, one at a time.
`due` and `shown` are history: the tiles asked for and not read since, and the
edition a `set_stcm` left to be shown. `ImplementsMirror` maps this to `MapMirror`: `owed` is
`due`, `unread` the tiles the scan has not reached (all of them outside a scan), and
`robot` the map as a reading would find it now. The calls of `set_stcm`, the known area and
the failures outside a scan are stutters of the picture; a failure in a scan breaks
the round off.

**MapScan.** The geometry that `MapSync` abstracts: the same scan as nested loops
over rectangles, with the code's cursor, writing through the operators of
`MapHolder` (`Cleared`, `Reserved`, `Updated`). It extends that module: the holder is the
same variable, its steps are now those the worker makes, and its tiles are the
answers the robot gives for part of a known area (`AnswerAssumption`). That the
worker too keeps the refinement `ImplementsGrid` and the assertions `AssertsHold` is
proved (`ScanKeepsGrid`, `ScanNeverFailsAsserts`); the runs check both on the holder, where
every sequence of calls is covered. `World` is what the robot's map says of each cell,
so a property can compare what is shown with what is there.

**VelocityControl.** `velocityControllAction` is empty or names the connection and
the flag it was made with. `lost` counts messages lost in a row for no fault of
the robot. `ConstructOnEmpty` is the call through the emptied platform, where the
process ends (`died`).

**MapService.** The ROS thread is in one handler at a time; `server.at` is the
call it makes next. `HandlerFails` ends a handler anywhere with the empty
response, as ROS 2 sends it. The callers are records of place, call and result;
`WaitTimesOut` leaves the request with the server. That a reply completes the call
it answers is the matching of the ROS client library, taken as given. A recovery
(`rec_loc`) that waits in its subscription is carried out after the caller's wait was
given up, and then is an action of the robot, on whatever map is loaded.

**LaserScan.** Angles are integers in a unit that divides half a step. One
`FillPoint` per point, in the order `Reversed` asks for; `ranges[b]` is the number
of the point a beam shows, 0 for infinity, so that later properties can tell
which point won.

**VoicePick.** One thread runs everything, and callbacks only where it spins: once
per round of the main loop, any number of times while a pick waits. Instructions
are numbered as they are said, picks and their subscriptions by the image they sent,
poses by the image they were computed from; nothing in a message tells a callback
that image, so a pick takes the first pose in its subscription. `answers` are the
poses on the way; `AnswerArrives` puts one into every subscription there is, and
`inbox` is what has not been taken out. `plan` is what is left of the planner's list. A pick
that ends because a callback throws, its own (`PoseRejected`) or one left behind
(`LatePoseThrows`), leaves its subscription (`leaked`), and perhaps its answer on the
way. Poses in a subscription are taken in any order, and its depth of 10 is not
reached. `Dies`, and `LatePoseThrows` outside a pick, are the exceptions that nothing
in `main` catches.

## 3. What TLC checks

| run | instance | properties |
|---|---|---|
| `map_holder` | alignment 2, six tiles (negative, overlapping, apart, empty, another resolution), four reserves | `TypeOK`, `LayoutSound` (data inside the allocation, unknown elsewhere), `AssertsHold`, `MessageShowsGrid`, `ImplementsGrid` |
| `sdk_server` | two workers, one eager; three connections; `FairSpec` | `AssertsHold`, `LoopOnLiveObjects`, `OneConnection`, `WorkersReady`; `Terminates`, `Reconnects`, `EndsWhenReachable`; `ImplementsSession` (refinement) |
| `sdk_ready` | the same | violation: `AllWorkersReady` (finding 1) |
| `map_sync` | two tiles, two resolutions, two connections, four editions; `FairSpec` | `NoMixedMaps`, `HolesArePending`, `RequestsServed`, `CompositeShown`; `SyncHappens`; `ImplementsMirror` (refinement) |
| `map_scan` | tiles of two cells, six known areas around the origin, three places of the robot; `ScanFairSpec` | `ScanExact` (no gap, nothing beyond), `SyncedShowsKnown`, `ScansInPlace` (no move, no overlap); `ScanEnds` |
| `velocity` | three connections | `LossBounded` |
| `map_service` | two maps, two calls, one recovery waiting | `NoMoveAcrossMaps`, `LoadedIsInUse` (an action property) |
| `map_service_live` | one map, `FairSpec` | `WaitsEnd` |
| `map_service_true` | two maps, one call | violation: `TrueMeansDone` (finding 2) |
| `laser_scan` | four beams of four units, three points a scan, two scans | `ClosestShown`, `WithinHalfStep`, `RawOnce`, `TurnsAsSaid` |
| `worker_schedule` | four workers, intervals 2, 5, 9 and 15 ticks of half a millisecond; `FairSpec` | `Punctual`; `AgainAndAgain` |
| `voice_pick` | four messages, a queue of two, five plans; `FairSpec` | `LatestKept`, `OnceInOrder`, `OldPoseOnlyAfterLeak`, `PlacesWhereGrasped`; `LatestBegun` |

One run checks `TypeOK`, where it says more than types (the array has one value per
cell of its rectangle). The type invariants of the other modules
are proved, for every value of the constants, and stand in no run.

### Bounds, and why they are enough

- *MapHolder* is checked over every sequence of calls: its state space is finite
  because the tiles lie in a finite area. Alignment 2 makes rounding visible on
  both sides of zero.
- *SdkServer*: three connections are the one in use, the one a callback still
  holds and the one about to be made; identities are reused once nobody refers to
  them, so any number of reconnections happens. Two workers are the least with
  which one fails while another succeeded. `MaxLoopTryCnt` is the code's 3.
- *MapSync*: two tiles let a scan be interrupted half way. `MaxConn` and
  `MaxEdition` bound reconnections and map changes; they stand in the guards of
  the steps that replace the connection or the robot's map, never in the worker's.
- *VelocityControl*: with three connections an action goes stale twice.
- *MapService*: two calls are one given up, or the first half of a change of floor,
  and one handled after it. `MaxCalls` stops the callers, never the server.
  `RecoverDepth` is the 1 of the code's subscription.
- *MapScan*: known areas that are a multiple of the tile, a cell more or less, one
  cell and empty; areas near the robot inside, across the edge and outside. The
  alignment of 4 makes the array larger than the area.
- *WorkerSchedule*: `MaxPerform` and `Jitter` bound how long a `doPerform` takes and how
  much a sleep overruns, `MaxLosses` the reconnections. The first interval is as
  long as a slow `doPerform`, so that worker can be due in every pass; the last is
  longer than the longest sleep. The bound of `Punctual` is attained in the run.
- *VoicePick*: `QueueDepth` is 2 for the code's 10, so that four messages push one
  out; `MaxSaid` stops the speaker only. The plans have every operation, a pick that
  leaves the object in the gripper and a place on its own. The images are as
  many as the instructions begun.
- *LaserScan*: angles lie on beams, a quarter and half a step off, at both sides
  of the seam and beyond it; three points can meet on one beam. The proofs
  remove the bounds.

`CHECK_DEADLOCK FALSE` is set where the system may really stop: VelocityControl
when the process has died or its last connection is used up, MapService when the
bounded callers are done, LaserScan after the last bounded scan of a raw lidar,
VoicePick when the node has ended or a pick waits for an answer that came before it subscribed or that another pick took.

### Fairness

- `ThreadsRun` (SdkServer): weak fairness of both threads. Nothing makes the
  robot answer, so `Terminates` also covers a robot that never does.
- `RobotReachable`, the premise of `Reconnects` and `EndsWhenReachable`: a connection tried again and
  again is made some day (the connect loop retries for ever), and a worker that
  uses the robot is called in some pass while the connection is lost (trigger
  intervals are finite).
- `MapSync!FairSpec`: the work thread runs; strong fairness of the three kinds
  of robot call that a scan is made of (`ReinitMap`, `SyncWholeMap`, `SyncTile`): a
  call retried for ever succeeds some day. Weak fairness of `Explore`: the robot
  comes to know a map, without which there is nothing to show.
- `MapService!FairSpec`: the ROS thread serves, and a caller whose future is
  complete returns. The server is past `init_` and spins, which takes a
  first connection; from there on nothing is assumed of the robot or the connection.
- `ScanFairSpec` (MapScan): the loops of `syncWholeMap_` go on.
- `WorkerSchedule!FairSpec`: the work thread is never stopped for good.
- `VoicePick!FairSpec`: the thread goes on wherever it can, and the vision host
  answers an image it was sent (`AnswerArrives` is weakly fair), an assumption about a
  program outside the repository. Nothing makes that answer arrive after the
  subscription: `LatestBegun` names the wait that then never ends.

## 4. What is proved

TLAPS checks these for every value of the constants, under the named
assumptions in the modules (`AlignAssumption`, `WorkerAssumption`, ...: sizes
are natural numbers, sets hold what their comment says).

| module | theorems | argument |
|---|---|---|
| `MapHolder_proof` | `TypeCorrect`, `LayoutCorrect`, `AssertsNeverFail`, `MessageCorrect`, `HolderImplementsGrid` | the array has one value per cell of `avail`, `valid` lies inside it and everything outside `valid` is unknown; truncating division rounds to the floor after the code's correction, and an aligned rectangle contains the given one (lemmas about `CellRect`); with row-major offsets injective, a copy moves each cell and no other, so the refinement holds step by step |
| the same, the promises of the grid | `HolderInventsNothing`, `HolderLosesNothing` | proved of `MapGrid` alone (a write adds only what its tile says) and carried over by `HolderImplementsGrid` |
| the same, the scan | `ScanTypeCorrect`, `ScanIsExact`, `SyncedIsShown`, `ScanStaysInPlace`, `ScanKeepsGrid`, `ScanNeverFailsAsserts`, `ScanRunsOut` | see below |
| `SdkServer_proof` | `TypeCorrect`, `AssertsNeverFail`, `LoopSafe`, `ConnectionsSafe`, `WorkersSafe`, `ServerImplementsSession` | which phases of the two threads go together (`Phases`), whose platform is set in each (`Platforms`), one open connection (`Connections`), and what the counter of the initialisation round knows (`Counts`); with these, each action is a step or a stutter of `Session` |
| the same, the promises of the session | `ServerKeepsSession`, `LoopIsUndisturbed` | proved of `Session` alone and carried over by `ServerImplementsSession` |
| the same, the end | `StopIsHeeded` | the ways on that a thread has once the stop is requested (`StopHop`) form no cycle but the counted one over the workers, so the number of steps left goes down with each |
| `MapSync_proof` | `TypeCorrect`, `SourceCorrect`, `HolesCorrect`, `RequestsCorrect`, `CompositeCorrect`, `TakenDownWhole` | the prefix of a scan: tiles before `next` have been read since the scan began (`ScanPrefix`), tiles still owed lie ahead or the flag is up (`OwedAhead`), and what has been read shows the composite map (`ShownPrefix`) |
| the same, the picture | `SyncImplementsMirror`, `MapKeepsMirror`, `MapFollowsRobot` | with the invariant above each action is a step or a stutter of `MapMirror` (`RobotStep`, `AskStep`, `BreakStep`, `TileRead`); `MirrorSafe` is inductive there, because what is owed lies in what is still unread |
| `VelocityControl_proof` | `TypeCorrect`, `LossIsBounded` | a lost message leaves no action or a fresh one, a second one a fresh one (`LostLeavesFreshAction`, `SecondConstructs`) |
| `MapService_proof` | `TypeCorrect`, `MovesStayOnTheirMap`, `LoadsComplete`, `AnsweredOnce` | which call the handler works on (`Current`), what it has done before each of its steps (`Loading`), and that a caller waits for a call that was made (`Waits`) |
| `LaserScan_proof` | `TypeCorrect`, `ClosestIsShown`, `BeamsAreNear`, `RawScanOnce`, `DirectionAsSaid` | rounding to the nearest step (`RoundedNearest`) bounds the distance on the circle (`BeamIsNear`); the angle remembered for a beam is that of the point shown (`AnglesKept`), so each point is compared with the right one |
| `WorkerSchedule_proof` | `TypeCorrect`, `AlwaysPunctual` | how late a worker can be depends on where the pass is: one that was checked waits for those after it (`CheckedLate`), one still to be checked has waited for the rest of the last pass or a sleep (`UncheckedLate`), and the sleep ends before whatever the pass has checked (`WakesFor`) |
| `VoicePick_proof` | `TypeCorrect`, `NewestKept`, `InstructionsInOrder`, `OldPosesAfterLeak`, `PlacesGrasped`, `BegunInOrder` | what waits is the end of what was said (`QueueInOrder`), so a message that left the queue is begun, latched, superseded by a later one or pushed out (`GoneKept`); a pose still to be taken is that of the present image or not older than some pick that left its subscription (`PoseInv`, `Orphaned`); between opening and closing the gripper the place pose is the object's (`ArmInv`) |

The theorems named `TypeCorrect` (`ScanTypeCorrect` for `MapScan`) are the ground the
others stand on.

**The scan.** What `ScanExact` says of a scan is not inductive: that a tile goes where
the cursor is, and only there, holds because the array was reserved for all of
the known area and is still where it was reserved. The inductive invariant
`ScanInv` therefore has, beside the holder's own (`HolderOK`), that during a scan the
known area lies in `avail` and the cursor in the known area or at its end (`ScanPlaced`),
that `valid` does not reach beyond it, and that a scan under way is not yet `synced`. One
tile then adds the cells of `TileToAsk` to `Scanned` and no other (`ScannedGrows`), and a
write inside `avail` leaves `avail` as it is (`WrittenInPlace`). After the scan, updates
may move the array, but keep each cell or overwrite it with what the robot's map
says of it, so `SyncedShowsKnown` stays. `ScanRunsOut` is the safety half of `ScanEnds`: a
natural number (`Remaining`) goes down with each tile.

Only model-checked: the liveness properties (`Terminates`, `Reconnects`,
`EndsWhenReachable`, `SyncHappens`, `WaitsEnd`, `ScanEnds`, `AgainAndAgain`,
`LatestBegun`), which need fairness and ENABLED (of `ScanEnds` and `Terminates`, the
bound on what is left to do is proved: `ScanRunsOut`, `StopIsHeeded`), and the two
violations.

## 5. What the code does that its comments do not say

1. *sdk_ready.* "check if all workers are ok." (`server/slamware_ros_sdk_server.cpp:543`):
   Odometry and ImuRawData set their flag before their own query, do not clear it
   when the query throws, and are counted as ok in the next round.
2. *map_service_true.* "load stcm from filePath, and upload to slamware." and "get
   stcm and write to filePath." (`slamware_ros_sdk_client.h:111`, `:97`): both return
   true when the server's handler failed, because a ROS 2 service callback has no
   result; `syncGetStcm` then overwrites its file with nothing.

Things no comment speaks of that are in the models and in the hazards: the
velocity callbacks call through the shared platform, which may be empty by then,
and they share one action between the monitored and the unmonitored topic; SIGINT
does not end a server that still connects to a robot it cannot reach; a pick
sends its image before it subscribes to the answer and waits for it without a
limit, and its subscription outlives a callback that throws. If another pick's
subscription left behind ends a pick so, the pose of its image is still on the way:
the next pick's callback, which cannot tell, grasps by it, and the picks after that
may stay one image behind (`OldPoseOnlyAfterLeak` says how far back the pose can go).

## 6. Not modelled

- Forwarding callbacks, the other publishing workers, message conversion and
  parameters: one call or copy each, without state of their own.
- Time outside `WorkerSchedule`: sleeps are waits of any length, time limits may
  end any wait. `SdkServer` performs the workers of a pass in order, due or not.
- Floating point: angles and areas are integers in a suitable unit.
- `run_autonomous` of `multi_floor.py`, which its literal mode `""` never reaches.
- `xinhai_connect.py` beyond what its `main` reaches: `DedupePlanSubscriber`
  (`use_dedupe_subscriber` is the literal `False`, line 1691), `run`, the elevator, button
  and pocket functions (calls to them are commented out). In what it does reach,
  prompts, skills, coordinates and heights are abstracted to the operations of a
  plan and the image a pose stems from. SIGINT is not modelled there: it ends the
  process at any point and nothing is kept.
- The arm scripts (`grasp_duco_ros2*.py`, `control_host_model*.py`): calibrated poses
  and keyboard-driven calls to the vendor's arm library, near-copies of each other
  and of the functions of `xinhai_connect.py` that are modelled.
- The vendored SDK (`src/src/slamware_sdk/`: rpos headers, boost, Eigen): third-party,
  modelled from its use. It is nearly all of the lines of the repository.

## 7. Plan

Done, in this order: `CellRect`, `MapGrid`, `MapHolder` with the refinement;
`SdkServer`; `MapSync`; `VelocityControl`; `MapService`; `LaserScan`; `Session` and its
refinement; `VoicePick`; `WorkerSchedule`; `MapScan`; the proofs of each, with the promises of the
abstract specifications carried over to the code; `MapMirror` and its refinement.

What could follow: an abstract specification of `VoicePick` with its refinement, and the composition of `MapSync` with `MapScan`, so that a scan's tiles
carry both an edition and cells.
