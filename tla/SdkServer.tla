----------------------------- MODULE SdkServer ------------------------------
(***************************************************************************)
(* SlamwareRosSdkServer and the node's main function: how the process      *)
(* connects to the robot, runs the workers on the work thread, reconnects  *)
(* after a loss, and shuts down when ROS does (slamware_ros_sdk_server.cpp,*)
(* slamware_ros_sdk_server_node.cpp, server_worker_base.cpp).              *)
(*                                                                         *)
(* Two threads touch the server: main, which runs startRun, the ROS        *)
(* callbacks of rclcpp::spin and the destructor, and the work thread.  An  *)
(* action is what one of them does between two places where the other may  *)
(* see or change shared state: an atomic, a lock, or a call to the robot.  *)
(* The sleeps of roughSleepWait_ are waits of any length.                  *)
(***************************************************************************)
EXTENDS Integers, FiniteSets

CONSTANTS
    Conn,           \* identities of the connections; reused once unreferenced
    NoConn,         \* an empty slamware_platform_t
    NumWorkers,     \* size of serverWorkers_
    Calling,        \* workers whose methods call the robot
    Eager           \* of these, workers that do not clear the flag that the
                    \* base class's reinitWorkLoop sets (Odometry, ImuRawData)

ASSUME ConnAssumption == NoConn \notin Conn
ASSUME WorkerAssumption == NumWorkers \in Nat \ {0}
ASSUME EagerAssumption == Calling \subseteq 1 .. NumWorkers /\ Eager \subseteq Calling

VARIABLES
    pc,                 \* where each thread is
    handle,             \* the thread's local slamware_platform_t
    slamwarePltfm,      \* the shared one, behind slamwarePltfmLock_
    conn,               \* the robot's view of each connection
    state,              \* state_
    isStopRequested,    \* isStopRequested_
    rosOk,              \* rclcpp::ok()
    workDat,            \* workDat_ is not null
    serverWorkers,      \* serverWorkers_ is filled
    initOk,             \* workers whose isWorkLoopInitOk_ is set
    wk, cntOk, tries,   \* locals of reinitWorkLoop_ and loopWork_
    ready               \* history: workers whose reinitWorkLoop returned true
                        \* on the connection of the current work loop

shared == <<slamwarePltfm, conn>>
control == <<state, isStopRequested, rosOk>>
data == <<workDat, serverWorkers>>
loop == <<initOk, wk, cntOk, tries, ready>>
vars == <<pc, handle, shared, control, data, loop>>

Thread == {"main", "work"}
Workers == 1 .. NumWorkers
MaxLoopTryCnt == 3

MainLabel == {"start", "connect", "wait", "store", "create", "mark", "launch",
              "spin", "callback", "stop", "join", "release", "disconnect",
              "teardown", "exited", "aborted"}
WorkLabel == {"none", "begin", "test", "connect", "wait", "store", "recheck",
              "work", "reset", "retry", "reinit", "count", "pass", "perform",
              "release", "disconnect", "end", "ended"}

\* The places where the work thread uses its copy of the platform.
InLoop == {"reset", "retry", "reinit", "count", "pass", "perform"}

At(t, l) == pc[t] = l
GoTo(t, l) == pc' = [pc EXCEPT ![t] = l]
Hold(t, c) == handle' = [handle EXCEPT ![t] = c]

-----------------------------------------------------------------------------
(* The connection: loopTryConnectToSlamwarePlatform_, safeSet, safeRelease.*)

\* Where a thread goes on after loopTryConnectToSlamwarePlatform_.
Connected(t) == IF t = "main" THEN "create" ELSE "recheck"

\* The loop ends without a connection only because of isStopRequested_.
ConnectStopped(t) ==
    /\ At(t, "connect") /\ isStopRequested
    /\ GoTo(t, Connected(t))
    /\ UNCHANGED <<handle, shared, control, data, loop>>

\* An identity is free when it is closed and nobody holds a handle to it.
Free(c) == conn[c] = "closed" /\ c # slamwarePltfm /\ \A t \in Thread : c # handle[t]

ConnectSucceeds(t) ==
    /\ At(t, "connect") /\ ~isStopRequested
    /\ \E c \in Conn : /\ Free(c)
                       /\ conn' = [conn EXCEPT ![c] = "open"]
                       /\ Hold(t, c)
    /\ GoTo(t, "store")
    /\ UNCHANGED <<slamwarePltfm, control, data, loop>>

ConnectFails(t) ==
    /\ At(t, "connect") /\ ~isStopRequested
    /\ GoTo(t, "wait")
    /\ UNCHANGED <<handle, shared, control, data, loop>>

ConnectAgain(t) ==
    /\ At(t, "wait")
    /\ GoTo(t, "connect")
    /\ UNCHANGED <<handle, shared, control, data, loop>>

StorePlatform(t) ==
    /\ At(t, "store")
    /\ slamwarePltfm' = handle[t]
    /\ Hold(t, NoConn)
    /\ GoTo(t, Connected(t))
    /\ UNCHANGED <<conn, control, data, loop>>

\* safeReleaseSlamwarePlatform_: swapped out under the lock, disconnected after.
SwapOutPlatform(t) ==
    /\ At(t, "release")
    /\ Hold(t, slamwarePltfm)
    /\ slamwarePltfm' = NoConn
    /\ GoTo(t, "disconnect")
    /\ UNCHANGED <<conn, control, data, loop>>

Closed(c) == [conn EXCEPT ![c] = "closed"]

\* Seeded fault: the swapped-out platform is dropped, not disconnected.
DisconnectForgotten(t) ==
    /\ At(t, "disconnect")
    /\ Hold(t, NoConn)
    /\ GoTo(t, IF t = "main" THEN "teardown" ELSE "test")
    /\ UNCHANGED <<shared, control, data, loop>>

\* The work thread then waits up to 3 s and starts over.  An exception of
\* disconnect(), which is only logged, is taken to mean that the connection was
\* lost: the robot has closed it either way.
DisconnectPlatform(t) ==
    /\ At(t, "disconnect")
    /\ conn' = IF handle[t] = NoConn THEN conn ELSE Closed(handle[t])
    /\ Hold(t, NoConn)
    /\ GoTo(t, IF t = "main" THEN "teardown" ELSE "test")
    /\ UNCHANGED <<slamwarePltfm, control, data, loop>>

ConnectionStep(t) ==
    \/ ConnectStopped(t) \/ ConnectSucceeds(t) \/ ConnectFails(t)
    \/ ConnectAgain(t) \/ StorePlatform(t)
    \/ SwapOutPlatform(t) \/ DisconnectPlatform(t)

-----------------------------------------------------------------------------
(* The main thread.                                                        *)

\* startRun and the beginning of init_: there is no connection yet.
StartRun ==
    /\ At("main", "start")
    /\ isStopRequested' = FALSE
    /\ workDat' = TRUE
    /\ GoTo("main", IF slamwarePltfm = NoConn THEN "connect" ELSE "create")
    /\ UNCHANGED <<handle, shared, state, rosOk, serverWorkers, loop>>

\* Seeded fault: the work thread is started on an empty list of workers.
CreateWorkersLate ==
    /\ At("main", "create")
    /\ GoTo("main", "mark")
    /\ UNCHANGED <<handle, shared, control, data, loop>>

\* The rest of init_: workers with their publishers, subscriptions, services.
CreateWorkers ==
    /\ At("main", "create")
    /\ serverWorkers' = TRUE
    /\ GoTo("main", "mark")
    /\ UNCHANGED <<handle, shared, control, workDat, loop>>

\* rclcpp refuses to create them once it is shut down; nobody catches that.
CreateThrows ==
    /\ At("main", "create") /\ ~rosOk
    /\ GoTo("main", "aborted")
    /\ UNCHANGED <<handle, shared, control, data, loop>>

MarkRunning ==
    /\ At("main", "mark")
    /\ state' = "Running"
    /\ GoTo("main", "launch")
    /\ UNCHANGED <<handle, shared, isStopRequested, rosOk, data, loop>>

LaunchWorkThread ==
    /\ At("main", "launch")
    /\ pc' = [pc EXCEPT !["main"] = "spin", !["work"] = "begin"]
    /\ UNCHANGED <<handle, shared, control, data, loop>>

\* msgCbWrapperFun_T_, srvCbWrapperFun_T_: a callback runs on its own copy of
\* the platform; without one it returns at once.  The executor of rclcpp::spin
\* starts none once ROS is shut down.
CallbackBegins ==
    /\ At("main", "spin") /\ rosOk /\ slamwarePltfm # NoConn
    /\ Hold("main", slamwarePltfm)
    /\ GoTo("main", "callback")
    /\ UNCHANGED <<shared, control, data, loop>>

\* The callback is over; what it throws is caught by the wrapper.
CallbackEnds ==
    /\ At("main", "callback")
    /\ Hold("main", NoConn)
    /\ GoTo("main", "spin")
    /\ UNCHANGED <<shared, control, data, loop>>

SpinReturns ==
    /\ At("main", "spin") /\ ~rosOk
    /\ GoTo("main", "stop")
    /\ UNCHANGED <<handle, shared, control, data, loop>>

RequestStop ==
    /\ At("main", "stop")
    /\ isStopRequested' = TRUE
    /\ GoTo("main", "join")
    /\ UNCHANGED <<handle, shared, state, rosOk, data, loop>>

\* Seeded fault: the work thread is not joined.
StopWithoutWaiting ==
    /\ At("main", "join")
    /\ GoTo("main", "release")
    /\ UNCHANGED <<handle, shared, control, data, loop>>

\* waitUntilStopped; the destructor's cleanup_ finds nothing left to join.
WaitUntilStopped ==
    /\ At("main", "join") /\ At("work", "ended")
    /\ GoTo("main", "release")
    /\ UNCHANGED <<handle, shared, control, data, loop>>

\* The end of cleanup_.
Teardown ==
    /\ At("main", "teardown")
    /\ serverWorkers' = FALSE /\ workDat' = FALSE
    /\ state' = "NotInit"
    /\ GoTo("main", "exited")
    /\ UNCHANGED <<handle, shared, isStopRequested, rosOk, loop>>

MainStep ==
    \/ ConnectionStep("main")
    \/ StartRun \/ CreateWorkers \/ CreateThrows \/ MarkRunning
    \/ LaunchWorkThread \/ CallbackEnds \/ SpinReturns \/ RequestStop
    \/ WaitUntilStopped \/ Teardown

-----------------------------------------------------------------------------
(* The work thread: workThreadFun_ and loopWork_.                          *)

BeginWorkThread ==
    /\ At("work", "begin")
    /\ GoTo("work", "test")
    /\ UNCHANGED <<handle, shared, control, data, loop>>

\* Seeded fault: only the platform is looked at.
TestPlatformOnly ==
    /\ At("work", "test")
    /\ GoTo("work", IF slamwarePltfm = NoConn THEN "connect" ELSE "work")
    /\ UNCHANGED <<handle, shared, control, data, loop>>

\* The condition of workThreadFun_'s loop, and the look at the platform.
TestWorkThread ==
    /\ At("work", "test")
    /\ GoTo("work", IF isStopRequested \/ ~rosOk THEN "end"
                    ELSE IF slamwarePltfm = NoConn THEN "connect" ELSE "work")
    /\ UNCHANGED <<handle, shared, control, data, loop>>

\* Seeded fault: the connect loop is taken to end only with a platform.
RecheckMissing ==
    /\ At("work", "recheck")
    /\ GoTo("work", "work")
    /\ UNCHANGED <<handle, shared, control, data, loop>>

RecheckPlatform ==
    /\ At("work", "recheck")
    /\ GoTo("work", IF slamwarePltfm = NoConn THEN "test" ELSE "work")
    /\ UNCHANGED <<handle, shared, control, data, loop>>

EnterLoopWork ==
    /\ At("work", "work")
    /\ Hold("work", slamwarePltfm)
    /\ ready' = {}
    /\ GoTo("work", "reset")
    /\ UNCHANGED <<shared, control, data, initOk, wk, cntOk, tries>>

\* Seeded fault: the flags of the previous work loop survive.
ResetMissing ==
    /\ At("work", "reset")
    /\ tries' = 1
    /\ GoTo("work", "retry")
    /\ UNCHANGED <<handle, shared, control, data, initOk, wk, cntOk, ready>>

\* resetOnWorkLoopBegin of every worker.
ResetWorkers ==
    /\ At("work", "reset")
    /\ initOk' = {}
    /\ tries' = 1
    /\ GoTo("work", "retry")
    /\ UNCHANGED <<handle, shared, control, data, wk, cntOk, ready>>

\* loopWork_ returns or throws: its copy of the platform is dropped.
LeaveLoopWork == Hold("work", NoConn) /\ GoTo("work", "release")

ReinitRound ==
    /\ At("work", "retry")
    /\ IF tries <= MaxLoopTryCnt /\ ~isStopRequested
       THEN wk' = 1 /\ cntOk' = 0 /\ GoTo("work", "reinit") /\ UNCHANGED handle
       ELSE LeaveLoopWork /\ UNCHANGED <<wk, cntOk>>
    /\ UNCHANGED <<shared, control, data, initOk, tries, ready>>

\* A call on a connection that the robot dropped throws; on one that is up it
\* may throw as well, a connection exception or another.
CanReturn(w) == w \in Calling => conn[handle["work"]] = "open"

NextWorker(here, after) ==
    IF wk = NumWorkers THEN GoTo("work", after) /\ wk' = wk
                       ELSE GoTo("work", here) /\ wk' = wk + 1

ReinitSkipsWorker ==
    /\ At("work", "reinit") /\ wk \in initOk
    /\ cntOk' = cntOk + 1
    /\ NextWorker("reinit", "count")
    /\ UNCHANGED <<handle, shared, control, data, initOk, tries, ready>>

ReinitSucceeds ==
    /\ At("work", "reinit") /\ wk \notin initOk /\ CanReturn(wk)
    /\ initOk' = initOk \union {wk} /\ ready' = ready \union {wk}
    /\ cntOk' = cntOk + 1
    /\ NextWorker("reinit", "count")
    /\ UNCHANGED <<handle, shared, control, data, tries>>

\* It returns false, or throws what is not a connection exception.  An eager
\* worker keeps the flag its base class has set by then.
FlagsAfterFailure(w) == IF w \in Eager THEN initOk \union {w} ELSE initOk

ReinitFails ==
    /\ At("work", "reinit") /\ wk \notin initOk
    /\ wk \in Calling /\ CanReturn(wk)
    /\ initOk' = FlagsAfterFailure(wk)
    /\ NextWorker("reinit", "count")
    /\ UNCHANGED <<handle, shared, control, data, cntOk, tries, ready>>

\* A connection exception leaves reinitWorkLoop_ and loopWork_.
ReinitDisconnected ==
    /\ At("work", "reinit") /\ wk \notin initOk /\ wk \in Calling
    /\ LeaveLoopWork
    /\ UNCHANGED <<shared, control, data, loop>>

ReinitCount ==
    /\ At("work", "count")
    /\ IF cntOk = NumWorkers
       THEN GoTo("work", "pass") /\ tries' = tries
       ELSE GoTo("work", "retry") /\ tries' = tries + 1
    /\ UNCHANGED <<handle, shared, control, data, initOk, wk, cntOk, ready>>

\* Seeded fault: the work loop does not look at isStopRequested_.
BeginPassAlways ==
    /\ At("work", "pass")
    /\ wk' = 1
    /\ GoTo("work", "perform")
    /\ UNCHANGED <<handle, shared, control, data, initOk, cntOk, tries, ready>>

BeginPass ==
    /\ At("work", "pass")
    /\ IF isStopRequested
       THEN LeaveLoopWork /\ wk' = wk
       ELSE wk' = 1 /\ GoTo("work", "perform") /\ UNCHANGED handle
    /\ UNCHANGED <<shared, control, data, initOk, cntOk, tries, ready>>

\* checkToPerform: not due yet, done, or a failure that is only logged.
PerformWorker ==
    /\ At("work", "perform")
    /\ NextWorker("perform", "pass")
    /\ UNCHANGED <<handle, shared, control, data, initOk, cntOk, tries, ready>>

\* Seeded fault: a connection exception is logged like any other.
PerformKeepsOn ==
    /\ At("work", "perform") /\ wk \in Calling
    /\ NextWorker("perform", "pass")
    /\ UNCHANGED <<handle, shared, control, data, initOk, cntOk, tries, ready>>

PerformDisconnected ==
    /\ At("work", "perform") /\ wk \in Calling
    /\ LeaveLoopWork
    /\ UNCHANGED <<shared, control, data, loop>>

EndWorkThread ==
    /\ At("work", "end")
    /\ state' = "Stopped"
    /\ GoTo("work", "ended")
    /\ UNCHANGED <<handle, shared, isStopRequested, rosOk, data, loop>>

WorkStep ==
    \/ ConnectionStep("work")
    \/ BeginWorkThread \/ TestWorkThread \/ RecheckPlatform
    \/ EnterLoopWork \/ ResetWorkers \/ ReinitRound
    \/ ReinitSkipsWorker \/ ReinitSucceeds \/ ReinitFails \/ ReinitDisconnected
    \/ ReinitCount \/ BeginPass \/ PerformWorker \/ PerformDisconnected
    \/ EndWorkThread

-----------------------------------------------------------------------------
(* The environment.                                                        *)

Sigint ==
    /\ rosOk /\ rosOk' = FALSE
    /\ UNCHANGED <<pc, handle, shared, state, isStopRequested, data, loop>>

LoseConnection(c) ==
    /\ conn[c] = "open" /\ conn' = [conn EXCEPT ![c] = "lost"]
    /\ UNCHANGED <<pc, handle, slamwarePltfm, control, data, loop>>

\* The process is over: it left main, or an exception did.
Over == (At("main", "exited") \/ At("main", "aborted")) /\ UNCHANGED vars

Init ==
    /\ pc = [t \in Thread |-> IF t = "main" THEN "start" ELSE "none"]
    /\ handle = [t \in Thread |-> NoConn]
    /\ slamwarePltfm = NoConn
    /\ conn = [c \in Conn |-> "closed"]
    /\ state = "NotInit" /\ isStopRequested = FALSE /\ rosOk = TRUE
    /\ workDat = FALSE /\ serverWorkers = FALSE
    /\ initOk = {} /\ ready = {}
    /\ wk = 1 /\ cntOk = 0 /\ tries = 1

Next ==
    \/ MainStep
    \/ WorkStep
    \/ CallbackBegins
    \/ Sigint
    \/ \E c \in Conn : LoseConnection(c)
    \/ Over

Spec == Init /\ [][Next]_vars

(***************************************************************************)
(* Both threads keep running.  With a robot that can be reached, trying to *)
(* connect over and over succeeds (main is inside init_ or the work thread *)
(* in its loop), and a worker that is due on a lost connection is called   *)
(* in some pass, for the trigger intervals are finite.                     *)
(***************************************************************************)
ThreadsRun == WF_vars(MainStep) /\ WF_vars(WorkStep)

FairSpec == Spec /\ ThreadsRun

RobotReachable ==
    /\ \A t \in Thread : SF_vars(ConnectSucceeds(t))
    /\ SF_vars(PerformDisconnected /\ conn[handle["work"]] = "lost")

-----------------------------------------------------------------------------
TypeOK ==
    /\ pc \in [Thread -> MainLabel \union WorkLabel]
    /\ pc["main"] \in MainLabel /\ pc["work"] \in WorkLabel
    /\ handle \in [Thread -> Conn \union {NoConn}]
    /\ slamwarePltfm \in Conn \union {NoConn}
    /\ conn \in [Conn -> {"closed", "open", "lost"}]
    /\ state \in {"NotInit", "Running", "Stopped"}
    /\ isStopRequested \in BOOLEAN /\ rosOk \in BOOLEAN
    /\ workDat \in BOOLEAN /\ serverWorkers \in BOOLEAN
    /\ initOk \subseteq Workers /\ ready \subseteq Workers
    /\ wk \in Workers /\ cntOk \in 0 .. NumWorkers
    /\ tries \in 1 .. (MaxLoopTryCnt + 1)

(***************************************************************************)
(* The assertions of the code hold: the work thread starts in the running  *)
(* state (server.cpp:396), has a platform when it enters loopWork_ (:410,  *)
(* :564), and is not running after the join (:74).                         *)
(***************************************************************************)
AssertsHold ==
    /\ At("work", "begin") => state = "Running"
    /\ At("work", "work") => slamwarePltfm # NoConn
    /\ At("main", "release") => state # "Running"

(***************************************************************************)
(* The workers run on live objects: while the work loop is running, the    *)
(* work data (which they use without a null check) and the workers exist,  *)
(* and the loop's connection is the server's and has not been closed under *)
(* it by the other thread.                                                 *)
(***************************************************************************)
LoopOnLiveObjects ==
    pc["work"] \in InLoop =>
        /\ workDat /\ serverWorkers
        /\ handle["work"] = slamwarePltfm /\ slamwarePltfm # NoConn
        /\ conn[slamwarePltfm] # "closed"

(***************************************************************************)
(* Connections do not pile up: at any time at most one is not closed, and  *)
(* none is left when main returns, whatever was lost and whenever the stop *)
(* came.                                                                   *)
(***************************************************************************)
OneConnection ==
    /\ \A c, d \in Conn : conn[c] # "closed" /\ conn[d] # "closed" => c = d
    /\ At("main", "exited") => \A c \in Conn : conn[c] = "closed"

(***************************************************************************)
(* No worker that clears its own flag is run on a connection on which its  *)
(* reinitWorkLoop has not succeeded (the event provider of ReadEvents, the *)
(* map reset of ExploreMapUpdate), however many rounds it took.            *)
(***************************************************************************)
WorkersReady == At("work", "perform") => Workers \ Eager \subseteq ready

(***************************************************************************)
(* "check if all workers are ok." (server.cpp:543): the same of every      *)
(* worker.                                                                 *)
(***************************************************************************)
AllWorkersReady == At("work", "perform") => Workers \subseteq ready

(***************************************************************************)
(* After ROS shuts down, a server that got through startRun ends, also     *)
(* while the robot is unreachable or keeps dropping the connection.        *)
(***************************************************************************)
Terminates == (At("main", "spin") /\ ~rosOk) ~> At("main", "exited")

(***************************************************************************)
(* With a robot that can be reached, a connection lost while it was the    *)
(* server's is followed by a new one, unless ROS shuts down first.         *)
(***************************************************************************)
Reconnects == RobotReachable =>
    (slamwarePltfm # NoConn /\ conn[slamwarePltfm] = "lost")
        ~> ((\E c \in Conn : conn[c] = "open") \/ ~rosOk)

(***************************************************************************)
(* SIGINT at any time, also while init_ still connects, ends the process   *)
(* if the robot can be reached: with an unreachable one only a server that *)
(* got through startRun ends (Terminates), for nothing stops that loop.    *)
(***************************************************************************)
EndsWhenReachable == RobotReachable =>
    (~rosOk ~> (At("main", "exited") \/ At("main", "aborted")))

-----------------------------------------------------------------------------
(* The session that the threads implement.                                 *)

Phase ==
    CASE pc["main"] \in {"spin", "callback"} -> "running"
      [] pc["main"] \in {"stop", "join", "release", "disconnect", "teardown"} -> "closing"
      [] pc["main"] = "exited" -> "over"
      [] pc["main"] = "aborted" -> "aborted"
      [] OTHER -> "starting"

Live == {c \in Conn : conn[c] # "closed"}
CallbackUses == IF At("main", "callback") THEN handle["main"] ELSE NoConn
LoopUses == IF pc["work"] \in InLoop THEN handle["work"] ELSE NoConn

Robot == INSTANCE Session WITH
    phase <- Phase, live <- Live, link <- slamwarePltfm,
    callbackUses <- CallbackUses, loopUses <- LoopUses

(***************************************************************************)
(* The two threads with their retries implement the session: one live      *)
(* connection, none withdrawn under the work loop, no callback after the   *)
(* stop, nothing left open at the end.                                     *)
(***************************************************************************)
ImplementsSession == Robot!SSpec
=============================================================================
