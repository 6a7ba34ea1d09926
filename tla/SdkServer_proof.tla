-------------------------- MODULE SdkServer_proof ---------------------------
(***************************************************************************)
(* Proofs about SdkServer, for any number of workers and connections.      *)
(***************************************************************************)
EXTENDS SdkServer, TLAPS

Starting == {"start", "connect", "wait", "store", "create", "mark", "launch",
             "aborted"}
Spinning == {"spin", "callback", "stop", "join"}
Ending == {"release", "disconnect", "teardown", "exited"}

(***************************************************************************)
(* How far main is says whether the work thread runs, what state_ is and   *)
(* which objects exist.                                                    *)
(***************************************************************************)
Phases ==
    /\ At("work", "none") <=> pc["main"] \in Starting
    /\ pc["main"] \in Ending => At("work", "ended")
    /\ pc["main"] \in (Starting \ {"start", "aborted"}) \union Spinning => workDat
    /\ pc["main"] \in {"mark", "launch"} \union Spinning => serverWorkers
    /\ At("main", "launch") => state = "Running"
    /\ pc["main"] \in Starting \union {"spin", "callback", "stop"} => ~isStopRequested
    /\ pc["work"] \notin {"none", "ended"} => state = "Running"
    /\ pc["work"] = "ended" => state # "Running"

\* Who may hold a platform of its own, and when the shared one is empty.
Platforms ==
    /\ handle["main"] # NoConn => pc["main"] \in {"store", "callback", "disconnect"}
    /\ handle["work"] # NoConn => pc["work"] \in InLoop \union {"store", "disconnect"}
    /\ \A t \in Thread : At(t, "store") => handle[t] # NoConn
    /\ \A t \in Thread :
          pc[t] \in {"connect", "wait", "store", "disconnect"} => slamwarePltfm = NoConn
    /\ pc["main"] \in {"teardown", "exited", "start"} => slamwarePltfm = NoConn
    /\ At("work", "work") => slamwarePltfm # NoConn
    /\ pc["main"] \in {"create", "mark", "launch"} => slamwarePltfm # NoConn
    /\ pc["work"] \in InLoop =>
          handle["work"] = slamwarePltfm /\ slamwarePltfm # NoConn

\* A connection that is not closed is the shared one, or on its way there, or
\* on its way out.
Connections ==
    /\ slamwarePltfm # NoConn => conn[slamwarePltfm] # "closed"
    /\ \A t \in Thread : At(t, "store") => conn[handle[t]] # "closed"
    /\ \A c \in Conn : conn[c] # "closed" =>
          \/ c = slamwarePltfm
          \/ \E t \in Thread : pc[t] \in {"store", "disconnect"} /\ c = handle[t]

\* The count of reinitWorkLoop_ says that every worker passed so far is ready.
Counts ==
    /\ pc["work"] \in {"reinit", "count"} => tries <= MaxLoopTryCnt
    /\ At("work", "reset") => ready = {}
    /\ pc["work"] \in InLoop \ {"reset"} => initOk \ Eager \subseteq ready
    /\ At("work", "reinit") =>
          /\ cntOk <= wk - 1
          /\ cntOk = wk - 1 => 1 .. (wk - 1) \subseteq initOk
    /\ At("work", "count") => (cntOk = NumWorkers => Workers \subseteq initOk)
    /\ pc["work"] \in {"pass", "perform"} => Workers \subseteq initOk

IInv == TypeOK /\ Phases /\ Platforms /\ Connections /\ Counts

USE DEF At

\* The type invariant in two parts, places and objects, and the loop's counts.
PlacesType ==
    /\ pc \in [Thread -> MainLabel \union WorkLabel]
    /\ pc["main"] \in MainLabel /\ pc["work"] \in WorkLabel
    /\ handle \in [Thread -> Conn \union {NoConn}]
    /\ slamwarePltfm \in Conn \union {NoConn}
    /\ conn \in [Conn -> {"closed", "open", "lost"}]
    /\ state \in {"NotInit", "Running", "Stopped"}
    /\ isStopRequested \in BOOLEAN /\ rosOk \in BOOLEAN
    /\ workDat \in BOOLEAN /\ serverWorkers \in BOOLEAN

CountsType ==
    /\ initOk \subseteq Workers /\ ready \subseteq Workers
    /\ wk \in Workers /\ cntOk \in 0 .. NumWorkers
    /\ tries \in 1 .. (MaxLoopTryCnt + 1)

WorkInv == pc \in [Thread -> MainLabel \union WorkLabel] /\ CountsType /\ Counts

LEMMA TypeParts == TypeOK <=> PlacesType /\ CountsType
BY DEF TypeOK, PlacesType, CountsType

\* The counters stay in range when they advance.
LEMMA CountBounds ==
    /\ 1 \in Workers /\ 0 \in 0 .. NumWorkers /\ 1 \in 1 .. (MaxLoopTryCnt + 1)
    /\ \A w \in Workers : w # NumWorkers => w + 1 \in Workers
BY WorkerAssumption DEF Workers, MaxLoopTryCnt

LEMMA RoundBounds ==
    CountsType /\ Counts =>
        /\ At("work", "reinit") => cntOk + 1 \in 0 .. NumWorkers
        /\ At("work", "count") => tries + 1 \in 1 .. (MaxLoopTryCnt + 1)
<1> SUFFICES ASSUME CountsType, Counts
             PROVE  /\ At("work", "reinit") => cntOk + 1 \in 0 .. NumWorkers
                    /\ At("work", "count") => tries + 1 \in 1 .. (MaxLoopTryCnt + 1)
    OBVIOUS
<1>1. ASSUME At("work", "reinit") PROVE cntOk + 1 \in 0 .. NumWorkers
    <2>1. cntOk <= wk - 1
        BY <1>1 DEF Counts
    <2> QED
        BY <2>1, WorkerAssumption DEF CountsType, Workers
<1>2. ASSUME At("work", "count") PROVE tries + 1 \in 1 .. (MaxLoopTryCnt + 1)
    <2>1. tries <= MaxLoopTryCnt
        BY <1>2 DEF Counts
    <2> QED
        BY <2>1 DEF CountsType, MaxLoopTryCnt
<1> QED
    BY <1>1, <1>2

LEMMA InitIInv == Init => IInv
<1> SUFFICES ASSUME Init PROVE IInv
    OBVIOUS
<1> USE DEF Init, Thread
<1>1. PlacesType
    <2>1. "start" \in MainLabel /\ "none" \in WorkLabel
        BY DEF MainLabel, WorkLabel
    <2> QED
        BY <2>1 DEF PlacesType
<1>2. CountsType
    BY WorkerAssumption DEF CountsType, Workers, MaxLoopTryCnt
<1>3. Phases
    BY DEF Phases, Starting, Spinning, Ending
<1>4. Platforms /\ Connections /\ Counts
    BY DEF Platforms, Connections, Counts, InLoop
<1> QED
    BY <1>1, <1>2, <1>3, <1>4, TypeParts DEF IInv

LEMMA PlacesStep == PlacesType /\ [Next]_vars => PlacesType'
<1> SUFFICES ASSUME PlacesType, [Next]_vars PROVE PlacesType'
    OBVIOUS
<1> USE DEF PlacesType, Thread, GoTo, Hold, shared, control, data, loop,
        vars
<1>1. ASSUME NEW t \in Thread, ConnectionStep(t) PROVE PlacesType'
    <2>1. {"connect", "wait", "store", "create", "disconnect", "teardown"} \subseteq MainLabel
        BY DEF MainLabel
    <2>2. {"connect", "wait", "store", "recheck", "disconnect", "test"} \subseteq WorkLabel
        BY DEF WorkLabel
    <2> QED
        BY <1>1, <2>1, <2>2
           DEF ConnectionStep, ConnectStopped, ConnectSucceeds,
               ConnectFails, ConnectAgain, StorePlatform, SwapOutPlatform,
               DisconnectPlatform, Connected, Closed, Free
<1>2. CASE StartRun \/ CreateWorkers \/ CreateThrows \/ MarkRunning \/
          LaunchWorkThread
    <2>1. "begin" \in WorkLabel
        BY DEF WorkLabel
    <2>2. {"connect", "create", "mark", "launch", "spin", "aborted"} \subseteq MainLabel
        BY DEF MainLabel
    <2> QED
        BY <1>2, <2>1, <2>2
           DEF StartRun, CreateWorkers, CreateThrows, MarkRunning,
               LaunchWorkThread
<1>3. CASE CallbackBegins \/ CallbackEnds \/ SpinReturns \/ RequestStop
    BY <1>3
       DEF CallbackBegins, CallbackEnds, SpinReturns, RequestStop, MainLabel
<1>4. CASE WaitUntilStopped \/ Teardown
    BY <1>4 DEF WaitUntilStopped, Teardown, MainLabel
<1>5. CASE BeginWorkThread \/ TestWorkThread \/ RecheckPlatform \/
          EnterLoopWork \/ EndWorkThread
    BY <1>5
       DEF BeginWorkThread, TestWorkThread, RecheckPlatform, EnterLoopWork,
           EndWorkThread, WorkLabel
<1>6. CASE ResetWorkers \/ ReinitRound \/ ReinitCount
    BY <1>6
       DEF ResetWorkers, ReinitRound, ReinitCount, LeaveLoopWork, WorkLabel
<1>7. CASE ReinitSkipsWorker \/ ReinitSucceeds
    BY <1>7 DEF ReinitSkipsWorker, ReinitSucceeds, NextWorker, WorkLabel
<1>8. CASE ReinitFails \/ ReinitDisconnected
    BY <1>8
       DEF ReinitFails, ReinitDisconnected, FlagsAfterFailure, NextWorker,
           LeaveLoopWork, WorkLabel
<1>9. CASE BeginPass \/ PerformWorker \/ PerformDisconnected
    BY <1>9
       DEF BeginPass, PerformWorker, PerformDisconnected, NextWorker,
           LeaveLoopWork, WorkLabel
<1>10. CASE Sigint \/ (\E c \in Conn : LoseConnection(c)) \/ Over \/
          UNCHANGED vars
    BY <1>10 DEF Sigint, LoseConnection, Over
<1> QED
    BY <1>1, <1>2, <1>3, <1>4, <1>5, <1>6, <1>7, <1>8, <1>9, <1>10
       DEF Next, MainStep, WorkStep

LEMMA CountsTypeStep == WorkInv /\ [Next]_vars => CountsType'
<1> SUFFICES ASSUME WorkInv, [Next]_vars PROVE CountsType'
    OBVIOUS
<1> USE DEF WorkInv, CountsType, Thread, GoTo, Hold, shared, control, data,
        loop, vars
<1>1. ASSUME NEW t \in Thread, ConnectionStep(t) PROVE CountsType'
    BY <1>1, EagerAssumption, CountBounds, RoundBounds
       DEF ConnectionStep, ConnectStopped, ConnectSucceeds, ConnectFails,
           ConnectAgain, StorePlatform, SwapOutPlatform, DisconnectPlatform,
           Connected, Closed, Free
<1>2. CASE StartRun \/ CreateWorkers \/ CreateThrows \/ MarkRunning \/
          LaunchWorkThread
    BY <1>2, EagerAssumption, CountBounds, RoundBounds
       DEF StartRun, CreateWorkers, CreateThrows, MarkRunning,
           LaunchWorkThread
<1>3. CASE CallbackBegins \/ CallbackEnds \/ SpinReturns \/ RequestStop
    BY <1>3, EagerAssumption, CountBounds, RoundBounds
       DEF CallbackBegins, CallbackEnds, SpinReturns, RequestStop
<1>4. CASE WaitUntilStopped \/ Teardown
    BY <1>4, EagerAssumption, CountBounds, RoundBounds
       DEF WaitUntilStopped, Teardown
<1>5. CASE BeginWorkThread \/ TestWorkThread \/ RecheckPlatform \/
          EnterLoopWork \/ EndWorkThread
    BY <1>5, EagerAssumption, CountBounds, RoundBounds
       DEF BeginWorkThread, TestWorkThread, RecheckPlatform, EnterLoopWork,
           EndWorkThread
<1>6. CASE ResetWorkers \/ ReinitRound \/ ReinitCount
    BY <1>6, EagerAssumption, CountBounds, RoundBounds
       DEF ResetWorkers, ReinitRound, ReinitCount, LeaveLoopWork
<1>7. CASE ReinitSkipsWorker \/ ReinitSucceeds
    BY <1>7, EagerAssumption, CountBounds, RoundBounds
       DEF ReinitSkipsWorker, ReinitSucceeds, NextWorker
<1>8. CASE ReinitFails \/ ReinitDisconnected
    BY <1>8, EagerAssumption, CountBounds, RoundBounds
       DEF ReinitFails, ReinitDisconnected, FlagsAfterFailure, NextWorker,
           LeaveLoopWork
<1>9. CASE BeginPass \/ PerformWorker \/ PerformDisconnected
    BY <1>9, EagerAssumption, CountBounds, RoundBounds
       DEF BeginPass, PerformWorker, PerformDisconnected, NextWorker,
           LeaveLoopWork
<1>10. CASE Sigint \/ (\E c \in Conn : LoseConnection(c)) \/ Over \/
          UNCHANGED vars
    BY <1>10, EagerAssumption, CountBounds, RoundBounds
       DEF Sigint, LoseConnection, Over
<1> QED
    BY <1>1, <1>2, <1>3, <1>4, <1>5, <1>6, <1>7, <1>8, <1>9, <1>10
       DEF Next, MainStep, WorkStep

LEMMA PhasesStep == IInv /\ [Next]_vars => Phases'
<1> SUFFICES ASSUME IInv, [Next]_vars PROVE Phases'
    OBVIOUS
<1> USE DEF IInv, TypeOK, Phases, Platforms, Starting, Spinning, Ending,
        WorkLabel, Thread, GoTo, Hold, shared, control, data, loop, vars
<1>1. ASSUME NEW t \in Thread, ConnectionStep(t) PROVE Phases'
    <2>1. CASE t = "main"
        BY <1>1, <2>1
           DEF ConnectionStep, ConnectStopped, ConnectSucceeds,
               ConnectFails, ConnectAgain, StorePlatform, SwapOutPlatform,
               DisconnectPlatform, Connected, Closed, Free
    <2>2. CASE t = "work"
        <3>1. /\ pc["work"] \notin {"none", "ended"}
              /\ pc'["work"] \notin {"none", "ended"}
              /\ pc'["main"] = pc["main"]
              /\ UNCHANGED <<state, isStopRequested, workDat, serverWorkers>>
            BY <1>1, <2>2
               DEF ConnectionStep, ConnectStopped, ConnectSucceeds,
                   ConnectFails, ConnectAgain, StorePlatform,
                   SwapOutPlatform, DisconnectPlatform, Connected, Closed,
                   Free
        <3> QED
            BY <3>1
    <2> QED
        BY <2>1, <2>2
<1>2. CASE StartRun \/ CreateWorkers \/ CreateThrows \/ MarkRunning \/
          LaunchWorkThread
    BY <1>2
       DEF StartRun, CreateWorkers, CreateThrows, MarkRunning,
           LaunchWorkThread
<1>3. CASE CallbackBegins \/ CallbackEnds \/ SpinReturns \/ RequestStop
    BY <1>3 DEF CallbackBegins, CallbackEnds, SpinReturns, RequestStop
<1>4. CASE WaitUntilStopped \/ Teardown
    BY <1>4 DEF WaitUntilStopped, Teardown
<1>5. CASE BeginWorkThread \/ TestWorkThread \/ RecheckPlatform \/
          EnterLoopWork \/ EndWorkThread
    BY <1>5
       DEF BeginWorkThread, TestWorkThread, RecheckPlatform, EnterLoopWork,
           EndWorkThread
<1>6. CASE ResetWorkers \/ ReinitRound \/ ReinitCount
    BY <1>6 DEF ResetWorkers, ReinitRound, ReinitCount, LeaveLoopWork
<1>7. CASE ReinitSkipsWorker \/ ReinitSucceeds
    BY <1>7 DEF ReinitSkipsWorker, ReinitSucceeds, NextWorker
<1>8. CASE ReinitFails \/ ReinitDisconnected
    BY <1>8
       DEF ReinitFails, ReinitDisconnected, FlagsAfterFailure, NextWorker,
           LeaveLoopWork
<1>9. CASE BeginPass \/ PerformWorker \/ PerformDisconnected
    BY <1>9
       DEF BeginPass, PerformWorker, PerformDisconnected, NextWorker,
           LeaveLoopWork
<1>10. CASE Sigint \/ (\E c \in Conn : LoseConnection(c)) \/ Over \/
          UNCHANGED vars
    BY <1>10 DEF Sigint, LoseConnection, Over
<1> QED
    BY <1>1, <1>2, <1>3, <1>4, <1>5, <1>6, <1>7, <1>8, <1>9, <1>10
       DEF Next, MainStep, WorkStep

LEMMA PlatformsStep == IInv /\ [Next]_vars => Platforms'
<1> SUFFICES ASSUME IInv, [Next]_vars PROVE Platforms'
    OBVIOUS
<1> USE DEF IInv, TypeOK, Phases, Platforms, Starting, Spinning, Ending,
        MainLabel, WorkLabel, InLoop, Thread, GoTo, Hold, shared, control,
        data, loop, vars
<1>1. ASSUME NEW t \in Thread, ConnectionStep(t) PROVE Platforms'
    BY <1>1, ConnAssumption
       DEF ConnectionStep, ConnectStopped, ConnectSucceeds, ConnectFails,
           ConnectAgain, StorePlatform, SwapOutPlatform, DisconnectPlatform,
           Connected, Closed, Free
<1>2. CASE StartRun \/ CreateWorkers \/ CreateThrows \/ MarkRunning \/
          LaunchWorkThread
    BY <1>2, ConnAssumption
       DEF StartRun, CreateWorkers, CreateThrows, MarkRunning,
           LaunchWorkThread
<1>3. CASE CallbackBegins \/ CallbackEnds \/ SpinReturns \/ RequestStop
    BY <1>3, ConnAssumption
       DEF CallbackBegins, CallbackEnds, SpinReturns, RequestStop
<1>4. CASE WaitUntilStopped \/ Teardown
    BY <1>4, ConnAssumption DEF WaitUntilStopped, Teardown
<1>5. CASE BeginWorkThread \/ TestWorkThread \/ RecheckPlatform \/
          EnterLoopWork \/ EndWorkThread
    BY <1>5, ConnAssumption
       DEF BeginWorkThread, TestWorkThread, RecheckPlatform, EnterLoopWork,
           EndWorkThread
<1>6. CASE ResetWorkers \/ ReinitRound \/ ReinitCount
    BY <1>6, ConnAssumption
       DEF ResetWorkers, ReinitRound, ReinitCount, LeaveLoopWork
<1>7. CASE ReinitSkipsWorker \/ ReinitSucceeds
    BY <1>7, ConnAssumption DEF ReinitSkipsWorker, ReinitSucceeds, NextWorker
<1>8. CASE ReinitFails \/ ReinitDisconnected
    BY <1>8, ConnAssumption
       DEF ReinitFails, ReinitDisconnected, FlagsAfterFailure, NextWorker,
           LeaveLoopWork
<1>9. CASE BeginPass \/ PerformWorker \/ PerformDisconnected
    BY <1>9, ConnAssumption
       DEF BeginPass, PerformWorker, PerformDisconnected, NextWorker,
           LeaveLoopWork
<1>10. CASE Sigint \/ (\E c \in Conn : LoseConnection(c)) \/ Over \/
          UNCHANGED vars
    BY <1>10, ConnAssumption DEF Sigint, LoseConnection, Over
<1> QED
    BY <1>1, <1>2, <1>3, <1>4, <1>5, <1>6, <1>7, <1>8, <1>9, <1>10
       DEF Next, MainStep, WorkStep

LEMMA ConnectionsStep == IInv /\ [Next]_vars => Connections'
<1> SUFFICES ASSUME IInv, [Next]_vars PROVE Connections'
    OBVIOUS
<1> USE DEF IInv, TypeOK, Phases, Platforms, Connections, Starting,
        Spinning, Ending, MainLabel, WorkLabel, InLoop, Thread, GoTo, Hold,
        shared, control, data, loop, vars
<1>1. ASSUME NEW t \in Thread, ConnectionStep(t) PROVE Connections'
    BY <1>1, ConnAssumption
       DEF ConnectionStep, ConnectStopped, ConnectSucceeds, ConnectFails,
           ConnectAgain, StorePlatform, SwapOutPlatform, DisconnectPlatform,
           Connected, Closed, Free
<1>2. CASE StartRun \/ CreateWorkers \/ CreateThrows \/ MarkRunning \/
          LaunchWorkThread
    BY <1>2, ConnAssumption
       DEF StartRun, CreateWorkers, CreateThrows, MarkRunning,
           LaunchWorkThread
<1>3. CASE CallbackBegins \/ CallbackEnds \/ SpinReturns \/ RequestStop
    BY <1>3, ConnAssumption
       DEF CallbackBegins, CallbackEnds, SpinReturns, RequestStop
<1>4. CASE WaitUntilStopped \/ Teardown
    BY <1>4, ConnAssumption DEF WaitUntilStopped, Teardown
<1>5. CASE BeginWorkThread \/ TestWorkThread \/ RecheckPlatform \/
          EnterLoopWork \/ EndWorkThread
    BY <1>5, ConnAssumption
       DEF BeginWorkThread, TestWorkThread, RecheckPlatform, EnterLoopWork,
           EndWorkThread
<1>6. CASE ResetWorkers \/ ReinitRound \/ ReinitCount
    BY <1>6, ConnAssumption
       DEF ResetWorkers, ReinitRound, ReinitCount, LeaveLoopWork
<1>7. CASE ReinitSkipsWorker \/ ReinitSucceeds
    BY <1>7, ConnAssumption DEF ReinitSkipsWorker, ReinitSucceeds, NextWorker
<1>8. CASE ReinitFails \/ ReinitDisconnected
    BY <1>8, ConnAssumption
       DEF ReinitFails, ReinitDisconnected, FlagsAfterFailure, NextWorker,
           LeaveLoopWork
<1>9. CASE BeginPass \/ PerformWorker \/ PerformDisconnected
    BY <1>9, ConnAssumption
       DEF BeginPass, PerformWorker, PerformDisconnected, NextWorker,
           LeaveLoopWork
<1>10. CASE Sigint \/ (\E c \in Conn : LoseConnection(c)) \/ Over \/
          UNCHANGED vars
    BY <1>10, ConnAssumption DEF Sigint, LoseConnection, Over
<1> QED
    BY <1>1, <1>2, <1>3, <1>4, <1>5, <1>6, <1>7, <1>8, <1>9, <1>10
       DEF Next, MainStep, WorkStep

LEMMA CountsStep == IInv /\ [Next]_vars => Counts'
<1> SUFFICES ASSUME IInv, [Next]_vars PROVE Counts'
    OBVIOUS
<1> USE DEF IInv, TypeOK, Counts, WorkLabel, Workers, InLoop, MaxLoopTryCnt,
        Thread, GoTo, Hold, shared, control, data, loop, vars
<1>1. ASSUME NEW t \in Thread, ConnectionStep(t) PROVE Counts'
    BY <1>1, WorkerAssumption
       DEF ConnectionStep, ConnectStopped, ConnectSucceeds, ConnectFails,
           ConnectAgain, StorePlatform, SwapOutPlatform, DisconnectPlatform,
           Connected, Closed, Free
<1>2. CASE StartRun \/ CreateWorkers \/ CreateThrows \/ MarkRunning \/
          LaunchWorkThread
    BY <1>2, WorkerAssumption
       DEF StartRun, CreateWorkers, CreateThrows, MarkRunning,
           LaunchWorkThread
<1>3. CASE CallbackBegins \/ CallbackEnds \/ SpinReturns \/ RequestStop
    BY <1>3, WorkerAssumption
       DEF CallbackBegins, CallbackEnds, SpinReturns, RequestStop
<1>4. CASE WaitUntilStopped \/ Teardown
    BY <1>4, WorkerAssumption DEF WaitUntilStopped, Teardown
<1>5. CASE BeginWorkThread \/ TestWorkThread \/ RecheckPlatform \/
          EnterLoopWork \/ EndWorkThread
    BY <1>5, WorkerAssumption
       DEF BeginWorkThread, TestWorkThread, RecheckPlatform, EnterLoopWork,
           EndWorkThread
<1>6. CASE ResetWorkers \/ ReinitRound \/ ReinitCount
    BY <1>6, WorkerAssumption
       DEF ResetWorkers, ReinitRound, ReinitCount, LeaveLoopWork
<1>7. CASE ReinitSkipsWorker \/ ReinitSucceeds
    BY <1>7, WorkerAssumption
       DEF ReinitSkipsWorker, ReinitSucceeds, NextWorker
<1>8. CASE ReinitFails \/ ReinitDisconnected
    BY <1>8, WorkerAssumption
       DEF ReinitFails, ReinitDisconnected, FlagsAfterFailure, NextWorker,
           LeaveLoopWork
<1>9. CASE BeginPass \/ PerformWorker \/ PerformDisconnected
    BY <1>9, WorkerAssumption
       DEF BeginPass, PerformWorker, PerformDisconnected, NextWorker,
           LeaveLoopWork
<1>10. CASE Sigint \/ (\E c \in Conn : LoseConnection(c)) \/ Over \/
          UNCHANGED vars
    BY <1>10, WorkerAssumption DEF Sigint, LoseConnection, Over
<1> QED
    BY <1>1, <1>2, <1>3, <1>4, <1>5, <1>6, <1>7, <1>8, <1>9, <1>10
       DEF Next, MainStep, WorkStep

LEMMA IInvStep == IInv /\ [Next]_vars => IInv'
<1> SUFFICES ASSUME IInv, [Next]_vars PROVE IInv'
    OBVIOUS
<1>1. PlacesType /\ CountsType /\ Counts
    BY TypeParts DEF IInv
<1>2. PlacesType' /\ CountsType'
    BY <1>1, PlacesStep, CountsTypeStep DEF WorkInv, PlacesType
<1>3. TypeOK'
    BY <1>2 DEF TypeOK, PlacesType, CountsType
<1> QED
    BY <1>3, PhasesStep, PlatformsStep, ConnectionsStep, CountsStep DEF IInv

THEOREM Invariance == Spec => []IInv
BY InitIInv, IInvStep, PTL DEF Spec

(***************************************************************************)
(* Every variable keeps its type; the workers' counters stay in bounds.    *)
(***************************************************************************)
THEOREM TypeCorrect == Spec => []TypeOK
<1>1. IInv => TypeOK
    BY DEF IInv
<1> QED
    BY <1>1, Invariance, PTL

(***************************************************************************)
(* The assertions of workThreadFun_, loopWork_ and waitUntilStopped hold.  *)
(***************************************************************************)
THEOREM AssertsNeverFail == Spec => []AssertsHold
<1>1. IInv => AssertsHold
    BY DEF IInv, Phases, Platforms, AssertsHold, Starting, Spinning, Ending
<1> QED
    BY <1>1, Invariance, PTL

(***************************************************************************)
(* The work loop never runs on work data, workers or a connection that the *)
(* main thread has taken away.                                             *)
(***************************************************************************)
THEOREM LoopSafe == Spec => []LoopOnLiveObjects
<1>1. ASSUME IInv PROVE LoopOnLiveObjects
    <2>1. SUFFICES ASSUME pc["work"] \in InLoop
                   PROVE  /\ workDat /\ serverWorkers
                          /\ handle["work"] = slamwarePltfm
                          /\ slamwarePltfm # NoConn
                          /\ conn[slamwarePltfm] # "closed"
        BY DEF LoopOnLiveObjects
    <2>2. pc["main"] \in Spinning
        BY <1>1, <2>1
           DEF IInv, TypeOK, Phases, MainLabel, Starting, Spinning, Ending, InLoop
    <2> QED
        BY <1>1, <2>1, <2>2 DEF IInv, Phases, Platforms, Connections
<1> QED
    BY <1>1, Invariance, PTL

(***************************************************************************)
(* At most one connection is ever open or lost, and none when main ends.   *)
(***************************************************************************)
THEOREM ConnectionsSafe == Spec => []OneConnection
<1>1. ASSUME IInv PROVE OneConnection
    <2> USE DEF IInv, TypeOK, Phases, Platforms, Connections, Thread, MainLabel,
                WorkLabel, Starting, Spinning, Ending, InLoop
    <2>1. ASSUME NEW c \in Conn, NEW d \in Conn,
                 conn[c] # "closed", conn[d] # "closed"
          PROVE  c = d
        BY <1>1, <2>1, ConnAssumption
    <2>2. At("main", "exited") => \A c \in Conn : conn[c] = "closed"
        BY <1>1, ConnAssumption
    <2> QED
        BY <2>1, <2>2 DEF OneConnection
<1> QED
    BY <1>1, Invariance, PTL

(***************************************************************************)
(* A worker that clears its own flag runs only on a connection it was      *)
(* initialised on, for any number of workers and rounds.                   *)
(***************************************************************************)
THEOREM WorkersSafe == Spec => []WorkersReady
<1>1. IInv => WorkersReady
    BY DEF IInv, Counts, WorkersReady, InLoop
<1> QED
    BY <1>1, Invariance, PTL

-----------------------------------------------------------------------------
(* The refinement of Session.                                              *)

USE DEF Robot!svars

LEMMA SessionInit == Init => Robot!SInit
BY DEF Init, Robot!SInit, Phase, Live, CallbackUses, LoopUses, Thread, InLoop

\* Making, offering, withdrawing and closing a connection.
LEMMA ConnectionSession ==
    ASSUME IInv, NEW t \in Thread, ConnectionStep(t)
    PROVE  [Robot!SNext]_(Robot!svars)
<1> USE DEF Thread
<1>t. pc \in [Thread -> MainLabel \union WorkLabel] /\ handle \in [Thread -> Conn \union {NoConn}]
    BY DEF IInv, TypeOK
<1>o. t = "main" => pc["main"] \in {"connect", "wait", "store", "release", "disconnect"}
    BY DEF ConnectionStep, ConnectStopped, ConnectSucceeds, ConnectFails, ConnectAgain,
           StorePlatform, SwapOutPlatform, DisconnectPlatform
<1>w. /\ t = "main" => pc["work"] \in {"none", "ended"}
      /\ t = "work" => pc["work"] \notin InLoop /\ pc["main"] \in Spinning
    BY <1>o
       DEF ConnectionStep, ConnectStopped, ConnectSucceeds, ConnectFails, ConnectAgain,
           StorePlatform, SwapOutPlatform, DisconnectPlatform, IInv, TypeOK, Phases,
           Starting, Spinning, Ending, InLoop, MainLabel
<1>up. Robot!Up /\ (Phase = "starting" => t = "main")
    BY <1>o, <1>w DEF Robot!Up, Phase, Spinning
<1>l. LoopUses = NoConn
    BY <1>w DEF LoopUses, InLoop
<1>live. Live \subseteq IF pc[t] \in {"store", "disconnect"} THEN {handle[t]} ELSE {slamwarePltfm}
    <2>1. \A u \in Thread : pc[u] \in {"store", "disconnect"} => u = t
        BY <1>o, <1>w DEF Spinning
    <2>2. \A c \in Conn : conn[c] # "closed" =>
              c = slamwarePltfm \/ (pc[t] \in {"store", "disconnect"} /\ c = handle[t])
        BY <2>1 DEF IInv, Connections
    <2>3. pc[t] \in {"store", "disconnect"} => slamwarePltfm = NoConn
        BY DEF IInv, Platforms
    <2> QED
        BY <2>2, <2>3, ConnAssumption DEF Live
<1>1. CASE ConnectStopped(t) \/ ConnectFails(t) \/ ConnectAgain(t)
    <2>1. UNCHANGED <<slamwarePltfm, conn, handle>>
        BY <1>1 DEF ConnectStopped, ConnectFails, ConnectAgain, shared
    <2>2. UNCHANGED <<Phase, CallbackUses, LoopUses>>
        BY <1>1, <1>t, <2>1
           DEF ConnectStopped, ConnectFails, ConnectAgain, GoTo, Connected, Phase,
               CallbackUses, LoopUses, InLoop
    <2> QED
        BY <2>1, <2>2 DEF Live
<1>2. CASE ConnectSucceeds(t)
    <2>1. PICK c \in Conn : /\ Free(c) /\ conn' = [conn EXCEPT ![c] = "open"]
                            /\ Hold(t, c)
        BY <1>2 DEF ConnectSucceeds
    <2>2. UNCHANGED <<slamwarePltfm, Phase, CallbackUses, LoopUses>>
        BY <1>2, <1>t, <1>o, <2>1
           DEF ConnectSucceeds, GoTo, Hold, Phase, CallbackUses, LoopUses, InLoop
    <2>3. slamwarePltfm = NoConn
        BY <1>2 DEF IInv, Platforms, ConnectSucceeds
    <2>4. Live = {}
        BY <1>live, <1>2, <2>3, ConnAssumption DEF ConnectSucceeds, Live
    <2>5. Live' = {c}
        BY <2>1, <2>4 DEF Live, IInv, TypeOK
    <2>6. c # CallbackUses
        BY <2>1, ConnAssumption DEF Free, CallbackUses
    <2> QED
        BY <1>up, <2>2, <2>3, <2>4, <2>5, <2>6 DEF Robot!SNext, Robot!Connect, Robot!Up
<1>3. CASE StorePlatform(t)
    <2>1. UNCHANGED <<Live, Phase, CallbackUses, LoopUses>>
        BY <1>3, <1>t, <1>o
           DEF StorePlatform, GoTo, Hold, Connected, Phase, CallbackUses, LoopUses,
               InLoop, Live
    <2>2. slamwarePltfm = NoConn /\ slamwarePltfm' \in Live
        BY <1>3, <1>t DEF StorePlatform, IInv, Platforms, Connections, Live
    <2> QED
        BY <1>up, <2>1, <2>2 DEF Robot!SNext, Robot!Offer, Robot!Up
<1>4. CASE SwapOutPlatform(t)
    <2>1. UNCHANGED <<Live, Phase, CallbackUses, LoopUses>>
        BY <1>4, <1>t, <1>o
           DEF SwapOutPlatform, GoTo, Hold, Phase, CallbackUses, LoopUses, InLoop, Live
    <2>2. slamwarePltfm' = NoConn
        BY <1>4 DEF SwapOutPlatform
    <2>3. Phase \in {"running", "closing"}
        BY <1>4, <1>o, <1>w DEF SwapOutPlatform, Phase, Spinning
    <2> QED
        BY <1>l, <2>1, <2>2, <2>3 DEF Robot!SNext, Robot!Withdraw
<1>5. CASE DisconnectPlatform(t)
    <2>1. UNCHANGED <<slamwarePltfm, Phase, CallbackUses, LoopUses>>
        BY <1>5, <1>t, <1>o
           DEF DisconnectPlatform, GoTo, Hold, Phase, CallbackUses, LoopUses, InLoop
    <2>2. slamwarePltfm = NoConn
        BY <1>5 DEF IInv, Platforms, DisconnectPlatform
    <2>3. Live' = {}
        BY <1>5, <1>live, ConnAssumption DEF DisconnectPlatform, Closed, Live, IInv, TypeOK
    <2> QED
        BY <1>l, <2>1, <2>2, <2>3 DEF Robot!SNext, Robot!Disconnect
<1> QED
    BY <1>1, <1>2, <1>3, <1>4, <1>5 DEF ConnectionStep

\* Where main moves between two phases, with what it holds.
LEMMA MainSession ==
    ASSUME IInv, MainStep \/ CallbackBegins
    PROVE  [Robot!SNext]_(Robot!svars)
<1> USE DEF Thread
<1>t. /\ pc \in [Thread -> MainLabel \union WorkLabel]
      /\ handle \in [Thread -> Conn \union {NoConn}]
    BY DEF IInv, TypeOK
<1>1. CASE \/ StartRun \/ CreateWorkers \/ MarkRunning \/ RequestStop \/ WaitUntilStopped
    <2>1. UNCHANGED <<Live, slamwarePltfm>>
        BY <1>1 DEF StartRun, CreateWorkers, MarkRunning, RequestStop, WaitUntilStopped,
                    shared, Live
    <2>2. UNCHANGED <<Phase, CallbackUses, LoopUses>>
        BY <1>1, <1>t DEF StartRun, CreateWorkers, MarkRunning, RequestStop,
                    WaitUntilStopped, GoTo, Phase, CallbackUses, LoopUses
    <2> QED
        BY <2>1, <2>2
<1>2. CASE CreateThrows \/ LaunchWorkThread \/ SpinReturns \/ Teardown
    <2>1. UNCHANGED <<Live, slamwarePltfm>>
        BY <1>2 DEF CreateThrows, LaunchWorkThread, SpinReturns, Teardown, shared, Live
    <2>2. UNCHANGED <<CallbackUses, LoopUses>>
        BY <1>2, <1>t DEF CreateThrows, LaunchWorkThread, SpinReturns, Teardown, GoTo,
                    CallbackUses, LoopUses, IInv, Phases, Starting, InLoop
    <2>3. CASE CreateThrows
        <3>1. Phase = "starting" /\ Phase' = "aborted"
            BY <2>3, <1>t DEF CreateThrows, GoTo, Phase
        <3> QED
            BY <2>1, <2>2, <3>1 DEF Robot!SNext, Robot!Progress, Robot!Abort
    <2>4. CASE LaunchWorkThread
        <3>1. Phase = "starting" /\ Phase' = "running"
            BY <2>4, <1>t DEF LaunchWorkThread, Phase
        <3>2. slamwarePltfm # NoConn
            BY <2>4 DEF LaunchWorkThread, IInv, Platforms
        <3> QED
            BY <2>1, <2>2, <3>1, <3>2 DEF Robot!SNext, Robot!Progress, Robot!Start
    <2>5. CASE SpinReturns
        <3>1. Phase = "running" /\ Phase' = "closing" /\ CallbackUses = NoConn
            BY <2>5, <1>t DEF SpinReturns, GoTo, Phase, CallbackUses
        <3> QED
            BY <2>1, <2>2, <3>1 DEF Robot!SNext, Robot!Progress, Robot!Close
    <2>6. CASE Teardown
        <3>1. Phase = "closing" /\ Phase' = "over" /\ CallbackUses = NoConn
            BY <2>6, <1>t DEF Teardown, GoTo, Phase, CallbackUses
        <3>2. pc["work"] = "ended" /\ slamwarePltfm = NoConn
            BY <2>6 DEF Teardown, IInv, Phases, Platforms, Ending
        <3>3. Live = {} /\ LoopUses = NoConn
            BY <2>6, <3>2, ConnAssumption
               DEF Teardown, IInv, Connections, Live, LoopUses, InLoop
        <3> QED
            BY <2>1, <2>2, <3>1, <3>2, <3>3 DEF Robot!SNext, Robot!Progress, Robot!End
    <2> QED
        BY <1>2, <2>3, <2>4, <2>5, <2>6
<1>3. CASE CallbackBegins
    <2>1. UNCHANGED <<Live, slamwarePltfm, Phase, LoopUses>>
        BY <1>3, <1>t DEF CallbackBegins, shared, Live, GoTo, Hold, Phase, LoopUses
    <2>2. Phase = "running" /\ CallbackUses = NoConn /\ CallbackUses' = slamwarePltfm
        BY <1>3, <1>t DEF CallbackBegins, GoTo, Hold, Phase, CallbackUses
    <2> QED
        BY <1>3, <2>1, <2>2 DEF CallbackBegins, Robot!SNext, Robot!BeginCallback
<1>4. CASE CallbackEnds
    <2>1. UNCHANGED <<Live, slamwarePltfm, Phase, LoopUses>>
        BY <1>4, <1>t DEF CallbackEnds, shared, Live, GoTo, Hold, Phase, LoopUses
    <2>2. CallbackUses' = NoConn
        BY <1>4, <1>t DEF CallbackEnds, GoTo, CallbackUses
    <2> QED
        BY <2>1, <2>2 DEF Robot!SNext, Robot!EndCallback
<1>5. CASE ConnectionStep("main")
    BY <1>5, ConnectionSession
<1> QED
    BY <1>1, <1>2, <1>3, <1>4, <1>5 DEF MainStep

\* The work thread enters its loop, goes round in it and leaves it.
LEMMA WorkSession ==
    ASSUME IInv, WorkStep
    PROVE  [Robot!SNext]_(Robot!svars)
<1> USE DEF Thread
<1>t. /\ pc \in [Thread -> MainLabel \union WorkLabel]
      /\ handle \in [Thread -> Conn \union {NoConn}]
    BY DEF IInv, TypeOK
<1>1. CASE BeginWorkThread \/ TestWorkThread \/ RecheckPlatform \/ EndWorkThread
    <2>1. UNCHANGED <<Live, slamwarePltfm, Phase, CallbackUses>>
        BY <1>1, <1>t DEF BeginWorkThread, TestWorkThread, RecheckPlatform, EndWorkThread,
                    shared, Live, GoTo, Phase, CallbackUses
    <2>2. UNCHANGED LoopUses
        BY <1>1, <1>t DEF BeginWorkThread, TestWorkThread, RecheckPlatform, EndWorkThread,
                    GoTo, LoopUses, InLoop
    <2> QED
        BY <2>1, <2>2
<1>2. CASE EnterLoopWork
    <2>1. UNCHANGED <<Live, slamwarePltfm, Phase, CallbackUses>>
        BY <1>2, <1>t DEF EnterLoopWork, shared, Live, GoTo, Hold, Phase, CallbackUses
    <2>2. LoopUses = NoConn /\ LoopUses' = slamwarePltfm
        BY <1>2, <1>t DEF EnterLoopWork, GoTo, Hold, LoopUses, InLoop
    <2>3. slamwarePltfm # NoConn
        BY <1>2 DEF EnterLoopWork, IInv, Platforms
    <2>4. Phase \in {"running", "closing"}
        BY <1>2 DEF EnterLoopWork, IInv, TypeOK, Phases, Starting, Spinning, Ending,
                    MainLabel, Phase
    <2> QED
        BY <2>1, <2>2, <2>3, <2>4 DEF Robot!SNext, Robot!BeginLoop
<1>3. ASSUME LeaveLoopWork, UNCHANGED shared, pc["work"] \in InLoop
      PROVE  [Robot!SNext]_(Robot!svars)
    <2>1. UNCHANGED <<Live, slamwarePltfm, Phase, CallbackUses>>
        BY <1>3, <1>t DEF LeaveLoopWork, shared, Live, GoTo, Hold, Phase, CallbackUses
    <2>2. LoopUses # NoConn /\ LoopUses' = NoConn
        BY <1>3, <1>t DEF LeaveLoopWork, GoTo, Hold, LoopUses, InLoop, IInv, Platforms
    <2> QED
        BY <2>1, <2>2 DEF Robot!SNext, Robot!EndLoop
<1>4. ASSUME NEW l \in InLoop, GoTo("work", l), pc["work"] \in InLoop, UNCHANGED <<shared, handle>>
      PROVE  [Robot!SNext]_(Robot!svars)
    BY <1>4, <1>t DEF shared, Live, GoTo, Phase, CallbackUses, LoopUses
<1>5. CASE ReinitRound \/ BeginPass
    BY <1>3, <1>4, <1>5 DEF ReinitRound, BeginPass, InLoop
<1>6. CASE ReinitDisconnected \/ PerformDisconnected
    BY <1>3, <1>6 DEF ReinitDisconnected, PerformDisconnected, InLoop
<1>7. CASE \/ ResetWorkers \/ ReinitSkipsWorker \/ ReinitSucceeds \/ ReinitFails
           \/ ReinitCount \/ PerformWorker
    BY <1>4, <1>7
       DEF ResetWorkers, ReinitSkipsWorker, ReinitSucceeds, ReinitFails, ReinitCount,
           PerformWorker, NextWorker, InLoop
<1>8. CASE ConnectionStep("work")
    BY <1>8, ConnectionSession
<1> QED
    BY <1>1, <1>2, <1>5, <1>6, <1>7, <1>8 DEF WorkStep

LEMMA SessionStep == IInv /\ [Next]_vars => [Robot!SNext]_(Robot!svars)
<1> SUFFICES ASSUME IInv, [Next]_vars PROVE [Robot!SNext]_(Robot!svars)
    OBVIOUS
<1>1. CASE UNCHANGED <<pc, handle, slamwarePltfm, conn>>
    BY <1>1 DEF Phase, Live, CallbackUses, LoopUses
<1>2. ASSUME NEW c \in Conn, LoseConnection(c) PROVE [Robot!SNext]_(Robot!svars)
    <2>1. Live' = Live
        BY <1>2 DEF LoseConnection, Live, IInv, TypeOK
    <2> QED
        BY <1>2, <2>1 DEF LoseConnection, Phase, CallbackUses, LoopUses
<1>3. Sigint \/ Over \/ UNCHANGED vars => UNCHANGED <<pc, handle, slamwarePltfm, conn>>
    BY DEF Sigint, Over, vars, shared
<1> QED
    BY <1>1, <1>2, <1>3, MainSession, WorkSession DEF Next

(***************************************************************************)
(* Main, work thread, retries and callbacks implement the session with the *)
(* robot, for any number of workers and connections.                       *)
(***************************************************************************)
THEOREM ServerImplementsSession == Spec => ImplementsSession
<1> QED
    BY Invariance, SessionInit, SessionStep, PTL DEF Spec, ImplementsSession, Robot!SSpec

-----------------------------------------------------------------------------
(* What the session promises, and the server by implementing it.           *)

\* Every step of the session keeps what its users rely on.
LEMMA SessionSafeStep ==
    Robot!SessionSafe /\ [Robot!SNext]_(Robot!svars) => Robot!SessionSafe'
<1> SUFFICES ASSUME Robot!SessionSafe, [Robot!SNext]_(Robot!svars)
             PROVE  Robot!SessionSafe'
    OBVIOUS
<1> USE DEF Robot!SessionSafe
<1>1. CASE Robot!Connect
    BY <1>1 DEF Robot!Connect, Robot!Up
<1>2. CASE Robot!Offer
    BY <1>2 DEF Robot!Offer, Robot!Up
<1>3. CASE Robot!Withdraw
    BY <1>3 DEF Robot!Withdraw
<1>4. CASE Robot!Disconnect
    BY <1>4 DEF Robot!Disconnect
<1>5. CASE Robot!BeginCallback \/ Robot!EndCallback
    BY <1>5 DEF Robot!BeginCallback, Robot!EndCallback
<1>6. CASE Robot!BeginLoop \/ Robot!EndLoop
    BY <1>6 DEF Robot!BeginLoop, Robot!EndLoop
<1>7. CASE Robot!Progress
    BY <1>7 DEF Robot!Progress, Robot!Start, Robot!Close, Robot!End, Robot!Abort
<1>8. CASE UNCHANGED Robot!svars
    BY <1>8 DEF Robot!svars
<1> QED
    BY <1>1, <1>2, <1>3, <1>4, <1>5, <1>6, <1>7, <1>8 DEF Robot!SNext

LEMMA SessionInvariance == Robot!SSpec => []Robot!SessionSafe
<1>1. Robot!SInit => Robot!SessionSafe
    BY DEF Robot!SInit, Robot!SessionSafe
<1> QED
    BY <1>1, SessionSafeStep, PTL DEF Robot!SSpec

(***************************************************************************)
(* The connection offered to callbacks and workers is the only one that is *)
(* open, the loop runs on it, callbacks end before the node closes, and    *)
(* nothing is left at the end.                                             *)
(***************************************************************************)
THEOREM ServerKeepsSession == Spec => []Robot!SessionSafe
<1> QED
    BY ServerImplementsSession, SessionInvariance, PTL DEF ImplementsSession

(***************************************************************************)
(* While loopWork_ runs, from EnterLoopWork to its return or exception, no *)
(* other thread closes, replaces or withdraws the connection it runs on.   *)
(***************************************************************************)
THEOREM LoopIsUndisturbed == Spec => Robot!LoopUndisturbed
<1> DEFINE Undisturbed == LoopUses # NoConn /\ LoopUses' # NoConn =>
                             /\ LoopUses' = LoopUses
                             /\ slamwarePltfm' = slamwarePltfm /\ Live' = Live
<1>1. Robot!SessionSafe /\ [Robot!SNext]_(Robot!svars) => [Undisturbed]_(Robot!svars)
    BY DEF Robot!SessionSafe, Robot!SNext, Robot!Connect, Robot!Offer, Robot!Withdraw,
           Robot!Disconnect, Robot!BeginCallback, Robot!EndCallback, Robot!BeginLoop,
           Robot!EndLoop, Robot!Progress
<1> QED
    BY <1>1, ServerImplementsSession, SessionInvariance, PTL
       DEF ImplementsSession, Robot!SSpec, Robot!LoopUndisturbed

-----------------------------------------------------------------------------
(***************************************************************************)
(* How many steps a thread still has to make once isStopRequested_ is set, *)
(* at most: the way through the loops from where each of them looks at it. *)
(***************************************************************************)
WorkersLeft == NumWorkers - wk

WorkLeft ==
    IF At("work", "wait") THEN 10
    ELSE IF pc["work"] \in {"connect", "store"} THEN 9
    ELSE IF At("work", "recheck") THEN 8
    ELSE IF At("work", "work") THEN 7
    ELSE IF At("work", "reinit") THEN 7 + WorkersLeft
    ELSE IF At("work", "perform") THEN 6 + WorkersLeft
    ELSE IF pc["work"] \in {"reset", "count"} THEN 6
    ELSE IF pc["work"] \in {"retry", "pass"} THEN 5
    ELSE IF At("work", "release") THEN 4
    ELSE IF pc["work"] \in {"disconnect", "begin"} THEN 3
    ELSE IF At("work", "test") THEN 2
    ELSE IF At("work", "end") THEN 1
    ELSE 0

MainLeft ==
    IF At("main", "join") THEN 4
    ELSE IF At("main", "release") THEN 3
    ELSE IF At("main", "disconnect") THEN 2
    ELSE IF At("main", "teardown") THEN 1
    ELSE 0

(***************************************************************************)
(* Once requestStop has been called, both threads run out: every step of   *)
(* the work thread takes one number down, every step of main another, and  *)
(* the environment leaves them as they are.  So no more than NumWorkers +  *)
(* 14 steps are left, also with a robot that never answers or drops every  *)
(* connection.  (That the steps are taken is Terminates.)                  *)
(***************************************************************************)
StopHeeded ==
    isStopRequested =>
        /\ isStopRequested'
        /\ WorkLeft \in 0 .. (NumWorkers + 10) /\ MainLeft \in 0 .. 4
        /\ WorkStep => WorkLeft' < WorkLeft /\ MainLeft' = MainLeft
        /\ MainStep => MainLeft' < MainLeft /\ WorkLeft' = WorkLeft
        /\ ~WorkStep /\ ~MainStep => WorkLeft' = WorkLeft /\ MainLeft' = MainLeft

LEMMA LeftRange ==
    ASSUME TypeOK
    PROVE  WorkLeft \in 0 .. (NumWorkers + 10) /\ MainLeft \in 0 .. 4
<1>1. NumWorkers \in Nat /\ wk \in 1 .. NumWorkers
    BY WorkerAssumption DEF TypeOK, Workers
<1> QED
    BY <1>1 DEF WorkLeft, MainLeft, WorkersLeft

\* The ways on for the work thread once the stop is requested.
Passes(here, after) ==
    \/ wk = NumWorkers /\ pc'["work"] = after
    \/ wk # NumWorkers /\ wk' = wk + 1 /\ pc'["work"] = here

StopHop ==
    \/ At("work", "wait") /\ pc'["work"] = "connect"
    \/ pc["work"] \in {"connect", "store"} /\ pc'["work"] = "recheck"
    \/ At("work", "recheck") /\ pc'["work"] \in {"test", "work"}
    \/ At("work", "work") /\ pc'["work"] = "reset"
    \/ At("work", "reset") /\ pc'["work"] = "retry"
    \/ At("work", "reinit") /\ Passes("reinit", "count")
    \/ At("work", "count") /\ pc'["work"] \in {"retry", "pass"}
    \/ At("work", "perform") /\ Passes("perform", "pass")
    \/ pc["work"] \in {"retry", "pass", "reinit", "perform"} /\ pc'["work"] = "release"
    \/ At("work", "release") /\ pc'["work"] = "disconnect"
    \/ pc["work"] \in {"disconnect", "begin"} /\ pc'["work"] = "test"
    \/ At("work", "test") /\ pc'["work"] = "end"
    \/ At("work", "end") /\ pc'["work"] = "ended"

LEMMA HopsRunOut ==
    ASSUME TypeOK, StopHop
    PROVE  WorkLeft' < WorkLeft
<1>1. NumWorkers \in Nat /\ wk \in 1 .. NumWorkers
    BY WorkerAssumption DEF TypeOK, Workers
<1>2. CASE At("work", "reinit") /\ Passes("reinit", "count")
    BY <1>1, <1>2 DEF Passes, WorkLeft, WorkersLeft
<1>3. CASE At("work", "perform") /\ Passes("perform", "pass")
    BY <1>1, <1>3 DEF Passes, WorkLeft, WorkersLeft
<1>4. CASE /\ pc["work"] \in {"retry", "pass", "reinit", "perform"}
           /\ pc'["work"] = "release"
    BY <1>1, <1>4 DEF WorkLeft, WorkersLeft
<1> QED
    BY <1>1, <1>2, <1>3, <1>4 DEF StopHop, WorkLeft

\* A step of the work thread is one of them.
LEMMA WorkRunsOut ==
    ASSUME IInv, isStopRequested, WorkStep
    PROVE  isStopRequested' /\ WorkLeft' < WorkLeft /\ MainLeft' = MainLeft
<1>1. \A l : GoTo("work", l) => pc'["work"] = l /\ pc'["main"] = pc["main"]
    BY DEF GoTo, IInv, TypeOK, Thread
<1> DEFINE HopAndKeep == StopHop /\ isStopRequested' /\ pc'["main"] = pc["main"]
<1> USE DEF control
<1>2. ASSUME ConnectionStep("work") PROVE HopAndKeep
    <2>1. /\ isStopRequested'
          /\ \/ At("work", "connect") /\ GoTo("work", "recheck")
             \/ At("work", "wait") /\ GoTo("work", "connect")
             \/ At("work", "store") /\ GoTo("work", "recheck")
             \/ At("work", "release") /\ GoTo("work", "disconnect")
             \/ At("work", "disconnect") /\ GoTo("work", "test")
        BY <1>2 DEF ConnectionStep, ConnectStopped, ConnectSucceeds, ConnectFails,
           ConnectAgain, StorePlatform, SwapOutPlatform, DisconnectPlatform, Connected
    <2> QED
        BY <1>1, <2>1 DEF StopHop
<1>3. ASSUME BeginWorkThread \/ TestWorkThread \/ RecheckPlatform \/ EnterLoopWork
             \/ ResetWorkers \/ EndWorkThread
      PROVE  HopAndKeep
    <2>1. /\ isStopRequested'
          /\ \/ At("work", "begin") /\ GoTo("work", "test")
             \/ At("work", "test") /\ GoTo("work", "end")
             \/ At("work", "recheck") /\ (GoTo("work", "test") \/ GoTo("work", "work"))
             \/ At("work", "work") /\ GoTo("work", "reset")
             \/ At("work", "reset") /\ GoTo("work", "retry")
             \/ At("work", "end") /\ GoTo("work", "ended")
        BY <1>3 DEF BeginWorkThread, TestWorkThread, RecheckPlatform, EnterLoopWork,
           ResetWorkers, EndWorkThread
    <2> QED
        BY <1>1, <2>1 DEF StopHop
<1>4. ASSUME ReinitRound \/ ReinitCount \/ BeginPass \/ ReinitDisconnected
             \/ PerformDisconnected
      PROVE  HopAndKeep
    <2>1. /\ isStopRequested'
          /\ \/ /\ pc["work"] \in {"retry", "pass", "reinit", "perform"}
                /\ GoTo("work", "release")
             \/ At("work", "count") /\ (GoTo("work", "retry") \/ GoTo("work", "pass"))
        BY <1>4 DEF ReinitRound, ReinitCount, BeginPass, ReinitDisconnected,
           PerformDisconnected, LeaveLoopWork
    <2> QED
        BY <1>1, <2>1 DEF StopHop
<1>5. ASSUME ReinitSkipsWorker \/ ReinitSucceeds \/ ReinitFails PROVE HopAndKeep
    <2>1. isStopRequested' /\ At("work", "reinit") /\ NextWorker("reinit", "count")
        BY <1>5 DEF ReinitSkipsWorker, ReinitSucceeds, ReinitFails
    <2> QED
        BY <1>1, <2>1 DEF NextWorker, Passes, StopHop
<1>6. ASSUME PerformWorker PROVE HopAndKeep
    <2>1. isStopRequested' /\ At("work", "perform") /\ NextWorker("perform", "pass")
        BY <1>6 DEF PerformWorker
    <2> QED
        BY <1>1, <2>1 DEF NextWorker, Passes, StopHop
<1>7. StopHop /\ isStopRequested' /\ pc'["main"] = pc["main"]
    BY <1>2, <1>3, <1>4, <1>5, <1>6 DEF WorkStep
<1>8. MainLeft' = MainLeft
    BY <1>7 DEF MainLeft
<1> QED
    BY <1>7, <1>8, HopsRunOut DEF IInv

\* Main is in waitUntilStopped or cleanup_ by then.
LEMMA MainRunsOut ==
    ASSUME IInv, isStopRequested, MainStep
    PROVE  isStopRequested' /\ MainLeft' < MainLeft /\ WorkLeft' = WorkLeft
<1>1. /\ pc["main"] \in {"join"} \union Ending
      /\ pc \in [Thread -> MainLabel \union WorkLabel] /\ "main" \in Thread
    BY DEF IInv, TypeOK, Phases, MainLabel, Starting, Ending, Thread
<1>2. \/ WaitUntilStopped \/ SwapOutPlatform("main") \/ DisconnectPlatform("main")
      \/ Teardown
    BY <1>1 DEF MainStep, ConnectionStep, ConnectStopped, ConnectSucceeds, ConnectFails,
       ConnectAgain, StorePlatform, StartRun, CreateWorkers, CreateThrows, MarkRunning,
       LaunchWorkThread, CallbackEnds, SpinReturns, RequestStop, Ending
<1>3. /\ isStopRequested' /\ wk' = wk
      /\ \/ At("main", "join") /\ GoTo("main", "release")
         \/ At("main", "release") /\ GoTo("main", "disconnect")
         \/ At("main", "disconnect") /\ GoTo("main", "teardown")
         \/ At("main", "teardown") /\ GoTo("main", "exited")
    BY <1>2 DEF WaitUntilStopped, SwapOutPlatform, DisconnectPlatform, Teardown,
       control, loop
<1>4. \A l : GoTo("main", l) => pc'["main"] = l /\ pc'["work"] = pc["work"]
    BY <1>1 DEF GoTo, Thread
<1>5. WorkLeft' = WorkLeft
    BY <1>3, <1>4 DEF WorkLeft, WorkersLeft
<1>6. MainLeft' < MainLeft
    BY <1>3, <1>4 DEF MainLeft
<1> QED
    BY <1>3, <1>5, <1>6

THEOREM StopIsHeeded == Spec => [][StopHeeded]_vars
<1>1. IInv /\ [Next]_vars => [StopHeeded]_vars
    <2> SUFFICES ASSUME IInv, Next, isStopRequested
                 PROVE  StopHeeded
        BY DEF StopHeeded
    <2>1. WorkLeft \in 0 .. (NumWorkers + 10) /\ MainLeft \in 0 .. 4
        BY LeftRange DEF IInv
    <2>2. /\ WorkStep => isStopRequested' /\ WorkLeft' < WorkLeft /\ MainLeft' = MainLeft
          /\ MainStep => isStopRequested' /\ MainLeft' < MainLeft /\ WorkLeft' = WorkLeft
        BY WorkRunsOut, MainRunsOut
    <2>3. ASSUME ~WorkStep, ~MainStep
          PROVE  isStopRequested' /\ WorkLeft' = WorkLeft /\ MainLeft' = MainLeft
        <3>1. ~CallbackBegins
            BY DEF CallbackBegins, IInv, Phases
        <3>2. UNCHANGED <<pc, isStopRequested, wk>>
            BY <2>3, <3>1 DEF Next, Sigint, LoseConnection, Over, control, loop, vars
        <3> QED
            BY <3>2 DEF WorkLeft, MainLeft, WorkersLeft
    <2> QED
        BY <2>1, <2>2, <2>3, WorkerAssumption DEF StopHeeded
<1> QED
    BY <1>1, Invariance, PTL DEF Spec
=============================================================================
