-------------------------- MODULE MapService_proof --------------------------
(***************************************************************************)
(* Proofs about MapService, for any set of maps and any number of calls.   *)
(***************************************************************************)
EXTENDS MapService, TLAPS

\* The handler the ROS thread is in serves a call that is running.
Current ==
    /\ server.at = "idle" <=> server = NotServing
    /\ server # NotServing =>
         /\ server.id \in 1..Len(calls)
         /\ calls[server.id].status = "running"
         /\ server.at = "get" <=> calls[server.id].by = "syncGetStcm"
    /\ server.at \notin {"idle", "get", "parse"} => calls[server.id].map \in Map

\* What the steps of a load behind the current one have left in the robot.
Loading ==
    /\ server.at = "cancel" => robot.map = NoMap
    /\ server.at \in {"off", "set", "on", "request"} => robot.action = None
    /\ server.at \in {"set", "on", "request"} => ~robot.updating
    /\ server.at \in {"on", "request"} => robot.map = calls[server.id].map
    /\ server.at = "request" => robot.localising

\* Who waits has a call.
Waits == \A c \in Caller : At(c, "waiting") => caller[c].id \in 1..Len(calls)

IInv == TypeOK /\ Current /\ Loading /\ NoMoveAcrossMaps /\ Waits

USE BoundsAssumption

LEMMA InitIInv == Init => IInv
<1> SUFFICES ASSUME Init PROVE IInv
    OBVIOUS
<1> USE DEF Init
<1>1. TypeOK
    <2>1. calls \in Seq(Call) /\ Len(calls) = 0 /\ recovers \in 0..RecoverDepth
        OBVIOUS
    <2>2. server \in [at : HandlerStep \cup {"idle"}, id : 0..Len(calls)]
        BY <2>1 DEF NotServing
    <2>3. caller \in [Caller -> [at : {"idle", "waiting", "told"}, id : 0..Len(calls),
                                result : BOOLEAN]]
        BY <2>1
    <2>4. robot \in [map : Map \cup {NoMap}, localising : BOOLEAN, updating : BOOLEAN,
                    action : Map \cup {NoMap, None}]
        OBVIOUS
    <2>5. Len(calls) <= MaxCalls
        BY <2>1
    <2>6. connected \in BOOLEAN /\ file \in Content
        BY DEF Content
    <2> QED
        BY <2>1, <2>2, <2>3, <2>4, <2>5, <2>6 DEF TypeOK
<1>2. Current /\ Loading
    BY DEF Current, Loading, NotServing
<1>3. NoMoveAcrossMaps
    BY DEF NoMoveAcrossMaps
<1>4. Waits
    BY DEF Waits, At
<1> QED
    BY <1>1, <1>2, <1>3, <1>4 DEF IInv

LEMMA CallsChanged ==
    ASSUME TypeOK, NEW id \in 1..Len(calls),
           NEW c \in Call, calls' = [calls EXCEPT ![id] = c]
    PROVE  /\ calls' \in Seq(Call) /\ Len(calls') = Len(calls)
           /\ \A other \in 1..Len(calls) \ {id} : calls'[other] = calls[other]
           /\ calls'[id] = c
BY DEF TypeOK

LEMMA TakeRequestKeeps ==
    ASSUME IInv, NEW id \in 1..Len(calls), TakeRequest(id)
    PROVE  IInv'
<1> USE DEF IInv, TakeRequest
<1> DEFINE c == [calls[id] EXCEPT !.status = "running"]
<1>1. calls[id] \in Call
    BY DEF TypeOK
<1>2. c \in Call /\ c.status = "running" /\ c.by = calls[id].by /\ c.map = calls[id].map
    BY <1>1 DEF Call
<1>3. calls' = [calls EXCEPT ![id] = c]
    OBVIOUS
<1> HIDE DEF c
<1>4. /\ calls' \in Seq(Call) /\ Len(calls') = Len(calls)
      /\ \A other \in 1..Len(calls) \ {id} : calls'[other] = calls[other]
      /\ calls'[id] = c
    BY <1>2, <1>3, CallsChanged
<1>5. server'.id = id /\ server'.at \in {"get", "parse"}
      /\ (server'.at = "get" <=> calls[id].by = "syncGetStcm")
    OBVIOUS
<1>6. TypeOK'
    BY <1>4, <1>5 DEF TypeOK, HandlerStep
<1>7. Current'
    BY <1>2, <1>4, <1>5 DEF Current, NotServing
<1>8. Waits'
    BY <1>4 DEF Waits, At
<1>9. Loading' /\ NoMoveAcrossMaps'
    BY <1>5 DEF Loading, NoMoveAcrossMaps
<1> QED
    BY <1>6, <1>7, <1>8, <1>9

LEMMA RespondKeeps ==
    ASSUME IInv, server # NotServing, UNCHANGED robot,
           NEW status \in {"ok", "failed"}, NEW content \in Content,
           Respond(status, content)
    PROVE  IInv'
<1> USE DEF IInv, Respond
<1> DEFINE id == server.id
           c == [calls[id] EXCEPT !.status = status, !.reply = content]
<1>1. id \in 1..Len(calls) /\ calls[id] \in Call /\ calls[id].status = "running"
    BY DEF Current, TypeOK
<1>2. c \in Call /\ c.status = status
    BY <1>1 DEF Call
<1>3. calls' = [calls EXCEPT ![id] = c]
    BY <1>1 DEF TypeOK
<1> HIDE DEF c, id
<1>4. /\ calls' \in Seq(Call) /\ Len(calls') = Len(calls)
      /\ \A other \in 1..Len(calls) \ {id} : calls'[other] = calls[other]
      /\ calls'[id] = c
    BY <1>1, <1>2, <1>3, CallsChanged
<1>5. TypeOK'
    <2>1. server' \in [at : HandlerStep \cup {"idle"}, id : 0..Len(calls)]
        BY DEF NotServing, TypeOK
    <2> QED
        BY <1>4, <2>1 DEF TypeOK
<1>6. Current' /\ Loading' /\ NoMoveAcrossMaps'
    <2>1. server' = NotServing /\ server'.at = "idle"
        BY DEF NotServing
    <2> QED
        BY <2>1 DEF Current, Loading, NoMoveAcrossMaps
<1>7. Waits'
    BY <1>4 DEF Waits, At
<1> QED
    BY <1>5, <1>6, <1>7

(***************************************************************************)
(* The steps of a handler before its return.                               *)
(***************************************************************************)
LEMMA HandlerStepKeeps ==
    ASSUME IInv,
           \/ LoadStream \/ ClearMap \/ CancelAction \/ LocalizationOff
           \/ UpdateOff \/ SetCompositeMap \/ LocalizationOn
    PROVE  IInv'
<1> USE DEF IInv
<1>1. UNCHANGED <<calls, caller, recovers, connected, file>>
      /\ server'.id = server.id
    BY DEF LoadStream, ClearMap, CancelAction, LocalizationOff, UpdateOff,
           SetCompositeMap, LocalizationOn, Quiet, Goto, TypeOK
<1>2. Waits'
    BY <1>1 DEF Waits, At
<1>3. TypeOK'
    BY <1>1 DEF LoadStream, ClearMap, CancelAction, LocalizationOff, UpdateOff,
           SetCompositeMap, LocalizationOn, Goto, TypeOK, HandlerStep, Current, Serving,
           NotServing
<1>4. server.at # "idle" /\ server'.at # "idle" /\ server # NotServing
      /\ server' # NotServing /\ server.at # "get" /\ server'.at \notin {"get", "parse"}
    BY DEF LoadStream, ClearMap, CancelAction, LocalizationOff, UpdateOff,
           SetCompositeMap, LocalizationOn, Goto, TypeOK, Serving, NotServing
<1>5. calls[server.id].map \in Map
    BY <1>4 DEF LoadStream, ClearMap, CancelAction, LocalizationOff, UpdateOff,
           SetCompositeMap, LocalizationOn, Serving, Current
<1>6. Current'
    BY <1>1, <1>4, <1>5 DEF Current
<1>7. Loading' /\ NoMoveAcrossMaps'
    <2> USE <1>1 DEF Loading, NoMoveAcrossMaps, TypeOK, Goto, Serving
    <2>1. CASE LoadStream
        BY <2>1 DEF LoadStream
    <2>2. CASE ClearMap
        BY <2>2 DEF ClearMap
    <2>3. CASE CancelAction
        BY <2>3 DEF CancelAction
    <2>4. CASE LocalizationOff
        BY <2>4 DEF LocalizationOff
    <2>5. CASE UpdateOff
        BY <2>5 DEF UpdateOff
    <2>6. CASE SetCompositeMap
        BY <2>6 DEF SetCompositeMap
    <2>7. CASE LocalizationOn
        BY <2>7 DEF LocalizationOn
    <2> QED
        BY <2>1, <2>2, <2>3, <2>4, <2>5, <2>6, <2>7
<1> QED
    BY <1>2, <1>3, <1>6, <1>7

(***************************************************************************)
(* The topics: the ROS thread is in no service handler.                    *)
(***************************************************************************)
LEMMA MessagesKeep == ASSUME IInv, Messages PROVE IInv'
<1> USE DEF IInv
<1>1. UNCHANGED <<calls, caller, connected, file, server>> /\ server = NotServing
    BY DEF Messages, MoveTo, ClearMapTopic, SetMapUpdate, SetMapLocalization,
           RecoverLocalization, MsgCb
<1>2. Current' /\ Loading'
    BY <1>1 DEF Current, Loading, NotServing
<1>3. CASE RecoverLocalization
    <2>1. /\ recovers' \in 0..RecoverDepth
          /\ robot' = robot \/ robot' = [robot EXCEPT !.action = robot.map]
        BY <1>3 DEF RecoverLocalization, TypeOK
    <2>2. Waits'
        BY <1>1 DEF Waits, At
    <2>3. TypeOK' /\ NoMoveAcrossMaps'
        BY <1>1, <2>1 DEF TypeOK, NoMoveAcrossMaps
    <2> QED
        BY <1>2, <2>2, <2>3
<1>4. CASE MoveTo \/ ClearMapTopic \/ SetMapUpdate \/ SetMapLocalization
    <2>1. UNCHANGED recovers
        BY <1>4 DEF MoveTo, ClearMapTopic, SetMapUpdate, SetMapLocalization, MsgCb
    <2>2. Waits'
        BY <1>1, <2>1 DEF Waits, At
    <2>3. TypeOK' /\ NoMoveAcrossMaps'
        BY <1>1, <1>4, <2>1 DEF MoveTo, ClearMapTopic, SetMapUpdate,
           SetMapLocalization, MsgCb, TypeOK, NoMoveAcrossMaps
    <2> QED
        BY <1>2, <2>2, <2>3
<1> QED
    BY <1>3, <1>4 DEF Messages

(***************************************************************************)
(* The callers: they append calls, wait and are told.                      *)
(***************************************************************************)
LEMMA SendRequestKeeps ==
    ASSUME IInv, NEW c \in Caller, NEW content \in Content, SendRequest(c, content)
    PROVE  IInv'
<1> USE DEF IInv, SendRequest
<1> DEFINE new == [by |-> c, map |-> content, status |-> "queued", reply |-> NoMap]
           id == Len(calls) + 1
<1>1. new \in Call
    BY DEF Call, Content
<1>2. calls \in Seq(Call) /\ Len(calls) \in Nat /\ calls' = Append(calls, new)
    BY DEF TypeOK
<1> HIDE DEF new
<1>3. /\ calls' \in Seq(Call) /\ Len(calls') = id
      /\ \A other \in 1..Len(calls) : calls'[other] = calls[other]
    BY <1>1, <1>2
<1>4. caller' = [caller EXCEPT ![c] = [at |-> "waiting", id |-> id, result |-> FALSE]]
    OBVIOUS
<1>5. TypeOK'
    <2>1. caller' \in [Caller -> [at : {"idle", "waiting", "told"}, id : 0..Len(calls'),
                                 result : BOOLEAN]]
        BY <1>2, <1>3, <1>4 DEF TypeOK
    <2>2. server' \in [at : HandlerStep \cup {"idle"}, id : 0..Len(calls')]
        BY <1>2, <1>3 DEF TypeOK
    <2> QED
        BY <1>2, <1>3, <2>1, <2>2 DEF TypeOK
<1>6. Current'
    BY <1>2, <1>3 DEF Current, TypeOK, NotServing
<1>7. Loading' /\ NoMoveAcrossMaps'
    BY <1>2, <1>3 DEF Loading, NoMoveAcrossMaps, Current, NotServing
<1>8. Waits'
    <2>1. \A d \in Caller : d # c => caller'[d] = caller[d]
        BY <1>4 DEF TypeOK
    <2>2. caller'[c] = [at |-> "waiting", id |-> id, result |-> FALSE]
        BY <1>4 DEF TypeOK
    <2>3. \A d \in Caller : caller'[d].at = "waiting" => caller'[d].id \in 1..Len(calls')
        BY <1>2, <1>3, <2>1, <2>2 DEF Waits, At
    <2> QED
        BY <2>3 DEF Waits, At
<1> QED
    BY <1>5, <1>6, <1>7, <1>8

\* A caller goes on; the server and its calls do not change.
LEMMA CallerKeeps ==
    ASSUME IInv, UNCHANGED <<robot, connected, calls, server>>,
           recovers' \in 0..RecoverDepth, file' \in Content, NEW c \in Caller,
           NEW next \in [at : {"idle", "waiting", "told"}, id : 0..Len(calls),
                         result : BOOLEAN],
           caller' = [caller EXCEPT ![c] = next],
           next.at # "waiting"
    PROVE  IInv'
<1> USE DEF IInv
<1>1. TypeOK'
    BY DEF TypeOK
<1>2. Current' /\ Loading' /\ NoMoveAcrossMaps'
    BY DEF Current, Loading, NoMoveAcrossMaps
<1>3. \A d \in Caller : caller'[d] = IF d = c THEN next ELSE caller[d]
    BY DEF TypeOK
<1>4. Waits'
    BY <1>3 DEF Waits, At
<1> QED
    BY <1>1, <1>2, <1>4

\* What a caller is after a wait or a refusal.
Outcome(id, result) == [at |-> "told", id |-> id, result |-> result]

LEMMA ToldKeeps ==
    ASSUME IInv, UNCHANGED <<robot, connected, calls, server, recovers>>,
           file' \in Content, NEW c \in Caller, NEW id \in 0..Len(calls),
           NEW result \in BOOLEAN, caller' = [caller EXCEPT ![c] = Outcome(id, result)]
    PROVE  IInv'
<1>1. Outcome(id, result) \in [at : {"idle", "waiting", "told"}, id : 0..Len(calls),
                              result : BOOLEAN]
      /\ Outcome(id, result).at = "told"
    BY DEF Outcome
<1>2. recovers' \in 0..RecoverDepth
    BY DEF IInv, TypeOK
<1> QED
    BY <1>1, <1>2, CallerKeeps

LEMMA RunKeeps == ASSUME IInv, NEW c \in Caller, Run(c) PROVE IInv'
<1>1. CASE \E content \in Content : SendRequest(c, content)
    BY <1>1, SendRequestKeeps
<1>2. caller[c] \in [at : {"idle", "waiting", "told"}, id : 0..Len(calls), result : BOOLEAN]
      /\ (caller[c].at = "waiting" => caller[c].id \in 1..Len(calls))
      /\ Len(calls) \in Nat /\ file \in Content /\ recovers \in 0..RecoverDepth
    BY DEF IInv, TypeOK, Waits, At
<1>3. CASE FileMissing(c)
    <2>1. caller' = [caller EXCEPT ![c] = Outcome(0, FALSE)]
          /\ UNCHANGED <<robot, connected, calls, server, recovers, file>>
        BY <1>3 DEF FileMissing, Told, Outcome
    <2>2. 0 \in 0..Len(calls) /\ FALSE \in BOOLEAN /\ file' \in Content
        BY <1>2, <2>1
    <2> QED
        BY <2>1, <2>2, ToldKeeps
<1>4. CASE CallCompletes(c)
    <2>1. caller' = [caller EXCEPT ![c] = Outcome(caller[c].id, TRUE)]
          /\ UNCHANGED <<robot, connected, calls, server, recovers, file>>
          /\ Answered(caller[c].id) /\ caller[c].at = "waiting"
        BY <1>4 DEF CallCompletes, Told, Outcome, At
    <2> QED
        BY <1>2, <2>1, ToldKeeps
<1>5. CASE c = "syncGetStcm" /\ GetCompletes
    <2>1. PICK result \in BOOLEAN :
             caller' = [caller EXCEPT ![c] = Outcome(caller[c].id, result)]
        BY <1>5 DEF GetCompletes, Told, Outcome
    <2>2. UNCHANGED <<robot, connected, calls, server, recovers>>
          /\ Answered(caller[c].id) /\ caller[c].at = "waiting"
        BY <1>5 DEF GetCompletes, At
    <2>3. calls \in Seq(Call) /\ caller[c].id \in 1..Len(calls)
        BY <1>2, <2>2 DEF IInv, TypeOK
    <2>4. calls[caller[c].id].reply \in Content
        <3>1. calls[caller[c].id] \in Call
            BY <2>3
        <3> QED
            BY <3>1 DEF Call
    <2>5. file' \in Content
        <3>1. file' \in {calls[caller[c].id].reply, file, Garbled}
            BY <1>5 DEF GetCompletes
        <3> QED
            BY <1>2, <2>4, <3>1 DEF Content
    <2> QED
        BY <1>2, <2>1, <2>2, <2>3, <2>5, ToldKeeps
<1>6. CASE c = "floor" /\ WaitTimesOut
    <2>1. caller' = [caller EXCEPT ![c] = Outcome(caller[c].id, FALSE)]
          /\ UNCHANGED <<robot, connected, calls, server, recovers, file>>
        BY <1>6 DEF WaitTimesOut, Told, Outcome
    <2> QED
        BY <1>2, <2>1, ToldKeeps
<1>7. CASE CallReturns(c) \/ (c = "floor" /\ RecLoc)
    <2> DEFINE next == [caller[c] EXCEPT !.at = "idle"]
    <2>1. caller' = [caller EXCEPT ![c] = next]
          /\ UNCHANGED <<robot, connected, calls, server, file>>
        BY <1>7 DEF CallReturns, RecLoc, IInv, TypeOK
    <2>2. next \in [at : {"idle", "waiting", "told"}, id : 0..Len(calls), result : BOOLEAN]
          /\ next.at = "idle"
        BY <1>2
    <2>3. recovers' \in 0..RecoverDepth
        BY <1>2, <1>7 DEF CallReturns, RecLoc
    <2> HIDE DEF next
    <2> QED
        BY <1>2, <2>1, <2>2, <2>3, CallerKeeps
<1>8. Map \subseteq Content /\ NoMap \in Content /\ Garbled \in Content
    BY DEF Content
<1>9. (\E content \in Content : SendRequest(c, content)) \/ FileMissing(c) \/ CallReturns(c)
      \/ CallCompletes(c) \/ (c = "syncGetStcm" /\ GetCompletes)
      \/ (c = "floor" /\ (WaitTimesOut \/ RecLoc))
    BY <1>8 DEF Run
<1> QED
    BY <1>1, <1>3, <1>4, <1>5, <1>6, <1>7, <1>9

(***************************************************************************)
(* The invariant: no step of the server, the callers or the network breaks *)
(* it.                                                                     *)
(***************************************************************************)
LEMMA NextKeepsIInv == IInv /\ [Next]_vars => IInv'
<1> SUFFICES ASSUME IInv, [Next]_vars PROVE IInv'
    OBVIOUS
<1>1. CASE Serve
    <2>1. CASE \E id \in 1..Len(calls) : TakeRequest(id)
        BY <2>1, TakeRequestKeeps
    <2>2. CASE HandlerFails
        <3>1. server # NotServing /\ UNCHANGED robot /\ Respond("failed", NoMap)
            BY <2>2 DEF HandlerFails
        <3> QED
            BY <3>1, RespondKeeps DEF Content
    <2>3. CASE GetCompositeMap
        <3>1. UNCHANGED robot /\ Respond("ok", robot.map) /\ server # NotServing
            BY <2>3 DEF GetCompositeMap, Serving, NotServing
        <3>2. robot.map \in Content
            BY DEF IInv, TypeOK, Content
        <3> QED
            BY <3>1, <3>2, RespondKeeps
    <2>4. CASE SetStcmReturns
        <3>1. UNCHANGED robot /\ Respond("ok", NoMap) /\ server # NotServing
            BY <2>4 DEF SetStcmReturns, Serving, NotServing
        <3> QED
            BY <3>1, RespondKeeps DEF Content
    <2> QED
        BY <1>1, <2>1, <2>2, <2>3, <2>4, HandlerStepKeeps DEF Serve
<1>2. CASE Messages
    BY <1>2, MessagesKeep
<1>3. CASE \E c \in Caller : Run(c)
    BY <1>3, RunKeeps
<1>4. CASE LoseConnection \/ UNCHANGED vars
    <2>1. UNCHANGED <<robot, calls, server, caller, recovers, file>> /\ connected' \in BOOLEAN
        BY <1>4 DEF LoseConnection, vars, IInv, TypeOK
    <2> QED
        BY <2>1 DEF IInv, TypeOK, Current, Loading, NoMoveAcrossMaps, Waits, At
<1> QED
    BY <1>1, <1>2, <1>3, <1>4 DEF Next

LEMMA Invariance == Spec => []IInv
BY InitIInv, NextKeepsIInv, PTL DEF Spec

(***************************************************************************)
(* Calls, callers, handler and robot stay in their ranges.                 *)
(***************************************************************************)
THEOREM TypeCorrect == Spec => []TypeOK
<1>1. IInv => TypeOK
    BY DEF IInv
<1> QED
    BY <1>1, Invariance, PTL

(***************************************************************************)
(* No move and no recovery is carried on with on a map it was not given    *)
(* on (srvCbSyncSetStcm_ cancels the current action).                      *)
(***************************************************************************)
THEOREM MovesStayOnTheirMap == Spec => []NoMoveAcrossMaps
<1>1. IInv => NoMoveAcrossMaps
    BY DEF IInv
<1> QED
    BY <1>1, Invariance, PTL

(***************************************************************************)
(* A load that its handler calls done has left the robot on the map.       *)
(***************************************************************************)
Done(id) ==
    calls[id].status = "running" /\ calls'[id].status = "ok"
      /\ calls[id].by # "syncGetStcm"

THEOREM LoadsComplete == Spec => LoadedIsInUse
<1>1. ASSUME IInv, [Next]_vars, NEW id \in DOMAIN calls, Done(id)
      PROVE  robot.map = calls[id].map /\ robot.localising /\ ~robot.updating
    <2> USE <1>1 DEF IInv, Done
    <2>1. calls \in Seq(Call) /\ id \in 1..Len(calls) /\ calls[id] \in Call
        BY DEF TypeOK
    <2>2. calls'[id] # calls[id]
        BY <2>1
    <2>3. SetStcmReturns /\ server.id = id
        <3>1. CASE Serve
            <4>1. ASSUME NEW other \in 1..Len(calls), TakeRequest(other) PROVE FALSE
                BY <2>1, <4>1 DEF TakeRequest, Call
            <4>2. ASSUME NEW content, NEW status, Respond(status, content)
                  PROVE  (id = server.id /\ status = "ok")
                <5>1. server.id = id
                    BY <2>1, <2>2, <4>2 DEF Respond
                <5> QED
                    BY <2>1, <4>2, <5>1 DEF Respond, Call
            <4>3. ~HandlerFails
                BY <4>2 DEF HandlerFails
            <4>4. ~GetCompositeMap
                BY <4>2 DEF GetCompositeMap, Serving, Current, NotServing
            <4>5. UNCHANGED calls \/ SetStcmReturns
                BY <3>1, <4>1, <4>3, <4>4 DEF Serve, LoadStream, ClearMap, CancelAction,
                   LocalizationOff, UpdateOff, SetCompositeMap, LocalizationOn, Quiet
            <4> QED
                BY <2>2, <4>2, <4>5 DEF SetStcmReturns
        <3>2. CASE Messages
            BY <2>2, <3>2 DEF Messages, MoveTo, ClearMapTopic, SetMapUpdate,
               SetMapLocalization, RecoverLocalization, MsgCb
        <3>3. CASE \E c \in Caller : Run(c)
            <4>1. UNCHANGED calls \/ \E new : calls' = Append(calls, new)
                BY <3>3 DEF Run, SendRequest, FileMissing, CallReturns, CallCompletes,
                   GetCompletes, WaitTimesOut, RecLoc
            <4>2. ASSUME NEW new, calls' = Append(calls, new) PROVE calls'[id] = calls[id]
                BY <2>1, <4>2
            <4> QED
                BY <2>2, <4>1, <4>2
        <3>4. CASE LoseConnection \/ UNCHANGED vars
            BY <2>2, <3>4 DEF LoseConnection, vars
        <3> QED
            BY <3>1, <3>2, <3>3, <3>4 DEF Next
    <2> QED
        BY <2>3 DEF SetStcmReturns, Serving, Loading
<1>2. IInv /\ [Next]_vars =>
         [\A id \in DOMAIN calls : Done(id) =>
            robot.map = calls[id].map /\ robot.localising /\ ~robot.updating]_vars
    BY <1>1
<1> QED
    BY <1>2, Invariance, PTL DEF Spec, LoadedIsInUse, Done

(***************************************************************************)
(* A call moves one way: it is taken by the free ROS thread, answered by   *)
(* the handler that was started for it, once, and what it was answered     *)
(* never changes, also when its caller has given up.                       *)
(***************************************************************************)
Taken(id) ==
    /\ server = NotServing /\ calls[id].status = "queued"
    /\ server'.id = id /\ calls'[id].status = "running"

AnsweredNow(id) ==
    /\ server.id = id /\ calls[id].status = "running"
    /\ server' = NotServing /\ calls'[id].status \in {"ok", "failed"}

OneWay(id) ==
    id \in DOMAIN calls' /\ (calls'[id] = calls[id] \/ Taken(id) \/ AnsweredNow(id))

THEOREM AnsweredOnce == Spec => [][\A id \in DOMAIN calls : OneWay(id)]_vars
<1>1. ASSUME IInv, [Next]_vars, NEW id \in DOMAIN calls
      PROVE  OneWay(id)
    <2> USE <1>1 DEF IInv, OneWay
    <2>1. calls \in Seq(Call) /\ id \in 1..Len(calls) /\ calls[id] \in Call
        BY DEF TypeOK
    <2>2. UNCHANGED calls => OneWay(id)
        OBVIOUS
    <2>3. ASSUME NEW new, calls' = Append(calls, new) PROVE OneWay(id)
        BY <2>1, <2>3
    <2>4. ASSUME NEW other \in 1..Len(calls), TakeRequest(other) PROVE OneWay(id)
        BY <2>1, <2>4 DEF TakeRequest, Taken, Call
    <2>5. ASSUME NEW content, NEW status \in {"ok", "failed"}, server # NotServing,
                 Respond(status, content)
          PROVE  OneWay(id)
        <3>1. CASE id = server.id
            BY <2>1, <2>5, <3>1 DEF Respond, AnsweredNow, Current, Call
        <3>2. CASE id # server.id
            BY <2>1, <2>5, <3>2 DEF Respond, Call
        <3> QED
            BY <3>1, <3>2
    <2>6. CASE Serve
        <3>1. GetCompositeMap \/ SetStcmReturns => server # NotServing
            BY DEF GetCompositeMap, SetStcmReturns, Serving, NotServing
        <3>2. LoadStream \/ ClearMap \/ CancelAction \/ LocalizationOff \/ UpdateOff
                \/ SetCompositeMap \/ LocalizationOn => UNCHANGED calls
            BY DEF LoadStream, ClearMap, CancelAction, LocalizationOff, UpdateOff,
               SetCompositeMap, LocalizationOn, Quiet
        <3> QED
            BY <2>2, <2>4, <2>5, <2>6, <3>1, <3>2
               DEF Serve, HandlerFails, GetCompositeMap, SetStcmReturns
    <2>7. CASE Messages
        BY <2>2, <2>7 DEF Messages, MoveTo, ClearMapTopic, SetMapUpdate,
           SetMapLocalization, RecoverLocalization, MsgCb
    <2>8. CASE \E c \in Caller : Run(c)
        <3>1. UNCHANGED calls \/ \E new : calls' = Append(calls, new)
            BY <2>8 DEF Run, SendRequest, FileMissing, CallReturns, CallCompletes,
               GetCompletes, WaitTimesOut, RecLoc
        <3> QED
            BY <2>2, <2>3, <3>1
    <2>9. CASE LoseConnection \/ UNCHANGED vars
        BY <2>2, <2>9 DEF LoseConnection, vars
    <2> QED
        BY <2>6, <2>7, <2>8, <2>9 DEF Next
<1>2. IInv /\ [Next]_vars => [\A id \in DOMAIN calls : OneWay(id)]_vars
    BY <1>1
<1> QED
    BY <1>2, Invariance, PTL DEF Spec
=============================================================================
