--------------------------- MODULE MapSync_proof ----------------------------
(***************************************************************************)
(* Proofs about MapSync, for any number of tiles, connections, editions    *)
(* and resolutions.  The parts below add to the properties what the worker *)
(* knows in the middle of a scan.                                          *)
(***************************************************************************)
EXTENDS MapSync, TLAPS

\* While the connection is down there is room for the next one.
RoomToReconnect == wpc = "off" => conn < MaxConn /\ robot.edition < MaxEdition

\* While the worker uses the holder, the holder is of the loop's connection.
OneSource ==
    /\ wpc \in {"known", "tile", "store", "near", "nearTile"} => ~shouldReinitMap
    /\ wpc # "off" /\ ~shouldReinitMap => holdConn = conn
    /\ \A t \in Tiles : hold[t] # NoTile =>
          hold[t].conn = holdConn /\ hold[t].res = holdRes

\* The tiles of a scan before next have been read, and the request is up.
ScanPrefix ==
    /\ wpc \in {"reinit", "known", "tile", "store"} => syncMapRequested
    /\ wpc = "tile" => \A t \in 1 .. (next - 1) : hold[t] # NoTile
    /\ wpc = "store" => \A t \in Tiles : hold[t] # NoTile
    /\ HolesArePending

\* What is still owed in the middle of a scan lies ahead of it.
OwedAhead ==
    /\ wpc = "tile" => due \subseteq next .. NumTiles
    /\ wpc = "store" => due = {}
    /\ RequestsServed

\* The edition to be shown is the robot's, and a scan picks it up.
ShownPrefix ==
    /\ shown # 0 => shown = robot.edition
    /\ shown # 0 /\ wpc = "tile" =>
          \A t \in 1 .. (next - 1) : hold[t].edition = shown
    /\ shown # 0 /\ wpc = "store" => \A t \in Tiles : hold[t].edition = shown
    /\ CompositeShown

IInv == TypeOK /\ RoomToReconnect /\ OneSource /\ ScanPrefix /\ OwedAhead /\ ShownPrefix

LEMMA TilesFacts ==
    /\ 1 \in Tiles /\ NumTiles \in Tiles
    /\ \A t \in Tiles : t # NumTiles => t + 1 \in Tiles
    /\ \A t \in Tiles : 1 .. (t - 1) \subseteq Tiles /\ 1 .. t \subseteq Tiles
          /\ t .. NumTiles \subseteq Tiles
    /\ 1 .. (1 - 1) = {} /\ 1 .. NumTiles = Tiles
BY TilesAssumption DEF Tiles

\* One step of a scan: the part read so far grows by the tile just read.
LEMMA PrefixGrows ==
    /\ \A n \in Tiles, t \in Tiles :
          /\ n # NumTiles => (t \in 1 .. n <=> t \in 1 .. (n - 1) \/ t = n)
          /\ n = NumTiles => (t \in 1 .. (n - 1) \/ t = n)
          /\ n # NumTiles => (t \in n .. NumTiles /\ t # n <=> t \in (n + 1) .. NumTiles)
          /\ n = NumTiles => (t \in n .. NumTiles => t = n)
          /\ t \in 1 .. (n - 1) => t # n
BY TilesAssumption DEF Tiles

LEMMA BlankFacts ==
    /\ Blank \in [Tiles -> Tile \union {NoTile}]
    /\ \A t \in Tiles : Blank[t] = NoTile
BY DEF Blank

\* A tile just read is not an empty one: connections are counted from 1.
LEMMA ReadingFacts ==
    TypeOK => /\ Reading \in Tile /\ Reading # NoTile
              /\ Reading.conn = conn /\ Reading.edition = robot.edition
              /\ Reading.res = robot.res
BY BoundAssumption DEF TypeOK, Tile, Reading, NoTile

LEMMA HoldUpdate ==
    ASSUME TypeOK, NEW n \in Tiles, hold' = [hold EXCEPT ![n] = Reading]
    PROVE  /\ hold' \in [Tiles -> Tile \union {NoTile}]
           /\ hold'[n] = Reading
           /\ \A t \in Tiles : t # n => hold'[t] = hold[t]
BY ReadingFacts DEF TypeOK

LEMMA RobotFacts ==
    TypeOK => /\ robot.edition \in 1 .. MaxEdition /\ robot.edition \in 0 .. MaxEdition
              /\ robot.res \in Resolution /\ robot.known \in BOOLEAN
              /\ conn \in 1 .. MaxConn /\ conn \in 0 .. MaxConn /\ conn \in Int
BY BoundAssumption DEF TypeOK

LEMMA TypeFacts ==
    TypeOK => /\ next \in Tiles /\ due \subseteq Tiles
              /\ robot.edition = [robot EXCEPT !.known = TRUE].edition
              /\ hold \in [Tiles -> Tile \union {NoTile}]
              /\ StillToRead \subseteq Tiles
BY TilesFacts DEF TypeOK, StillToRead

LEMMA RoomForOne ==
    ASSUME NEW m \in Nat \ {0}, NEW k \in 1 .. m, k < m PROVE k + 1 \in 1 .. m
OBVIOUS

\* The robot's map as a callback or a reconnection leaves it.
LEMMA ReplacedFacts ==
    ASSUME NEW ed \in 1 .. MaxEdition, NEW res \in Resolution, NEW known \in BOOLEAN
    PROVE  /\ Replaced(ed, res, known)
                  \in [edition: 1 .. MaxEdition, res: Resolution, known: BOOLEAN]
           /\ Replaced(ed, res, known).edition = ed
           /\ Replaced(ed, res, known).res = res
           /\ Replaced(ed, res, known).known = known
BY DEF Replaced

LEMMA InitIInv == Init => IInv
<1> SUFFICES ASSUME Init PROVE IInv
    OBVIOUS
<1> USE DEF Init
<1>1. 1 \in 1 .. MaxEdition /\ 1 \in 1 .. MaxConn
    BY BoundAssumption
<1>2. /\ robot \in [edition: 1 .. MaxEdition, res: Resolution, known: BOOLEAN]
      /\ robot.edition = 1
    BY <1>1, ReplacedFacts
<1>3. TypeOK
    BY <1>1, <1>2, TilesFacts, BlankFacts, BoundAssumption
       DEF TypeOK, WorkLabel, RosLabel
<1>4. OneSource /\ ScanPrefix /\ OwedAhead /\ ShownPrefix /\ RoomToReconnect
    BY BlankFacts DEF OneSource, ScanPrefix, OwedAhead, ShownPrefix, HolesArePending,
           RequestsServed, CompositeShown, RoomToReconnect
<1> QED
    BY <1>3, <1>4 DEF IInv

LEMMA TypeStep == (TypeOK /\ RoomToReconnect) /\ [Next]_vars => TypeOK'
<1> SUFFICES ASSUME (TypeOK /\ RoomToReconnect), [Next]_vars PROVE TypeOK'
    OBVIOUS
<1> USE DEF TypeOK, WorkLabel, RosLabel, robotVars, workVars, mapVars,
        rosVars, vars
<1>1. CASE ReinitWorkLoop
    <2>1. robot.edition + 1 \in 1 .. MaxEdition /\ conn + 1 \in 1 .. MaxConn
        <3>1. robot.edition < MaxEdition /\ conn < MaxConn
            BY <1>1 DEF ReinitWorkLoop, RoomToReconnect
        <3> QED
            BY <3>1, RobotFacts, RoomForOne, BoundAssumption
    <2> DEFINE Maps == [edition: 1 .. MaxEdition, res: Resolution, known: BOOLEAN]
    <2>2. robot' \in Maps
        <3>1. PICK res \in Resolution, known \in BOOLEAN :
                  robot' = Replaced(robot.edition + 1, res, known)
            BY <1>1, RobotFacts DEF ReinitWorkLoop
        <3> QED
            BY <2>1, <3>1, ReplacedFacts
    <2>3. UNCHANGED <<hold, holdRes, holdConn, next, localization, due, syncMapRequested>>
        BY <1>1 DEF ReinitWorkLoop
    <2>4. /\ wpc' \in WorkLabel /\ rpc' \in RosLabel /\ shouldReinitMap' \in BOOLEAN
          /\ conn' \in 1 .. MaxConn /\ cbConn' = cbConn /\ shown' = 0
        BY <1>1, <2>1 DEF ReinitWorkLoop
    <2>5. 0 \in 0 .. MaxEdition
        BY BoundAssumption
    <2> HIDE DEF WorkLabel, RosLabel
    <2> QED
        BY <2>2, <2>3, <2>4, <2>5
<1>2. CASE DoPerform
    BY <1>2, TilesFacts, RobotFacts DEF DoPerform, RequestSyncMap, StillToRead
<1>3. CASE CallFails \/ Disconnect \/ Explore
    BY <1>3, TilesFacts, RobotFacts DEF CallFails, Disconnect, Explore
<1>4. CASE ReinitMap
    BY <1>4, TilesFacts, RobotFacts, BlankFacts DEF ReinitMap
<1>5. CASE SyncWholeMap
    BY <1>5, TilesFacts, RobotFacts, BlankFacts DEF SyncWholeMap
<1>6. CASE SyncTile
    <2> USE DEF SyncTile, UpdateTile
    <2>1. CASE robot.res = holdRes
        BY <1>6, <2>1, HoldUpdate, TypeFacts, TilesFacts
    <2>2. CASE robot.res # holdRes
        BY <1>6, <2>2, TypeFacts, TilesFacts
    <2> QED
        BY <2>1, <2>2
<1>7. CASE SyncDone
    BY <1>7, TilesFacts, RobotFacts DEF SyncDone
<1>8. CASE NearKnownArea
    BY <1>8, TilesFacts, RobotFacts
       DEF NearKnownArea, RequestSyncMap, StillToRead
<1>9. CASE NearTile
    <2> USE DEF NearTile, UpdateTile
    <2>1. CASE robot.res = holdRes
        BY <1>9, <2>1, HoldUpdate, TypeFacts, TilesFacts
    <2>2. CASE robot.res # holdRes
        BY <1>9, <2>2, TypeFacts, TilesFacts
    <2> QED
        BY <2>1, <2>2
<1>10. CASE LoopClosure \/ MsgCbSyncMap
    BY <1>10, TilesFacts, RobotFacts
       DEF LoopClosure, MsgCbSyncMap, RequestSyncMap, StillToRead
<1>11. CASE MsgCbClearMap \/ SetStcmClear
    <2>1. robot.edition + 1 \in 1 .. MaxEdition
        <3>1. robot.edition < MaxEdition
            BY <1>11 DEF MsgCbClearMap, SetStcmClear, ClearRobotMap, RoomToReconnect
        <3> QED
            BY <3>1, RobotFacts, RoomForOne, BoundAssumption
    <2> DEFINE Maps == [edition: 1 .. MaxEdition, res: Resolution, known: BOOLEAN]
    <2>2. robot' \in Maps
        <3>1. PICK res \in Resolution, known \in BOOLEAN :
                  robot' = Replaced(robot.edition + 1, res, known)
            BY <1>11, RobotFacts DEF MsgCbClearMap, SetStcmClear, ClearRobotMap
        <3> QED
            BY <2>1, <3>1, ReplacedFacts
    <2>3. UNCHANGED <<hold, holdRes, holdConn, next, localization, due, syncMapRequested>>
        BY <1>11 DEF MsgCbClearMap, SetStcmClear, ClearRobotMap
    <2>4. /\ wpc' \in WorkLabel /\ rpc' \in RosLabel /\ shouldReinitMap' \in BOOLEAN
          /\ conn' \in 1 .. MaxConn /\ cbConn' = cbConn /\ shown' = 0
        BY <1>11, <2>1 DEF MsgCbClearMap, SetStcmClear, ClearRobotMap
    <2>5. 0 \in 0 .. MaxEdition
        BY BoundAssumption
    <2> HIDE DEF WorkLabel, RosLabel
    <2> QED
        BY <2>2, <2>3, <2>4, <2>5
<1>12. CASE SrvCbSyncSetStcm \/ SetStcmOff \/ SetStcmOn \/ SetStcmThrows
    BY <1>12, TilesFacts, RobotFacts
       DEF SrvCbSyncSetStcm, SetStcmOff, SetStcmOn, SetStcmThrows
<1>13. CASE SetStcmSet
    <2>1. robot.edition + 1 \in 1 .. MaxEdition
        <3>1. robot.edition < MaxEdition
            BY <1>13 DEF SetStcmSet, RoomToReconnect
        <3> QED
            BY <3>1, RobotFacts, RoomForOne, BoundAssumption
    <2> DEFINE Maps == [edition: 1 .. MaxEdition, res: Resolution, known: BOOLEAN]
    <2>2. robot' \in Maps
        <3>1. PICK res \in Resolution, known \in BOOLEAN :
                  robot' = Replaced(robot.edition + 1, res, known)
            BY <1>13, RobotFacts DEF SetStcmSet
        <3> QED
            BY <2>1, <3>1, ReplacedFacts
    <2>3. UNCHANGED <<hold, holdRes, holdConn, next, localization, due, syncMapRequested>>
        BY <1>13 DEF SetStcmSet
    <2>4. /\ wpc' \in WorkLabel /\ rpc' \in RosLabel /\ shouldReinitMap' \in BOOLEAN
          /\ conn' \in 1 .. MaxConn /\ cbConn' = cbConn /\ shown' = 0
        BY <1>13, <2>1 DEF SetStcmSet
    <2>5. 0 \in 0 .. MaxEdition
        BY BoundAssumption
    <2> HIDE DEF WorkLabel, RosLabel
    <2> QED
        BY <2>2, <2>3, <2>4, <2>5
<1>14. CASE SetStcmRequest
    <2>1. due' \subseteq Tiles
        BY <1>14, TypeFacts DEF SetStcmRequest, RequestSyncMap
    <2>2. shown' \in 0 .. MaxEdition
        BY <1>14, RobotFacts, BoundAssumption DEF SetStcmRequest
    <2> QED
        BY <1>14, <2>1, <2>2 DEF SetStcmRequest, RequestSyncMap
<1>15. CASE UNCHANGED vars
    BY <1>15, TilesFacts, RobotFacts
<1> QED
    BY <1>1, <1>2, <1>3, <1>4, <1>5, <1>6, <1>7, <1>8, <1>9, <1>10, <1>11,
    <1>12, <1>13, <1>14, <1>15
       DEF Next, WorkStep, RosStep

LEMMA RoomStep == (TypeOK /\ RoomToReconnect) /\ [Next]_vars => RoomToReconnect'
<1> SUFFICES ASSUME (TypeOK /\ RoomToReconnect), [Next]_vars PROVE RoomToReconnect'
    OBVIOUS
<1> USE DEF TypeOK, RoomToReconnect, WorkLabel, Connected, StillConnected,
        robotVars, workVars, mapVars, rosVars, vars
<1>1. CASE ReinitWorkLoop
    BY <1>1, RobotFacts DEF ReinitWorkLoop
<1>2. CASE DoPerform
    BY <1>2, RobotFacts DEF DoPerform, RequestSyncMap, StillToRead
<1>3. CASE CallFails \/ Disconnect \/ Explore
    BY <1>3, RobotFacts DEF CallFails, Disconnect, Explore
<1>4. CASE ReinitMap
    BY <1>4, RobotFacts DEF ReinitMap
<1>5. CASE SyncWholeMap
    BY <1>5, RobotFacts DEF SyncWholeMap
<1>6. CASE SyncTile
    BY <1>6, RobotFacts DEF SyncTile, UpdateTile
<1>7. CASE SyncDone
    BY <1>7, RobotFacts DEF SyncDone
<1>8. CASE NearKnownArea
    BY <1>8, RobotFacts DEF NearKnownArea, RequestSyncMap, StillToRead
<1>9. CASE NearTile
    BY <1>9, RobotFacts DEF NearTile, UpdateTile
<1>10. CASE LoopClosure \/ MsgCbSyncMap
    BY <1>10, RobotFacts
       DEF LoopClosure, MsgCbSyncMap, RequestSyncMap, StillToRead
<1>11. CASE MsgCbClearMap \/ SetStcmClear
    BY <1>11, RobotFacts DEF MsgCbClearMap, SetStcmClear, ClearRobotMap
<1>12. CASE SrvCbSyncSetStcm \/ SetStcmOff \/ SetStcmOn \/ SetStcmThrows
    BY <1>12, RobotFacts
       DEF SrvCbSyncSetStcm, SetStcmOff, SetStcmOn, SetStcmThrows
<1>13. CASE SetStcmSet
    BY <1>13, RobotFacts DEF SetStcmSet
<1>14. CASE SetStcmRequest
    BY <1>14, RobotFacts DEF SetStcmRequest, RequestSyncMap, StillToRead
<1>15. CASE UNCHANGED vars
    BY <1>15, RobotFacts
<1> QED
    BY <1>1, <1>2, <1>3, <1>4, <1>5, <1>6, <1>7, <1>8, <1>9, <1>10, <1>11,
    <1>12, <1>13, <1>14, <1>15
       DEF Next, WorkStep, RosStep

LEMMA OneSourceStep == (TypeOK /\ OneSource) /\ [Next]_vars => OneSource'
<1> SUFFICES ASSUME (TypeOK /\ OneSource), [Next]_vars PROVE OneSource'
    OBVIOUS
<1> USE DEF OneSource, robotVars, workVars, mapVars, rosVars, vars
<1>1. CASE ReinitWorkLoop
    BY <1>1, TypeFacts DEF ReinitWorkLoop
<1>2. CASE DoPerform
    BY <1>2, TypeFacts DEF DoPerform, RequestSyncMap, StillToRead
<1>3. CASE CallFails \/ Disconnect \/ Explore
    BY <1>3, TypeFacts DEF CallFails, Disconnect, Explore
<1>4. CASE ReinitMap
    BY <1>4, TypeFacts, BlankFacts DEF ReinitMap
<1>5. CASE SyncWholeMap
    BY <1>5, TypeFacts, BlankFacts DEF SyncWholeMap
<1>6. CASE SyncTile
    <2> USE DEF SyncTile, UpdateTile
    <2>1. CASE robot.res = holdRes
        BY <1>6, <2>1, HoldUpdate, ReadingFacts, TypeFacts, TilesFacts
    <2>2. CASE robot.res # holdRes
        BY <1>6, <2>2, TypeFacts, TilesFacts
    <2> QED
        BY <2>1, <2>2
<1>7. CASE SyncDone
    BY <1>7, TypeFacts DEF SyncDone
<1>8. CASE NearKnownArea
    BY <1>8, TypeFacts DEF NearKnownArea, RequestSyncMap, StillToRead
<1>9. CASE NearTile
    <2> USE DEF NearTile, UpdateTile
    <2>1. CASE robot.res = holdRes
        BY <1>9, <2>1, HoldUpdate, ReadingFacts, TypeFacts, TilesFacts
    <2>2. CASE robot.res # holdRes
        BY <1>9, <2>2, TypeFacts, TilesFacts
    <2> QED
        BY <2>1, <2>2
<1>10. CASE LoopClosure \/ MsgCbSyncMap
    BY <1>10, TypeFacts
       DEF LoopClosure, MsgCbSyncMap, RequestSyncMap, StillToRead
<1>11. CASE MsgCbClearMap \/ SetStcmClear
    BY <1>11 DEF MsgCbClearMap, SetStcmClear
<1>12. CASE SrvCbSyncSetStcm \/ SetStcmOff \/ SetStcmOn \/ SetStcmThrows
    BY <1>12, TypeFacts
       DEF SrvCbSyncSetStcm, SetStcmOff, SetStcmOn, SetStcmThrows
<1>13. CASE SetStcmSet
    BY <1>13, TypeFacts DEF SetStcmSet
<1>14. CASE SetStcmRequest
    BY <1>14, TypeFacts DEF SetStcmRequest, RequestSyncMap, StillToRead
<1>15. CASE UNCHANGED vars
    BY <1>15, TypeFacts
<1> QED
    BY <1>1, <1>2, <1>3, <1>4, <1>5, <1>6, <1>7, <1>8, <1>9, <1>10, <1>11,
    <1>12, <1>13, <1>14, <1>15
       DEF Next, WorkStep, RosStep

LEMMA ScanPrefixStep == (TypeOK /\ OneSource /\ ScanPrefix) /\ [Next]_vars => ScanPrefix'
<1> SUFFICES ASSUME (TypeOK /\ OneSource /\ ScanPrefix), [Next]_vars PROVE ScanPrefix'
    OBVIOUS
<1> USE DEF OneSource, ScanPrefix, HolesArePending, robotVars, workVars,
        mapVars, rosVars, vars
<1>1. CASE ReinitWorkLoop
    BY <1>1, TilesFacts, TypeFacts DEF ReinitWorkLoop
<1>2. CASE DoPerform
    BY <1>2, TilesFacts, TypeFacts DEF DoPerform, RequestSyncMap, StillToRead
<1>3. CASE CallFails \/ Disconnect \/ Explore
    BY <1>3, TilesFacts, TypeFacts DEF CallFails, Disconnect, Explore
<1>4. CASE ReinitMap
    BY <1>4, TilesFacts, TypeFacts, BlankFacts DEF ReinitMap
<1>5. CASE SyncWholeMap
    BY <1>5, TilesFacts, TypeFacts, BlankFacts DEF SyncWholeMap
<1>6. CASE SyncTile
    <2> USE DEF SyncTile, UpdateTile
    <2>1. CASE robot.res = holdRes /\ next # NumTiles
        <3>1. next' = next + 1 /\ wpc' = "tile"
            BY <1>6, <2>1
        <3>2. /\ \A t \in Tiles : t # next => hold'[t] = hold[t]
              /\ hold'[next] = Reading /\ Reading # NoTile
              /\ Reading.edition = robot.edition
            BY <1>6, <2>1, HoldUpdate, ReadingFacts, TypeFacts
        <3>3. next' - 1 = next
            BY <3>1, TypeFacts DEF Tiles
        <3>4. \A t \in 1 .. (next' - 1) : t \in Tiles /\ (t \in 1 .. (next - 1) \/ t = next)
            BY <3>3, PrefixGrows, TypeFacts, TilesFacts, <2>1
        <3> QED
            BY <1>6, <2>1, <3>1, <3>2, <3>4, TypeFacts
    <2>2. CASE robot.res = holdRes /\ next = NumTiles
        <3>1. /\ \A t \in Tiles : t # next => hold'[t] = hold[t]
              /\ hold'[next] = Reading /\ Reading # NoTile
              /\ Reading.edition = robot.edition
            BY <1>6, <2>2, HoldUpdate, ReadingFacts, TypeFacts
        <3>2. \A t \in Tiles : t \in 1 .. (next - 1) \/ t = next
            BY <2>2, PrefixGrows, TypeFacts
        <3> QED
            BY <1>6, <2>2, <3>1, <3>2, TypeFacts
    <2>3. CASE robot.res # holdRes
        BY <1>6, <2>3, TypeFacts, TilesFacts
    <2> QED
        BY <2>1, <2>2, <2>3
<1>7. CASE SyncDone
    BY <1>7, TilesFacts, TypeFacts DEF SyncDone
<1>8. CASE NearKnownArea
    BY <1>8, TilesFacts, TypeFacts
       DEF NearKnownArea, RequestSyncMap, StillToRead
<1>9. CASE NearTile
    <2> USE DEF NearTile, UpdateTile
    <2>1. CASE robot.res = holdRes
        BY <1>9, <2>1, HoldUpdate, TypeFacts, ReadingFacts, PrefixGrows, TypeFacts, TilesFacts
    <2>2. CASE robot.res # holdRes
        BY <1>9, <2>2, TypeFacts, TilesFacts
    <2> QED
        BY <2>1, <2>2
<1>10. CASE LoopClosure \/ MsgCbSyncMap
    BY <1>10, TilesFacts, TypeFacts
       DEF LoopClosure, MsgCbSyncMap, RequestSyncMap, StillToRead
<1>11. CASE MsgCbClearMap \/ SetStcmClear
    BY <1>11, TilesFacts, TypeFacts
       DEF MsgCbClearMap, SetStcmClear, ClearRobotMap
<1>12. CASE SrvCbSyncSetStcm \/ SetStcmOff \/ SetStcmOn \/ SetStcmThrows
    BY <1>12, TilesFacts, TypeFacts
       DEF SrvCbSyncSetStcm, SetStcmOff, SetStcmOn, SetStcmThrows
<1>13. CASE SetStcmSet
    BY <1>13, TilesFacts, TypeFacts DEF SetStcmSet
<1>14. CASE SetStcmRequest
    BY <1>14, TilesFacts, TypeFacts
       DEF SetStcmRequest, RequestSyncMap, StillToRead
<1>15. CASE UNCHANGED vars
    BY <1>15, TilesFacts, TypeFacts
<1> QED
    BY <1>1, <1>2, <1>3, <1>4, <1>5, <1>6, <1>7, <1>8, <1>9, <1>10, <1>11,
    <1>12, <1>13, <1>14, <1>15
       DEF Next, WorkStep, RosStep

LEMMA OwedAheadStep == (TypeOK /\ ScanPrefix /\ OwedAhead) /\ [Next]_vars => OwedAhead'
<1> SUFFICES ASSUME (TypeOK /\ ScanPrefix /\ OwedAhead), [Next]_vars PROVE OwedAhead'
    OBVIOUS
<1> USE DEF ScanPrefix, OwedAhead, RequestsServed, robotVars, workVars,
        mapVars, rosVars, vars
<1>1. CASE ReinitWorkLoop
    BY <1>1, TilesFacts, TypeFacts DEF ReinitWorkLoop
<1>2. CASE DoPerform
    BY <1>2, TilesFacts, TypeFacts DEF DoPerform, RequestSyncMap, StillToRead
<1>3. CASE CallFails \/ Disconnect \/ Explore
    BY <1>3, TilesFacts, TypeFacts DEF CallFails, Disconnect, Explore
<1>4. CASE ReinitMap
    BY <1>4, TilesFacts, TypeFacts DEF ReinitMap
<1>5. CASE SyncWholeMap
    BY <1>5, TilesFacts, TypeFacts DEF SyncWholeMap
<1>6. CASE SyncTile
    <2> USE DEF SyncTile, UpdateTile
    <2>1. CASE robot.res = holdRes
        BY <1>6, <2>1, HoldUpdate, TypeFacts, ReadingFacts, PrefixGrows, TypeFacts, TilesFacts
    <2>2. CASE robot.res # holdRes
        BY <1>6, <2>2, TypeFacts, TilesFacts
    <2> QED
        BY <2>1, <2>2
<1>7. CASE SyncDone
    BY <1>7, TilesFacts, TypeFacts DEF SyncDone
<1>8. CASE NearKnownArea
    BY <1>8, TilesFacts, TypeFacts
       DEF NearKnownArea, RequestSyncMap, StillToRead
<1>9. CASE NearTile
    <2> USE DEF NearTile, UpdateTile
    <2>1. CASE robot.res = holdRes
        BY <1>9, <2>1, HoldUpdate, TypeFacts, ReadingFacts, PrefixGrows, TypeFacts, TilesFacts
    <2>2. CASE robot.res # holdRes
        BY <1>9, <2>2, TypeFacts, TilesFacts
    <2> QED
        BY <2>1, <2>2
<1>10. CASE LoopClosure \/ MsgCbSyncMap
    BY <1>10, TilesFacts, TypeFacts
       DEF LoopClosure, MsgCbSyncMap, RequestSyncMap, StillToRead
<1>11. CASE MsgCbClearMap \/ SetStcmClear
    BY <1>11, TilesFacts, TypeFacts
       DEF MsgCbClearMap, SetStcmClear, ClearRobotMap
<1>12. CASE SrvCbSyncSetStcm \/ SetStcmOff \/ SetStcmOn \/ SetStcmThrows
    BY <1>12, TilesFacts, TypeFacts
       DEF SrvCbSyncSetStcm, SetStcmOff, SetStcmOn, SetStcmThrows
<1>13. CASE SetStcmSet
    BY <1>13, TilesFacts, TypeFacts DEF SetStcmSet
<1>14. CASE SetStcmRequest
    BY <1>14, TilesFacts, TypeFacts
       DEF SetStcmRequest, RequestSyncMap, StillToRead
<1>15. CASE UNCHANGED vars
    BY <1>15, TilesFacts, TypeFacts
<1> QED
    BY <1>1, <1>2, <1>3, <1>4, <1>5, <1>6, <1>7, <1>8, <1>9, <1>10, <1>11,
    <1>12, <1>13, <1>14, <1>15
       DEF Next, WorkStep, RosStep

LEMMA ShownPrefixStep == IInv /\ [Next]_vars => ShownPrefix'
<1> SUFFICES ASSUME IInv, [Next]_vars PROVE ShownPrefix'
    OBVIOUS
<1> USE DEF IInv, ScanPrefix, ShownPrefix, CompositeShown, robotVars,
        workVars, mapVars, rosVars, vars
<1>1. CASE ReinitWorkLoop
    BY <1>1, TilesFacts, TypeFacts DEF ReinitWorkLoop
<1>2. CASE DoPerform
    BY <1>2, TilesFacts, TypeFacts DEF DoPerform, RequestSyncMap, StillToRead
<1>3. CASE CallFails \/ Disconnect \/ Explore
    BY <1>3, TilesFacts, TypeFacts DEF CallFails, Disconnect, Explore
<1>4. CASE ReinitMap
    BY <1>4, TilesFacts, TypeFacts, BlankFacts DEF ReinitMap
<1>5. CASE SyncWholeMap
    BY <1>5, TilesFacts, TypeFacts, BlankFacts DEF SyncWholeMap
<1>6. CASE SyncTile
    <2> USE DEF SyncTile, UpdateTile
    <2>1. CASE robot.res = holdRes /\ next # NumTiles
        <3>1. next' = next + 1 /\ wpc' = "tile"
            BY <1>6, <2>1
        <3>2. /\ \A t \in Tiles : t # next => hold'[t] = hold[t]
              /\ hold'[next] = Reading /\ Reading # NoTile
              /\ Reading.edition = robot.edition
            BY <1>6, <2>1, HoldUpdate, ReadingFacts, TypeFacts
        <3>3. next' - 1 = next
            BY <3>1, TypeFacts DEF Tiles
        <3>4. \A t \in 1 .. (next' - 1) : t \in Tiles /\ (t \in 1 .. (next - 1) \/ t = next)
            BY <3>3, PrefixGrows, TypeFacts, TilesFacts, <2>1
        <3> QED
            BY <1>6, <2>1, <3>1, <3>2, <3>4, TypeFacts
    <2>2. CASE robot.res = holdRes /\ next = NumTiles
        <3>1. /\ \A t \in Tiles : t # next => hold'[t] = hold[t]
              /\ hold'[next] = Reading /\ Reading # NoTile
              /\ Reading.edition = robot.edition
            BY <1>6, <2>2, HoldUpdate, ReadingFacts, TypeFacts
        <3>2. \A t \in Tiles : t \in 1 .. (next - 1) \/ t = next
            BY <2>2, PrefixGrows, TypeFacts
        <3> QED
            BY <1>6, <2>2, <3>1, <3>2, TypeFacts
    <2>3. CASE robot.res # holdRes
        BY <1>6, <2>3, TypeFacts, TilesFacts
    <2> QED
        BY <2>1, <2>2, <2>3
<1>7. CASE SyncDone
    BY <1>7, TilesFacts, TypeFacts DEF SyncDone
<1>8. CASE NearKnownArea
    BY <1>8, TilesFacts, TypeFacts
       DEF NearKnownArea, RequestSyncMap, StillToRead
<1>9. CASE NearTile
    <2> USE DEF NearTile, UpdateTile
    <2>1. CASE robot.res = holdRes
        BY <1>9, <2>1, HoldUpdate, TypeFacts, ReadingFacts, PrefixGrows, TypeFacts, TilesFacts
    <2>2. CASE robot.res # holdRes
        BY <1>9, <2>2, TypeFacts, TilesFacts
    <2> QED
        BY <2>1, <2>2
<1>10. CASE LoopClosure \/ MsgCbSyncMap
    BY <1>10, TilesFacts, TypeFacts
       DEF LoopClosure, MsgCbSyncMap, RequestSyncMap, StillToRead
<1>11. CASE MsgCbClearMap \/ SetStcmClear
    BY <1>11, TilesFacts, TypeFacts
       DEF MsgCbClearMap, SetStcmClear, ClearRobotMap
<1>12. CASE SrvCbSyncSetStcm \/ SetStcmOff \/ SetStcmOn \/ SetStcmThrows
    BY <1>12, TilesFacts, TypeFacts
       DEF SrvCbSyncSetStcm, SetStcmOff, SetStcmOn, SetStcmThrows
<1>13. CASE SetStcmSet
    BY <1>13, TilesFacts, TypeFacts DEF SetStcmSet
<1>14. CASE SetStcmRequest
    <2>1. ASSUME shown' # 0, wpc = "tile" PROVE 1 .. (next - 1) = {}
        <3>1. next .. NumTiles = Tiles
            BY <1>14, <2>1 DEF SetStcmRequest, StillToRead
        <3>2. next = 1
            BY <3>1, TilesFacts, TypeFacts DEF Tiles
        <3> QED
            BY <3>2, TilesFacts
    <2>2. shown' # 0 => wpc # "store" /\ shown' = robot.edition
        BY <1>14, TilesFacts DEF SetStcmRequest, StillToRead
    <2> QED
        BY <1>14, <2>1, <2>2 DEF SetStcmRequest, RequestSyncMap
<1>15. CASE UNCHANGED vars
    BY <1>15, TilesFacts, TypeFacts
<1> QED
    BY <1>1, <1>2, <1>3, <1>4, <1>5, <1>6, <1>7, <1>8, <1>9, <1>10, <1>11,
    <1>12, <1>13, <1>14, <1>15
       DEF Next, WorkStep, RosStep

LEMMA IInvStep == IInv /\ [Next]_vars => IInv'
BY TypeStep, RoomStep, OneSourceStep, ScanPrefixStep, OwedAheadStep, ShownPrefixStep
   DEF IInv

\* The inductive invariant holds in every reachable state.
THEOREM Invariance == Spec => []IInv
BY InitIInv, IInvStep, PTL DEF Spec

\* The worker's position, its flags, the tiles and the robot's map keep their
\* types, and the bounds on connections and editions are never passed.
THEOREM TypeCorrect == Spec => []TypeOK
BY Invariance, PTL DEF IInv

\* reinitWorkLoop, checkToReinitMap_ and checkRecvResolution_ keep the tiles of
\* two robots, connections or resolutions out of one map.
THEOREM SourceCorrect == Spec => []NoMixedMaps
<1>1. IInv => NoMixedMaps
    BY DEF IInv, OneSource, NoMixedMaps
<1> QED
    BY <1>1, Invariance, PTL

\* Wherever syncWholeMap_ is broken off, the request for another one is up as
\* long as a tile is missing.
THEOREM HolesCorrect == Spec => []HolesArePending
<1>1. IInv => HolesArePending
    BY DEF IInv, ScanPrefix
<1> QED
    BY <1>1, Invariance, PTL

\* store(false) after the scan never takes down a request for a tile that was
\* not read since, requests raised during the scan for tiles it had passed
\* excepted.
THEOREM RequestsCorrect == Spec => []RequestsServed
<1>1. IInv => RequestsServed
    BY DEF IInv, OwedAhead
<1> QED
    BY <1>1, Invariance, PTL

\* A composite map set while no scan was under way is what the explored map
\* shows once the request of srvCbSyncSetStcm_ has been served.
THEOREM CompositeCorrect == Spec => []CompositeShown
<1>1. IInv => CompositeShown
    BY DEF IInv, ShownPrefix
<1> QED
    BY <1>1, Invariance, PTL

(***************************************************************************)
(* The request is taken down on nothing less than a whole map: every tile  *)
(* is there, read on the connection in use and at the holder's resolution. *)
(***************************************************************************)
TakenDownOnWhole ==
    syncMapRequested /\ ~syncMapRequested' =>
        \A t \in Tiles : /\ hold[t] # NoTile
                         /\ hold[t].conn = conn /\ hold[t].res = holdRes

THEOREM TakenDownWhole == Spec => [][TakenDownOnWhole]_vars
<1>1. IInv /\ [Next]_vars => [TakenDownOnWhole]_vars
    <2> SUFFICES ASSUME IInv, Next, syncMapRequested, ~syncMapRequested', NEW t \in Tiles
                 PROVE  hold[t] # NoTile /\ hold[t].conn = conn /\ hold[t].res = holdRes
        BY DEF TakenDownOnWhole
    <2>1. SyncDone
        BY DEF Next, WorkStep, RosStep, ReinitWorkLoop, DoPerform, RequestSyncMap,
           ReinitMap, SyncWholeMap, SyncTile, NearKnownArea, NearTile, CallFails,
           LoopClosure, Disconnect, MsgCbSyncMap, MsgCbClearMap, SrvCbSyncSetStcm,
           SetStcmClear, SetStcmOff, SetStcmSet, SetStcmOn, SetStcmRequest,
           SetStcmThrows, Explore
    <2>2. wpc = "store"
        BY <2>1 DEF SyncDone
    <2>3. hold[t] # NoTile /\ hold[t].conn = holdConn /\ hold[t].res = holdRes
        BY <2>2 DEF IInv, ScanPrefix, OneSource
    <2>4. holdConn = conn
        BY <2>2 DEF IInv, OneSource
    <2> QED
        BY <2>3, <2>4
<1> QED
    BY <1>1, Invariance, PTL DEF Spec

-----------------------------------------------------------------------------
(***************************************************************************)
(* MapSync implements MapMirror.  Where the thread is and the next tile    *)
(* are the round of readings under way; the switches of set_stcm, the      *)
(* calls before a scan and the exceptions are stutters.                    *)
(***************************************************************************)
LEMMA UnreadInScan ==
    ASSUME TypeOK
    PROVE  /\ wpc = "tile" => next \in StillToRead
           /\ wpc = "tile" /\ next = NumTiles => StillToRead \ {next} = {}
           /\ wpc = "tile" /\ next # NumTiles =>
                 StillToRead \ {next} = (next + 1) .. NumTiles
           /\ wpc = "store" => StillToRead = {}
           /\ wpc \notin {"tile", "store"} => StillToRead = Tiles
BY TilesAssumption DEF TypeOK, StillToRead, Tiles

\* What the new round has still to read, by the place the thread is at.
LEMMA UnreadNext ==
    /\ wpc' = "tile" => StillToRead' = next' .. NumTiles
    /\ wpc' = "store" => StillToRead' = {}
    /\ wpc' \notin {"tile", "store"} => StillToRead' = Tiles
BY DEF StillToRead, Tiles

LEMMA MirrorInit == Init => Mirror!MInit
<1> SUFFICES ASSUME Init PROVE Mirror!MInit
    OBVIOUS
<1>1. TypeOK /\ wpc = "idle"
    BY InitIInv DEF IInv, Init
<1>2. StillToRead = Tiles /\ Reading \in Tile
    BY <1>1, UnreadInScan, ReadingFacts
<1>3. HolderSource \in [conn: 0 .. MaxConn, res: Resolution]
    BY <1>1 DEF TypeOK, HolderSource
<1>4. hold = Mirror!Nothing
    BY DEF Init, Blank, Mirror!Nothing
<1> QED
    BY <1>2, <1>3, <1>4 DEF Init, Mirror!MInit

\* A step that leaves the picture and the flag alone changes the robot's map.
LEMMA RobotStep ==
    ASSUME TypeOK', UNCHANGED <<hold, holdRes, holdConn, syncMapRequested, due>>,
           StillToRead' = StillToRead
    PROVE  [Mirror!MNext]_(Mirror!mirrorVars)
<1>1. Reading' \in Tile
    BY BoundAssumption DEF TypeOK, Tile, Reading
<1> QED
    BY <1>1 DEF Mirror!MNext, Mirror!RobotChanges, HolderSource

LEMMA AskStep ==
    ASSUME RequestSyncMap, UNCHANGED <<conn, robot, hold, holdRes, holdConn>>,
           StillToRead' = StillToRead
    PROVE  [Mirror!MNext]_(Mirror!mirrorVars)
BY DEF RequestSyncMap, Mirror!MNext, Mirror!Ask, HolderSource, Reading

\* The worker gives up what it was doing; nothing else changes.
LEMMA BreakStep ==
    ASSUME UNCHANGED <<conn, robot, hold, holdRes, holdConn, syncMapRequested, due>>,
           StillToRead' = Tiles
    PROVE  [Mirror!MNext]_(Mirror!mirrorVars)
BY DEF Mirror!MNext, Mirror!BreakOff, HolderSource, Reading

\* A tile that fits is a reading of the robot's map as it is now.
LEMMA TileRead ==
    ASSUME IInv, wpc \in {"tile", "nearTile"}, NEW after, UpdateTile(after),
           robot.res = holdRes, UNCHANGED <<robotVars, holdRes, holdConn, syncMapRequested>>
    PROVE  Mirror!Read(next)
<1>1. holdConn = conn
    BY DEF IInv, OneSource
<1>2. Reading.conn = conn /\ Reading.res = holdRes
    BY ReadingFacts DEF IInv
<1>3. Mirror!SourceOf(Reading) = HolderSource
    BY <1>1, <1>2 DEF Mirror!SourceOf, HolderSource
<1>4. hold' = [hold EXCEPT ![next] = Reading] /\ due' = due \ {next}
    BY DEF UpdateTile
<1>5. Reading' = Reading /\ HolderSource' = HolderSource
    BY DEF Reading, HolderSource, robotVars
<1> QED
    BY <1>3, <1>4, <1>5 DEF Mirror!Read

LEMMA MirrorStep ==
    IInv /\ IInv' /\ [Next]_vars => [Mirror!MNext]_(Mirror!mirrorVars)
<1> SUFFICES ASSUME IInv, IInv', [Next]_vars
             PROVE  [Mirror!MNext]_(Mirror!mirrorVars)
    OBVIOUS
<1>0. TypeOK /\ TypeOK'
    BY DEF IInv
<1> USE UnreadNext
<1>1. CASE SyncTile
    <2>1. wpc = "tile" /\ next \in StillToRead /\ next \in Tiles /\ syncMapRequested
        BY <1>1, <1>0, UnreadInScan, TypeFacts DEF SyncTile, IInv, ScanPrefix
    <2>2. CASE robot.res = holdRes
        <3>1. Mirror!Read(next)
            BY <1>1, <2>1, <2>2, TileRead DEF SyncTile
        <3>2. StillToRead' = StillToRead \ {next}
            BY <1>1, <1>0, <2>1, <2>2, UnreadInScan DEF SyncTile, UpdateTile
        <3>3. Mirror!ReadInRound(next)
            BY <2>1, <3>1, <3>2 DEF Mirror!ReadInRound
        <3> QED
            BY <2>1, <3>3 DEF Mirror!MNext
    <2>3. CASE robot.res # holdRes
        <3>1. StillToRead' = Tiles
            BY <1>1, <2>3 DEF SyncTile, UpdateTile
        <3> QED
            BY <1>1, <2>3, <3>1, BreakStep DEF SyncTile, UpdateTile, robotVars
    <2> QED
        BY <2>2, <2>3
<1>2. CASE NearTile
    <2>1. wpc = "nearTile" /\ StillToRead = Tiles /\ StillToRead' = Tiles /\ next \in Tiles
        BY <1>2, <1>0, UnreadInScan, TypeFacts DEF NearTile, UpdateTile
    <2>2. CASE robot.res = holdRes
        <3>1. Mirror!Read(next)
            BY <1>2, <2>1, <2>2, TileRead DEF NearTile
        <3> QED
            BY <2>1, <3>1 DEF Mirror!Refresh, Mirror!MNext
    <2>3. CASE robot.res # holdRes
        BY <1>2, <2>1, <2>3, BreakStep DEF NearTile, UpdateTile, robotVars
    <2> QED
        BY <2>2, <2>3
<1>3. CASE ReinitMap
    <2>1. syncMapRequested /\ StillToRead = Tiles /\ StillToRead' = Tiles
        BY <1>3, <1>0, UnreadInScan DEF ReinitMap, IInv, ScanPrefix
    <2>2. Reading.conn = conn /\ Reading.res = robot.res
        BY <1>0, ReadingFacts
    <2>3. HolderSource' = Mirror!SourceOf(Reading)
        BY <1>3, <2>2 DEF ReinitMap, HolderSource, Mirror!SourceOf
    <2>4. Mirror!Erase
        BY <1>3, <2>1 DEF ReinitMap, Blank, Mirror!Erase, Mirror!Nothing, Reading, robotVars
    <2> QED
        BY <2>3, <2>4 DEF Mirror!NewSource, Mirror!MNext
<1>4. CASE SyncWholeMap
    <2>1. syncMapRequested /\ StillToRead = Tiles
        BY <1>4, <1>0, UnreadInScan DEF SyncWholeMap, IInv, ScanPrefix
    <2>2. CASE robot.known
        <3>1. StillToRead' = Tiles
            BY <1>4, <2>2 DEF SyncWholeMap, Tiles
        <3>2. Mirror!Erase
            BY <1>4, <2>1, <2>2, <3>1
               DEF SyncWholeMap, Blank, Mirror!Erase, Mirror!Nothing, Reading, robotVars
        <3> QED
            BY <1>4, <3>2 DEF SyncWholeMap, Mirror!BeginRound, Mirror!MNext, HolderSource
    <2>3. CASE ~robot.known
        BY <1>4, <2>3, BreakStep DEF SyncWholeMap, robotVars
    <2> QED
        BY <2>2, <2>3
<1>5. CASE SyncDone
    <2>1. syncMapRequested /\ StillToRead = {} /\ StillToRead' = Tiles
        BY <1>5, <1>0, UnreadInScan DEF SyncDone, IInv, ScanPrefix
    <2> QED
        BY <1>5, <2>1 DEF SyncDone, Mirror!CloseRound, Mirror!MNext, HolderSource, Reading,
           robotVars, mapVars
<1>6. CASE DoPerform
    <2>1. StillToRead = Tiles /\ StillToRead' = Tiles
        BY <1>6, <1>0, UnreadInScan DEF DoPerform
    <2> QED
        BY <1>6, <2>1, AskStep, BreakStep DEF DoPerform, robotVars, mapVars
<1>7. CASE NearKnownArea
    <2>1. StillToRead = Tiles /\ StillToRead' = Tiles
        BY <1>7, <1>0, UnreadInScan DEF NearKnownArea
    <2> QED
        BY <1>7, <2>1, AskStep, BreakStep DEF NearKnownArea, robotVars, mapVars
<1>8. CASE CallFails \/ Disconnect
    BY <1>8, BreakStep DEF CallFails, Disconnect, robotVars, mapVars
<1>9. CASE LoopClosure \/ MsgCbSyncMap \/ SetStcmRequest
    <2>1. StillToRead' = StillToRead
        BY <1>9 DEF LoopClosure, MsgCbSyncMap, SetStcmRequest, StillToRead, workVars
    <2> QED
        BY <1>9, <2>1, AskStep
           DEF LoopClosure, MsgCbSyncMap, SetStcmRequest, robotVars, mapVars
<1>10. CASE ReinitWorkLoop
    <2>1. StillToRead = Tiles /\ StillToRead' = Tiles
        BY <1>10, <1>0, UnreadInScan DEF ReinitWorkLoop
    <2> QED
        BY <1>10, <1>0, <2>1, RobotStep DEF ReinitWorkLoop, mapVars
<1>11. CASE \/ MsgCbClearMap \/ SrvCbSyncSetStcm \/ SetStcmClear \/ SetStcmOff
            \/ SetStcmSet \/ SetStcmOn \/ SetStcmThrows \/ Explore
    <2>1. UNCHANGED <<workVars, mapVars, syncMapRequested, due>>
        BY <1>11 DEF MsgCbClearMap, SrvCbSyncSetStcm, SetStcmClear, SetStcmOff, SetStcmSet,
           SetStcmOn, SetStcmThrows, Explore
    <2>2. StillToRead' = StillToRead
        BY <2>1 DEF StillToRead, workVars
    <2> QED
        BY <1>0, <2>1, <2>2, RobotStep DEF mapVars
<1>12. CASE UNCHANGED vars
    <2>1. StillToRead' = StillToRead
        BY <1>12 DEF StillToRead, vars, workVars
    <2> QED
        BY <1>12, <1>0, <2>1, RobotStep DEF vars, mapVars
<1> QED
    BY <1>1, <1>2, <1>3, <1>4, <1>5, <1>6, <1>7, <1>8, <1>9, <1>10, <1>11, <1>12
       DEF Next, WorkStep, RosStep

\* Worker, callbacks and flag implement the picture that MapMirror promises.
THEOREM SyncImplementsMirror == Spec => ImplementsMirror
<1> QED
    BY MirrorInit, MirrorStep, Invariance, PTL DEF Spec, ImplementsMirror, Mirror!MSpec

-----------------------------------------------------------------------------
LEMMA NothingShown == \A t \in Tiles : Mirror!Nothing[t] = NoTile
BY DEF Mirror!Nothing

LEMMA MirrorSafeStep ==
    (TypeOK /\ Mirror!MirrorSafe) /\ [Mirror!MNext]_(Mirror!mirrorVars)
        => Mirror!MirrorSafe'
<1> SUFFICES ASSUME TypeOK, Mirror!MirrorSafe, [Mirror!MNext]_(Mirror!mirrorVars)
             PROVE  Mirror!MirrorSafe'
    OBVIOUS
<1> USE DEF Mirror!MirrorSafe
<1>1. CASE Mirror!RobotChanges \/ Mirror!Ask \/ Mirror!BreakOff \/ Mirror!CloseRound
    BY <1>1, TypeFacts DEF Mirror!RobotChanges, Mirror!Ask, Mirror!BreakOff, Mirror!CloseRound
<1>2. CASE Mirror!NewSource \/ Mirror!BeginRound
    BY <1>2, NothingShown, TypeFacts DEF Mirror!NewSource, Mirror!BeginRound, Mirror!Erase
<1>3. ASSUME NEW n \in Tiles, Mirror!ReadInRound(n) \/ Mirror!Refresh(n)
      PROVE  Mirror!MirrorSafe'
    <2>1. /\ hold'[n] = Reading /\ \A t \in Tiles : t # n => hold'[t] = hold[t]
          /\ Mirror!SourceOf(Reading) = HolderSource /\ Reading # NoTile
          /\ HolderSource' = HolderSource /\ syncMapRequested' = syncMapRequested
          /\ due' = due \ {n}
        BY <1>3, ReadingFacts, TypeFacts DEF Mirror!ReadInRound, Mirror!Refresh, Mirror!Read
    <2>2. StillToRead' \in {StillToRead, StillToRead \ {n}}
        BY <1>3 DEF Mirror!ReadInRound, Mirror!Refresh
    <2> QED
        BY <2>1, <2>2
<1>4. CASE UNCHANGED Mirror!mirrorVars
    BY <1>4 DEF Mirror!mirrorVars
<1> QED
    BY <1>1, <1>2, <1>3, <1>4 DEF Mirror!MNext

(***************************************************************************)
(* Those who asked for a synchronisation, on either thread, can rely on    *)
(* the picture: one source, holes seen to, nothing owed once the flag is   *)
(* down, and all that is owed still ahead in the scan under way.           *)
(***************************************************************************)
THEOREM MapKeepsMirror == Spec => []Mirror!MirrorSafe
<1>1. Mirror!MInit => Mirror!MirrorSafe
    BY NothingShown DEF Mirror!MInit, Mirror!MirrorSafe
<1> QED
    BY <1>1, MirrorSafeStep, SyncImplementsMirror, TypeCorrect, PTL
       DEF ImplementsMirror, Mirror!MSpec

(***************************************************************************)
(* A tile comes to show only the map that the robot has at that moment, or *)
(* is given up for a synchronisation that is asked for: no step of either  *)
(* thread brings an older version back.                                    *)
(***************************************************************************)
THEOREM MapFollowsRobot == Spec => Mirror!MirrorFollows
<1> DEFINE Follows ==
        \A t \in Tiles : hold'[t] # hold[t] =>
            \/ hold'[t] = Reading /\ Mirror!SourceOf(Reading) = HolderSource'
            \/ hold'[t] = NoTile /\ syncMapRequested
<1>1. TypeOK /\ [Mirror!MNext]_(Mirror!mirrorVars) => [Follows]_(Mirror!mirrorVars)
    <2> SUFFICES ASSUME TypeOK, Mirror!MNext, NEW t \in Tiles, hold'[t] # hold[t]
                 PROVE  \/ hold'[t] = Reading /\ Mirror!SourceOf(Reading) = HolderSource'
                        \/ hold'[t] = NoTile /\ syncMapRequested
        OBVIOUS
    <2>1. CASE Mirror!NewSource \/ Mirror!BeginRound
        BY <2>1, NothingShown DEF Mirror!NewSource, Mirror!BeginRound, Mirror!Erase
    <2>2. ASSUME NEW n \in Tiles, Mirror!Read(n)
          PROVE  hold'[t] = Reading /\ Mirror!SourceOf(Reading) = HolderSource'
        BY <2>2, TypeFacts DEF Mirror!Read
    <2> QED
        BY <2>1, <2>2 DEF Mirror!MNext, Mirror!RobotChanges, Mirror!Ask, Mirror!BreakOff,
           Mirror!CloseRound, Mirror!ReadInRound, Mirror!Refresh
<1> QED
    BY <1>1, SyncImplementsMirror, TypeCorrect, PTL
       DEF ImplementsMirror, Mirror!MSpec, Mirror!MirrorFollows
=============================================================================
