----------------------------- MODULE MapMirror ------------------------------
(***************************************************************************)
(* What ServerExploreMapUpdateWorker promises those who ask it, on either  *)
(* thread, for a synchronisation: a picture of the robot's map, of one     *)
(* robot at one resolution.  A request owes a reading of every tile, or,   *)
(* while the picture is being taken anew, of those not yet read; it is     *)
(* closed by a whole round of readings, whichever rounds are broken off.   *)
(***************************************************************************)
CONSTANTS
    Tiles,          \* the parts of the picture
    NoTile,         \* what a part shows that was not read
    Version,        \* versions of robots' maps, each with its conn and res
    Source          \* where a picture may come from

VARIABLES
    robot,          \* the version of the map that the robot has now
    picture,        \* the version each tile shows
    source,         \* the connection and resolution of the picture
    asked,          \* a synchronisation is asked for
    owed,           \* tiles asked for and not read since
    unread          \* tiles the round of readings under way has still to read

mirrorVars == <<robot, picture, source, asked, owed, unread>>

SourceOf(version) == [conn |-> version.conn, res |-> version.res]

Nothing == [t \in Tiles |-> NoTile]

MInit ==
    /\ robot \in Version /\ source \in Source
    /\ picture = Nothing
    /\ asked = TRUE /\ owed = Tiles /\ unread = Tiles

\* It explores, is cleared or given another map, or is another robot.
RobotChanges ==
    /\ robot' \in Version
    /\ UNCHANGED <<picture, source, asked, owed, unread>>

Ask ==
    /\ asked' = TRUE
    /\ owed' = owed \union unread
    /\ UNCHANGED <<robot, picture, source, unread>>

-----------------------------------------------------------------------------
\* A picture is given up only when a new one is asked for.
Erase ==
    /\ asked
    /\ picture' = Nothing /\ unread' = Tiles
    /\ UNCHANGED <<robot, asked, owed>>

NewSource == Erase /\ source' = SourceOf(robot)

BeginRound == Erase /\ UNCHANGED source

Read(t) ==
    /\ SourceOf(robot) = source
    /\ picture' = [picture EXCEPT ![t] = robot]
    /\ owed' = owed \ {t}
    /\ UNCHANGED <<robot, source, asked>>

ReadInRound(t) ==
    /\ asked /\ t \in unread
    /\ Read(t)
    /\ unread' = unread \ {t}

\* A tile may be brought up to date between two rounds; that closes nothing.
Refresh(t) == unread = Tiles /\ Read(t) /\ UNCHANGED unread

BreakOff ==
    /\ unread' = Tiles
    /\ UNCHANGED <<robot, picture, source, asked, owed>>

CloseRound ==
    /\ asked /\ unread = {}
    /\ asked' = FALSE /\ unread' = Tiles
    /\ UNCHANGED <<robot, picture, source, owed>>

MNext ==
    \/ RobotChanges \/ Ask \/ NewSource \/ BeginRound \/ BreakOff \/ CloseRound
    \/ \E t \in Tiles : ReadInRound(t) \/ Refresh(t)

MSpec == MInit /\ [][MNext]_mirrorVars

-----------------------------------------------------------------------------
(***************************************************************************)
(* Those who asked rely on this: what is shown comes from one source, a    *)
(* hole is being seen to, what is owed is still to come in this round, and *)
(* when nothing is asked for any more, nothing is owed.                    *)
(***************************************************************************)
MirrorSafe ==
    /\ \A t \in Tiles : picture[t] # NoTile => SourceOf(picture[t]) = source
    /\ \A t \in Tiles : picture[t] = NoTile => asked /\ t \in unread
    /\ owed \subseteq unread
    /\ ~asked => owed = {}

(***************************************************************************)
(* What a tile shows changes to the version the robot has at that moment   *)
(* and to no other, or is given up because a synchronisation is asked for. *)
(***************************************************************************)
MirrorFollows ==
    [][\A t \in Tiles : picture'[t] # picture[t] =>
          \/ picture'[t] = robot /\ SourceOf(robot) = source'
          \/ picture'[t] = NoTile /\ asked]_mirrorVars
=============================================================================
