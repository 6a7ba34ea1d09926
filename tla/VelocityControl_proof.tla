----------------------- MODULE VelocityControl_proof ------------------------
(***************************************************************************)
(* Proofs about VelocityControl, for any number of connections.            *)
(***************************************************************************)
EXTENDS VelocityControl, TLAPS

USE MaxConnAssumption DEF Conns, NoConn

LEMMA InitIInv == Init => IInv
<1> SUFFICES ASSUME Init PROVE IInv
    OBVIOUS
<1>1. TypeOK
    BY DEF Init, TypeOK, NoAction, Idle
<1> QED
    BY <1>1 DEF Init, IInv, LossBounded, LostLeavesFreshAction, SecondConstructs,
                ClosingIsLost

(***************************************************************************)
(* The work thread and the network leave the action alone; only a platform *)
(* that is lost is swapped out, and losing it starts the count afresh.     *)
(***************************************************************************)
LEMMA WorkKeepsIInv == IInv /\ WorkStep => IInv'
<1> SUFFICES ASSUME IInv, WorkStep PROVE IInv'
    OBVIOUS
<1> USE DEF IInv, TypeOK, LossBounded, LostLeavesFreshAction, SecondConstructs,
            ClosingIsLost, Reachable, NoAction
<1>1. CASE \E c \in Conns : Connect(c)
    BY <1>1 DEF Connect
<1>2. CASE \E c \in Conns : LoseConnection(c)
    BY <1>2 DEF LoseConnection
<1>3. CASE SwapOutPlatform
    BY <1>3 DEF SwapOutPlatform
<1>4. CASE DisconnectPlatform
    BY <1>4 DEF DisconnectPlatform
<1> QED
    BY <1>1, <1>2, <1>3, <1>4 DEF WorkStep

(***************************************************************************)
(* The ROS thread counts a loss only when it leaves no action, coming from *)
(* one of another connection, or a new action of the connection in use.    *)
(***************************************************************************)
LEMMA RosKeepsIInv == IInv /\ RosStep => IInv'
<1> SUFFICES ASSUME IInv, RosStep PROVE IInv'
    OBVIOUS
<1> USE DEF IInv, TypeOK, LossBounded, LostLeavesFreshAction, SecondConstructs,
            ClosingIsLost, Reachable, NoAction
<1>1. CASE NotConnected
    BY <1>1 DEF NotConnected
<1>2. CASE \E topic \in Topics : CallbackBegins(topic)
    BY <1>2 DEF CallbackBegins
<1>3. CASE ConstructAction
    <2>1. lost' \in Nat /\ lost' <= 2 /\ lost' >= 1
        BY <1>3 DEF ConstructAction, LostOne
    <2>2. velocityControllAction' = [conn |-> slamwarePltfm, flag |-> Flag(callback)]
        BY <1>3 DEF ConstructAction
    <2>3. velocityControllAction'.conn = slamwarePltfm
        BY <2>2
    <2>4. velocityControllAction' \in [conn : Conns, flag : {"monitored", "not_monitored"}]
        BY <1>3, <2>2 DEF ConstructAction, Flag
    <2> QED
        BY <1>3, <2>1, <2>3, <2>4 DEF ConstructAction, Idle
<1>4. CASE ConstructFails
    BY <1>4 DEF ConstructFails
<1>5. CASE ConstructOnEmpty
    BY <1>5 DEF ConstructOnEmpty
<1>6. CASE SetVelocity
    BY <1>6 DEF SetVelocity
<1>7. CASE SetVelocityOnGone
    <2>1. lost = 0 \/ ~Reachable
        BY <1>7 DEF SetVelocityOnGone
    <2>2. lost' \in 0..1 /\ (lost' = 1 => Reachable)
        BY <2>1, <1>7 DEF SetVelocityOnGone, LostOne
    <2> QED
        BY <1>7, <2>2 DEF SetVelocityOnGone, ForgetAction, Idle
<1>8. CASE SetVelocityRefused
    BY <1>8 DEF SetVelocityRefused, ForgetAction
<1> QED
    BY <1>1, <1>2, <1>3, <1>4, <1>5, <1>6, <1>7, <1>8 DEF RosStep

LEMMA Invariance == Spec => []IInv
<1>1. IInv /\ [Next]_vars => IInv'
    <2>1. IInv /\ UNCHANGED vars => IInv'
        BY DEF vars, IInv, TypeOK, LossBounded, LostLeavesFreshAction,
               SecondConstructs, ClosingIsLost, Reachable
    <2> QED
        BY <2>1, WorkKeepsIInv, RosKeepsIInv DEF Next
<1> QED
    BY InitIInv, <1>1, PTL DEF Spec

(***************************************************************************)
(* Handles, connections and the action stay in their ranges.               *)
(***************************************************************************)
THEOREM TypeCorrect == Spec => []TypeOK
<1>1. IInv => TypeOK
    BY DEF IInv
<1> QED
    BY <1>1, Invariance, PTL

(***************************************************************************)
(* However often the connection is lost, never more than two velocity      *)
(* messages in a row are lost on a robot that answers.                     *)
(***************************************************************************)
THEOREM LossIsBounded == Spec => []LossBounded
<1>1. IInv => LossBounded
    BY DEF IInv
<1> QED
    BY <1>1, Invariance, PTL
=============================================================================
