----------------------------- MODULE VoicePick ------------------------------
(***************************************************************************)
(* The voice driven manipulator (grasp_topic/scripts/xinhai_connect.py):   *)
(* the main loop takes the latched instruction, asks the planner for a     *)
(* list of actions and carries them out; a pick sends an image to the      *)
(* vision host and waits for the pose of the object.                       *)
(*                                                                         *)
(* One thread runs everything.  Callbacks run only while it spins: once    *)
(* per round of the main loop, and any number of times while a pick waits. *)
(* Instructions are numbered as they are said, poses and picks by their    *)
(* image: a pose by the one it was computed from, a pick and its           *)
(* subscription by the one sent.  Nothing in a message tells a callback    *)
(* the image.  A call to the arm, the camera or the gripper may throw.     *)
(***************************************************************************)
EXTENDS Integers, Sequences

CONSTANTS
    QueueDepth,     \* depth of the /voice_text subscription, 10 in the code
    MaxSaid,        \* bound on the messages said
    Plans           \* what the planner may answer

ASSUME DepthAssumption == QueueDepth \in Nat \ {0}
ASSUME SaidAssumption == MaxSaid \in Nat

Operations == {"navigate", "pick", "place", "other", "broken"}
ASSUME PlansAssumption == Plans \subseteq Seq(Operations)

VARIABLES
    said,           \* messages said so far
    queue,          \* those waiting in the subscription
    blank,          \* those the callback found empty
    pending,        \* pending_voice_instruction, 0 for None
    begun,          \* the last instruction that was begun
    pc,             \* where the thread is
    attempt,        \* of the request to the planner
    plan,           \* the actions still to be carried out
    image,          \* images sent to the vision host
    answers,        \* those whose poses are still on the way
    inbox,          \* <<s, i>>: the pose of image i waits in subscription s
    objPose,        \* obj_pose, 0 for None
    leaked,         \* the picks whose subscription was not destroyed
    operatePose,    \* operate_pose, 0 for None
    grip            \* the pose the gripper is closed at, 0 when it is open

voice == <<said, queue, blank, pending, begun>>
sight == <<image, answers, inbox, objPose, leaked>>
arm == <<operatePose, grip>>
vars == <<voice, pc, attempt, plan, sight, arm>>

Label == {"spin", "check", "planner", "next", "observe", "subscribe", "wait",
          "grasp", "reach", "carry", "drop", "retreat", "died"}
MaxAttempts == 3

At(l) == pc = l
GoTo(l) == pc' = l

-----------------------------------------------------------------------------
(* Messages and their callback.                                            *)

\* The subscription keeps the last QueueDepth messages.
Say ==
    /\ said < MaxSaid
    /\ said' = said + 1
    /\ queue' = Append(IF Len(queue) = QueueDepth THEN Tail(queue) ELSE queue, said + 1)
    /\ UNCHANGED <<blank, pending, begun, pc, attempt, plan, sight, arm>>

\* The thread runs callbacks; in the main loop it then looks at the latch.
Spinning == At("spin") \/ At("wait")
AfterCallback == GoTo(IF At("spin") THEN "check" ELSE "wait")

\* Seeded fault: what is said while a pick waits is not taken.
LatchWhenIdle ==
    /\ Spinning /\ queue # <<>>
    /\ pending' = IF At("wait") THEN pending ELSE Head(queue)
    /\ queue' = Tail(queue)
    /\ AfterCallback
    /\ UNCHANGED <<said, blank, begun, attempt, plan, sight, arm>>

LatchInstruction ==
    /\ Spinning /\ queue # <<>>
    /\ pending' = Head(queue)
    /\ queue' = Tail(queue)
    /\ AfterCallback
    /\ UNCHANGED <<said, blank, begun, attempt, plan, sight, arm>>

IgnoreBlank ==
    /\ Spinning /\ queue # <<>>
    /\ blank' = blank \union {Head(queue)}
    /\ queue' = Tail(queue)
    /\ AfterCallback
    /\ UNCHANGED <<said, pending, begun, attempt, plan, sight, arm>>

SpinTimesOut ==
    /\ At("spin") /\ queue = <<>> /\ inbox = {}
    /\ GoTo("check")
    /\ UNCHANGED <<voice, attempt, plan, sight, arm>>

-----------------------------------------------------------------------------
(* The main loop and the planner.                                          *)

NothingPending ==
    /\ At("check") /\ pending = 0
    /\ GoTo("spin")
    /\ UNCHANGED <<voice, attempt, plan, sight, arm>>

\* Seeded fault: the latch is cleared when the instruction is done.
BeginKeepsLatch ==
    /\ At("check") /\ pending # 0
    /\ begun' = pending
    /\ attempt' = 1
    /\ GoTo("planner")
    /\ UNCHANGED <<said, queue, blank, pending, plan, sight, arm>>

BeginInstruction ==
    /\ At("check") /\ pending # 0
    /\ begun' = pending /\ pending' = 0
    /\ attempt' = 1
    /\ GoTo("planner")
    /\ UNCHANGED <<said, queue, blank, plan, sight, arm>>

\* The instruction is over, done or failed: both are only logged.
EndInstruction == GoTo("spin") /\ plan' = <<>>

\* A network error, tried again after 2 s; the last one is a failure.
PlannerUnreachable ==
    /\ At("planner") /\ attempt < MaxAttempts
    /\ attempt' = attempt + 1
    /\ UNCHANGED <<voice, pc, plan, sight, arm>>

\* Any other error, an answer that is not JSON or one without actions.
PlannerFails ==
    /\ At("planner")
    /\ EndInstruction
    /\ UNCHANGED <<voice, attempt, sight, arm>>

PlannerAnswers ==
    /\ At("planner")
    /\ plan' \in Plans
    /\ GoTo("next")
    /\ UNCHANGED <<voice, attempt, sight, arm>>

-----------------------------------------------------------------------------
(* execute_instruction_with_gpt, action by action.                         *)

Upcoming(operation) == At("next") /\ plan # <<>> /\ Head(plan) = operation
Done == GoTo("next") /\ plan' = Tail(plan)

PlanDone ==
    /\ At("next") /\ plan = <<>>
    /\ EndInstruction
    /\ UNCHANGED <<voice, attempt, sight, arm>>

\* Whether the robot got there is not looked at.
Navigate ==
    /\ Upcoming("navigate")
    /\ Done
    /\ UNCHANGED <<voice, attempt, sight, arm>>

UnknownOperation ==
    /\ Upcoming("other")
    /\ EndInstruction
    /\ UNCHANGED <<voice, attempt, sight, arm>>

\* An answer without text, an action that is no object or has a height that is
\* no number, an arm or base that throws outside the try blocks: nothing
\* catches these before main.
Dies ==
    /\ At("planner") \/ Upcoming("broken") \/ Upcoming("navigate") \/ Upcoming("pick")
    /\ GoTo("died")
    /\ UNCHANGED <<voice, attempt, plan, sight, arm>>

BeginPick ==
    /\ Upcoming("pick")
    /\ GoTo("observe")
    /\ UNCHANGED <<voice, attempt, plan, sight, arm>>

\* A place without an earlier grasp does nothing and counts as done.
BeginPlace ==
    /\ Upcoming("place")
    /\ IF operatePose = 0 THEN Done ELSE GoTo("drop") /\ plan' = plan
    /\ UNCHANGED <<voice, attempt, sight, arm>>

-----------------------------------------------------------------------------
(* A pick: image, subscription, pose, grasp.                               *)

DeliverImage ==
    /\ At("observe")
    /\ image' = image + 1 /\ answers' = answers \union {image + 1}
    /\ GoTo("subscribe")
    /\ UNCHANGED <<voice, attempt, plan, inbox, objPose, leaked, arm>>

Subscribe ==
    /\ At("subscribe")
    /\ GoTo("wait")
    /\ UNCHANGED <<voice, attempt, plan, sight, arm>>

\* The vision host's pose reaches every subscription there is at that time: it
\* may come before this pick's, or after the pick it was meant for ended.
Subscriptions == leaked \union (IF At("wait") THEN {image} ELSE {})

AnswerArrives ==
    /\ ~At("died")
    /\ \E i \in answers :
          /\ answers' = answers \ {i}
          /\ inbox' = inbox \union (Subscriptions \X {i})
    /\ UNCHANGED <<voice, pc, attempt, plan, image, objPose, leaked, arm>>

\* Seeded fault: the wait has a limit, and what comes after it is not looked at.
PoseOrTimeout ==
    /\ At("wait")
    /\ (\E m \in inbox : m[1] = image /\ objPose' = m[2]) \/ objPose' = objPose
    /\ inbox' = {m \in inbox : m[1] # image}
    /\ GoTo("grasp")
    /\ UNCHANGED <<voice, attempt, plan, image, answers, leaked, arm>>

\* The first pose in the pick's own subscription ends the wait, whatever image it
\* was computed from; the subscription is destroyed with what is left in it.
PoseArrives ==
    /\ At("wait")
    /\ \E m \in inbox : m[1] = image /\ objPose' = m[2]
    /\ inbox' = {m \in inbox : m[1] # image}
    /\ GoTo("grasp")
    /\ UNCHANGED <<voice, attempt, plan, image, answers, leaked, arm>>

\* A callback throws, say on its calibration file, while a pick waits: the pick
\* fails before it destroys its subscription.
WaitFails == leaked' = leaked \union {image} /\ EndInstruction

PoseRejected ==
    /\ At("wait")
    /\ \E m \in inbox : m[1] = image /\ inbox' = inbox \ {m}
    /\ WaitFails
    /\ UNCHANGED <<voice, attempt, image, answers, objPose, arm>>

\* The leaked callback sets obj_pose and completes a future nobody waits for.
LatePose ==
    /\ Spinning
    /\ \E m \in inbox : m[1] \in leaked /\ objPose' = m[2] /\ inbox' = inbox \ {m}
    /\ AfterCallback
    /\ UNCHANGED <<voice, attempt, plan, image, answers, leaked, arm>>

\* It ends the pick that waits, with that pick's own pose still to come; the
\* main loop catches nothing.
LatePoseThrows ==
    /\ Spinning
    /\ \E m \in inbox : m[1] \in leaked /\ inbox' = inbox \ {m}
    /\ IF At("spin") THEN GoTo("died") /\ UNCHANGED <<plan, leaked>> ELSE WaitFails
    /\ UNCHANGED <<voice, attempt, image, answers, objPose, arm>>

\* Seeded fault: the place pose is not set before the gripper closes.
OpenBeforeGrasp ==
    /\ At("grasp")
    /\ grip' = 0
    /\ GoTo("reach")
    /\ UNCHANGED <<voice, attempt, plan, sight, operatePose>>

\* What was held is let go here.
OpenToGrasp ==
    /\ At("grasp")
    /\ grip' = 0 /\ operatePose' = objPose
    /\ GoTo("reach")
    /\ UNCHANGED <<voice, attempt, plan, sight>>

CloseGripper ==
    /\ At("reach")
    /\ grip' = objPose
    /\ GoTo("carry")
    /\ UNCHANGED <<voice, attempt, plan, sight, operatePose>>

HoldJoint ==
    /\ At("carry")
    /\ Done
    /\ UNCHANGED <<voice, attempt, sight, arm>>

(* A place: at the pose of the grasp, at the height asked for.             *)

Release ==
    /\ At("drop")
    /\ grip' = 0
    /\ GoTo("retreat")
    /\ UNCHANGED <<voice, attempt, plan, sight, operatePose>>

Retreat ==
    /\ At("retreat")
    /\ Done
    /\ UNCHANGED <<voice, attempt, sight, arm>>

\* Caught inside the pick or the place: the instruction ends where it is.
DeviceThrows ==
    /\ pc \in {"observe", "grasp", "reach", "carry", "drop", "retreat"}
    /\ EndInstruction
    /\ UNCHANGED <<voice, attempt, sight, arm>>

-----------------------------------------------------------------------------
Init ==
    /\ said = 0 /\ queue = <<>> /\ blank = {} /\ pending = 0 /\ begun = 0
    /\ pc = "spin" /\ attempt = 1 /\ plan = <<>>
    /\ image = 0 /\ answers = {} /\ inbox = {} /\ objPose = 0 /\ leaked = {}
    /\ operatePose = 0 /\ grip = 0

NodeStep ==
    \/ LatchInstruction \/ IgnoreBlank \/ SpinTimesOut
    \/ NothingPending \/ BeginInstruction
    \/ PlannerUnreachable \/ PlannerFails \/ PlannerAnswers
    \/ PlanDone \/ Navigate \/ UnknownOperation \/ Dies \/ BeginPick \/ BeginPlace
    \/ DeliverImage \/ Subscribe \/ PoseArrives \/ PoseRejected
    \/ LatePose \/ LatePoseThrows
    \/ OpenToGrasp \/ CloseGripper \/ HoldJoint \/ Release \/ Retreat
    \/ DeviceThrows

Next == NodeStep \/ Say \/ AnswerArrives

Spec == Init /\ [][Next]_vars

\* The thread goes on, and the vision host answers what it was sent.
FairSpec == Spec /\ WF_vars(NodeStep) /\ WF_vars(AnswerArrives)

-----------------------------------------------------------------------------
TypeOK ==
    /\ said \in 0 .. MaxSaid
    /\ queue \in Seq(1 .. said) /\ Len(queue) <= QueueDepth
    /\ blank \subseteq 1 .. said
    /\ pending \in 0 .. said /\ begun \in 0 .. said
    /\ pc \in Label /\ attempt \in 1 .. MaxAttempts
    /\ plan \in Seq(Operations)
    /\ image \in Nat /\ objPose \in 0 .. image
    /\ answers \subseteq 1 .. image /\ leaked \subseteq 1 .. image
    /\ inbox \subseteq (1 .. image) \X (1 .. image)
    /\ operatePose \in 0 .. image /\ grip \in 0 .. image

(***************************************************************************)
(* The latch holds one instruction and a later one replaces it, but the    *)
(* newest is never lost while the node is busy: it has been begun, is      *)
(* latched or waits in the subscription, unless as many empty messages as  *)
(* the subscription keeps were said after it.                              *)
(***************************************************************************)
Waiting == {queue[k] : k \in 1 .. Len(queue)}

LatestKept ==
    \A i \in (1 .. said) \ blank :
        said - i < QueueDepth /\ (i + 1) .. said \subseteq blank
            => i = begun \/ i = pending \/ i \in Waiting

(***************************************************************************)
(* No instruction is carried out twice or after a later one: what is       *)
(* latched or waits is newer than what was begun, and what waits newer     *)
(* than what is latched.                                                   *)
(***************************************************************************)
OnceInOrder ==
    /\ pending # 0 => begun < pending
    /\ \A i \in Waiting : begun < i /\ pending < i

(***************************************************************************)
(* The arm reaches for what the last image shows, as long as no callback   *)
(* of a pose threw.  Once one did, a pick may take the pose of an earlier  *)
(* image and leave its own to the next one; but what was seen before the   *)
(* first pick that ended so is never grasped again.                        *)
(***************************************************************************)
OldPoseOnlyAfterLeak ==
    pc \in {"grasp", "reach"} =>
        objPose = image \/ \E s \in leaked : s <= objPose

(***************************************************************************)
(* What is in the gripper is put down above the place it was taken from,   *)
(* through any failures and instructions in between: place_at_fixed_height *)
(* uses the pose of the grasp that closed the gripper.                     *)
(***************************************************************************)
PlacesWhereGrasped == grip # 0 => operatePose = grip

(***************************************************************************)
(* The last instruction said is begun, unless it is blank, the node ended  *)
(* by what nothing catches, or a pick waits when all answers have come and *)
(* been taken: its own came before it subscribed.                          *)
(***************************************************************************)
LatestBegun ==
    said = MaxSaid ~>
        \/ begun = MaxSaid \/ MaxSaid \in blank
        \/ At("died") \/ (At("wait") /\ answers = {} /\ inbox = {})
=============================================================================
