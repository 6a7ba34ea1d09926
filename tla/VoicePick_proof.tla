-------------------------- MODULE VoicePick_proof ---------------------------
(***************************************************************************)
(* Proofs about VoicePick for every depth of the subscription, every       *)
(* number of messages and every set of plans.                              *)
(***************************************************************************)
EXTENDS VoicePick, TLAPS

\* The messages that left the subscription: latched, blank or pushed out.
Gone == said - Len(queue)

\* What waits is the end of what was said.
QueueInOrder ==
    /\ Len(queue) <= said
    /\ \A k \in 1 .. Len(queue) : queue[k] = Gone + k

LatchInOrder ==
    /\ begun <= Gone /\ pending <= Gone
    /\ pending # 0 => begun < pending
    /\ blank \subseteq 1 .. Gone
    /\ begun \notin blank /\ pending \notin blank

\* LatestKept of the messages that left, in a form every step keeps.
Superseded(i) == \E j \in (i + 1) .. Gone : j \notin blank

GoneKept ==
    \A i \in (1 .. Gone) \ blank :
        i = begun \/ i = pending \/ Superseded(i) \/ said - i >= QueueDepth

ArmInv ==
    /\ pc = "reach" => operatePose = objPose
    /\ PlacesWhereGrasped

\* A pick not after this image was ended by a callback that threw.
Orphaned(i) == \E s \in leaked : s <= i

\* Whatever pose is on the way, waits or is used answers the last image, which
\* nobody has got then, or one that such a pick left behind.
PoseInv ==
    /\ \A i \in answers : Orphaned(i) \/ (i = image /\ pc \in {"subscribe", "wait"})
    /\ \A m \in inbox :
          /\ m[1] \in leaked \/ (m[1] = image /\ pc = "wait")
          /\ Orphaned(m[2]) \/ (m[2] = image /\ pc = "wait" /\ image \notin answers)
    /\ pc \in {"grasp", "reach"} => objPose = image \/ Orphaned(objPose)

VoiceInv == QueueInOrder /\ LatchInOrder /\ GoneKept

\* A pick and a place run for the first action of the plan.
OnPlan ==
    pc \in {"observe", "subscribe", "wait", "grasp", "reach", "carry", "drop", "retreat"}
        => plan # <<>>

IInv == TypeOK /\ VoiceInv /\ ArmInv /\ PoseInv /\ OnPlan

-----------------------------------------------------------------------------
\* What a step may do to the instructions: nothing, or one of four things.
Quiet == UNCHANGED <<said, queue, blank, pending, begun>>

\* A callback takes the first message of the subscription.
Taken == queue # <<>> /\ queue' = Tail(queue)

VoiceStep ==
    \/ Quiet
    \/ Say
    \/ Taken /\ pending' = Head(queue) /\ UNCHANGED <<said, blank, begun>>
    \/ Taken /\ blank' = blank \union {Head(queue)} /\ UNCHANGED <<said, pending, begun>>
    \/ pending # 0 /\ begun' = pending /\ pending' = 0 /\ UNCHANGED <<said, queue, blank>>

\* Every step does one of these.
LEMMA VoiceSteps == [Next]_vars => VoiceStep
<1> SUFFICES ASSUME [Next]_vars PROVE VoiceStep
  OBVIOUS
<1> USE DEF VoiceStep, voice
<1>1. CASE UNCHANGED vars
  BY <1>1 DEF Quiet, vars
<1>2. CASE Say
  BY <1>2
<1>3. CASE AnswerArrives
  BY <1>3 DEF Quiet, AnswerArrives
<1>4. CASE LatchInstruction
  BY <1>4 DEF Taken, LatchInstruction
<1>5. CASE IgnoreBlank
  BY <1>5 DEF Taken, IgnoreBlank
<1>6. CASE BeginInstruction
  BY <1>6 DEF BeginInstruction
<1>7. CASE SpinTimesOut \/ NothingPending \/ PlannerUnreachable \/ PlannerFails
            \/ PlannerAnswers \/ PlanDone \/ Navigate \/ UnknownOperation
            \/ Dies \/ BeginPick \/ BeginPlace
  BY <1>7 DEF Quiet, SpinTimesOut, NothingPending, PlannerUnreachable, PlannerFails,
     PlannerAnswers, PlanDone, Navigate, UnknownOperation, Dies, BeginPick, BeginPlace
<1>8. CASE DeliverImage \/ Subscribe \/ PoseArrives \/ PoseRejected \/ LatePose
            \/ LatePoseThrows \/ OpenToGrasp \/ CloseGripper \/ HoldJoint
            \/ Release \/ Retreat \/ DeviceThrows
  BY <1>8 DEF Quiet, DeliverImage, Subscribe, PoseArrives, PoseRejected, LatePose,
     LatePoseThrows, OpenToGrasp, CloseGripper, HoldJoint, Release, Retreat, DeviceThrows
<1>9. QED
  BY <1>1, <1>2, <1>3, <1>4, <1>5, <1>6, <1>7, <1>8 DEF Next, NodeStep

\* What the head and the tail of the subscription are.
LEMMA QueueTail ==
    ASSUME TypeOK, QueueInOrder, queue # <<>>
    PROVE  /\ Head(queue) = Gone + 1
           /\ Tail(queue) \in Seq(1 .. said)
           /\ Len(Tail(queue)) = Len(queue) - 1
           /\ \A k \in 1 .. Len(Tail(queue)) : Tail(queue)[k] = Gone + 1 + k
<1>1. /\ queue \in Seq(1 .. said) /\ said \in Nat
      /\ Len(queue) \in Nat \ {0} /\ Gone \in Int
  BY DEF TypeOK, Gone
<1>2. Head(queue) = queue[1] /\ queue[1] = Gone + 1
  BY <1>1 DEF QueueInOrder
<1>3. Tail(queue) \in Seq(1 .. said) /\ Len(Tail(queue)) = Len(queue) - 1
  BY <1>1
<1>4. ASSUME NEW k \in 1 .. Len(Tail(queue))
      PROVE  Tail(queue)[k] = Gone + 1 + k
  <2>1. Tail(queue)[k] = queue[k + 1] /\ k + 1 \in 1 .. Len(queue)
    BY <1>1, <1>3
  <2>2. queue[k + 1] = Gone + (k + 1)
    BY <2>1 DEF QueueInOrder
  <2>3. QED
    BY <1>1, <2>1, <2>2
<1>5. QED
  BY <1>2, <1>3, <1>4

\* The subscription after a message is said.
LEMMA QueueSay ==
    ASSUME TypeOK, QueueInOrder, Say
    PROVE  /\ said' = said + 1
           /\ queue' \in Seq(1 .. said') /\ Len(queue') <= QueueDepth
           /\ QueueInOrder'
           /\ \/ Len(queue) < QueueDepth /\ Gone' = Gone
              \/ Len(queue) = QueueDepth /\ Gone' = Gone + 1
<1> USE DepthAssumption
<1> DEFINE kept == IF Len(queue) = QueueDepth THEN Tail(queue) ELSE queue
<1>1. /\ queue \in Seq(1 .. said) /\ said \in Nat /\ Len(queue) \in Nat
      /\ Len(queue) <= QueueDepth /\ said' = said + 1
      /\ Gone = said - Len(queue) /\ Gone \in Nat
  BY DEF TypeOK, Say, Gone, QueueInOrder
<1>2. queue' = Append(kept, said + 1)
  BY DEF Say
<1>k. /\ Len(queue) = QueueDepth => kept = Tail(queue)
      /\ Len(queue) # QueueDepth => kept = queue
  OBVIOUS
<1> HIDE DEF kept
<1>3. /\ kept \in Seq(1 .. said) /\ Len(kept) \in Nat /\ Len(kept) < QueueDepth
      /\ Len(kept) <= said
      /\ \A k \in 1 .. Len(kept) : kept[k] = said - Len(kept) + k
      /\ \/ Len(queue) < QueueDepth /\ Len(kept) = Len(queue)
         \/ Len(queue) = QueueDepth /\ Len(kept) = Len(queue) - 1
  <2>1. CASE Len(queue) = QueueDepth
    <3>1. kept = Tail(queue) /\ queue # <<>>
      BY <1>1, <1>k, <2>1
    <3>2. QED
      BY <1>1, <2>1, <3>1, QueueTail
  <2>2. CASE Len(queue) # QueueDepth
    <3>1. kept = queue
      BY <1>k, <2>2
    <3>2. QED
      BY <1>1, <2>2, <3>1 DEF QueueInOrder, Gone
  <2>3. QED
    BY <2>1, <2>2
<1>4. kept \in Seq(1 .. said + 1)
  BY <1>1, <1>3
<1>5. /\ queue' \in Seq(1 .. said + 1) /\ Len(queue') = Len(kept) + 1
      /\ \A k \in 1 .. Len(kept) : queue'[k] = kept[k]
      /\ queue'[Len(kept) + 1] = said + 1
  BY <1>1, <1>2, <1>3, <1>4
<1>6. Gone' = said - Len(kept)
  BY <1>1, <1>3, <1>5 DEF Gone
<1>7. QueueInOrder'
  <2>1. Len(queue') <= said'
    BY <1>1, <1>3, <1>5
  <2>2. ASSUME NEW k \in 1 .. Len(queue')
        PROVE  queue'[k] = Gone' + k
    <3>1. CASE k \in 1 .. Len(kept)
      <4>1. queue'[k] = kept[k] /\ kept[k] = said - Len(kept) + k
        BY <1>3, <1>5, <3>1
      <4>2. QED
        BY <4>1, <1>6
    <3>2. CASE k = Len(kept) + 1
      <4>1. queue'[k] = said + 1
        BY <1>5, <3>2
      <4>2. QED
        BY <1>1, <1>3, <1>6, <3>2, <4>1
    <3>3. QED
      BY <1>3, <1>5, <3>1, <3>2
  <2>3. QED
    BY <2>1, <2>2 DEF QueueInOrder
<1>8. Len(queue') <= QueueDepth
  BY <1>3, <1>5
<1>9. \/ Len(queue) < QueueDepth /\ Gone' = Gone
      \/ Len(queue) = QueueDepth /\ Gone' = Gone + 1
  <2>1. CASE Len(kept) = Len(queue) /\ Len(queue) < QueueDepth
    BY <1>1, <1>6, <2>1
  <2>2. CASE Len(queue) = QueueDepth /\ Len(kept) = Len(queue) - 1
    <3>1. Gone' = said - (Len(queue) - 1)
      BY <1>6, <2>2
    <3>2. Gone' = Gone + 1
      BY <1>1, <3>1
    <3>3. QED
      BY <2>2, <3>2
  <2>3. QED
    BY <1>3, <2>1, <2>2
<1>10. queue' \in Seq(1 .. said')
  BY <1>1, <1>5
<1>11. QED
  BY <1>1, <1>7, <1>8, <1>9, <1>10

-----------------------------------------------------------------------------
LEMMA InitVoice == Init => VoiceInv
<1> SUFFICES ASSUME Init PROVE VoiceInv
  OBVIOUS
<1>0. Len(queue) = 0
  BY DEF Init
<1>1. said = 0 /\ Gone = 0 /\ blank = {} /\ pending = 0 /\ begun = 0
  <2>1. said = 0 /\ blank = {} /\ pending = 0 /\ begun = 0
    BY DEF Init
  <2>2. Gone = 0
    BY <1>0, <2>1 DEF Gone
  <2>3. QED
    BY <2>1, <2>2
<1>2. QueueInOrder
  BY <1>0, <1>1 DEF QueueInOrder
<1>3. LatchInOrder
  BY <1>1 DEF LatchInOrder
<1>4. 1 .. Gone = {}
  BY <1>1
<1>5. GoneKept
  BY <1>4 DEF GoneKept
<1>6. QED
  BY <1>2, <1>3, <1>5 DEF VoiceInv

\* A message said pushes out the oldest one when the subscription is full.
LEMMA SayVoice ==
    ASSUME TypeOK, VoiceInv, Say
    PROVE  VoiceInv'
<1> USE DepthAssumption
<1>1. /\ said' = said + 1 /\ QueueInOrder'
      /\ \/ Len(queue) < QueueDepth /\ Gone' = Gone
         \/ Len(queue) = QueueDepth /\ Gone' = Gone + 1
  BY QueueSay DEF VoiceInv
<1>2. /\ said \in Nat /\ Len(queue) \in Nat /\ Gone = said - Len(queue) /\ Gone \in Nat
      /\ begun \in Nat /\ pending \in Nat
  BY DEF TypeOK, VoiceInv, QueueInOrder, Gone
<1>3. UNCHANGED <<blank, pending, begun>>
  BY DEF Say
<1>4. Gone' \in Nat /\ Gone <= Gone'
  BY <1>1, <1>2
<1>5. LatchInOrder'
  BY <1>2, <1>3, <1>4 DEF VoiceInv, LatchInOrder
<1>6. ASSUME NEW i \in (1 .. Gone') \ blank'
      PROVE  \/ i = begun' \/ i = pending' \/ Superseded(i)'
             \/ said' - i >= QueueDepth
  <2>1. CASE i \in 1 .. Gone
    <3>1. i = begun \/ i = pending \/ Superseded(i) \/ said - i >= QueueDepth
      BY <1>3, <2>1, <1>6 DEF VoiceInv, GoneKept
    <3>2. Superseded(i) => Superseded(i)'
      BY <1>2, <1>3, <1>4 DEF Superseded
    <3>3. said - i >= QueueDepth => said' - i >= QueueDepth
      BY <1>1, <1>2
    <3>4. QED
      BY <1>3, <3>1, <3>2, <3>3
  <2>2. CASE i \notin 1 .. Gone
    <3>1. Len(queue) = QueueDepth /\ Gone' = Gone + 1 /\ i = Gone + 1
      BY <1>1, <1>2, <1>6, <2>2
    <3>2. said' - i = Len(queue)
      BY <1>1, <1>2, <3>1
    <3>3. QED
      BY <1>2, <3>1, <3>2
  <2>3. QED
    BY <2>1, <2>2
<1>7. GoneKept'
  BY <1>6 DEF GoneKept
<1>8. QED
  BY <1>1, <1>5, <1>7 DEF VoiceInv

\* A callback takes the oldest message that waits.
LEMMA TakenQueue ==
    ASSUME TypeOK, VoiceInv, Taken, said' = said
    PROVE  /\ Gone \in Nat /\ Gone' = Gone + 1 /\ Head(queue) = Gone + 1
           /\ Gone + 1 \in 1 .. said
           /\ queue' \in Seq(1 .. said') /\ Len(queue') <= QueueDepth
           /\ QueueInOrder'
<1> USE DepthAssumption
<1>1. /\ said \in Nat /\ Len(queue) \in Nat \ {0} /\ Gone = said - Len(queue)
      /\ Len(queue) <= said /\ Len(queue) <= QueueDepth
  BY DEF TypeOK, VoiceInv, QueueInOrder, Gone, Taken
<1>2. /\ Head(queue) = Gone + 1
      /\ Tail(queue) \in Seq(1 .. said)
      /\ Len(Tail(queue)) = Len(queue) - 1
      /\ \A k \in 1 .. Len(Tail(queue)) : Tail(queue)[k] = Gone + 1 + k
  BY QueueTail DEF VoiceInv, Taken
<1>3. queue' = Tail(queue)
  BY DEF Taken
<1>4. Gone' = Gone + 1 /\ Gone \in Nat
  BY <1>1, <1>2, <1>3 DEF Gone
<1>5. QueueInOrder'
  BY <1>1, <1>2, <1>3, <1>4 DEF QueueInOrder
<1>6. QED
  BY <1>1, <1>2, <1>3, <1>4, <1>5

\* The last one latched is the latch, what came before it is superseded.
LEMMA LatchVoice ==
    ASSUME TypeOK, VoiceInv, Taken, pending' = Head(queue), UNCHANGED <<said, blank, begun>>
    PROVE  VoiceInv'
<1>1. /\ Gone \in Nat /\ Gone' = Gone + 1 /\ pending' = Gone + 1
      /\ Gone + 1 \in 1 .. said /\ QueueInOrder'
  BY TakenQueue
<1>2. /\ begun \in Nat /\ begun <= Gone /\ blank \subseteq 1 .. Gone /\ begun \notin blank
  BY DEF TypeOK, VoiceInv, LatchInOrder
<1>3. LatchInOrder'
  BY <1>1, <1>2 DEF LatchInOrder
<1>4. ASSUME NEW i \in (1 .. Gone') \ blank', i # pending'
      PROVE  Superseded(i)'
  <2>1. Gone + 1 \in (i + 1) .. Gone' /\ Gone + 1 \notin blank'
    BY <1>1, <1>2, <1>4
  <2>2. QED
    BY <2>1 DEF Superseded
<1>5. GoneKept'
  BY <1>4 DEF GoneKept
<1>6. QED
  BY <1>1, <1>3, <1>5 DEF VoiceInv

\* A blank message changes nothing but itself.
LEMMA BlankVoice ==
    ASSUME TypeOK, VoiceInv, Taken, blank' = blank \union {Head(queue)},
           UNCHANGED <<said, pending, begun>>
    PROVE  VoiceInv'
<1>1. /\ Gone \in Nat /\ Gone' = Gone + 1 /\ blank' = blank \union {Gone + 1}
      /\ Gone + 1 \in 1 .. said /\ QueueInOrder'
  BY TakenQueue
<1>2. /\ begun \in Nat /\ begun <= Gone /\ pending \in Nat /\ pending <= Gone
      /\ blank \subseteq 1 .. Gone /\ begun \notin blank /\ pending \notin blank
      /\ pending # 0 => begun < pending
  BY DEF TypeOK, VoiceInv, LatchInOrder
<1>3. LatchInOrder'
  <2>1. blank' \subseteq 1 .. Gone' /\ begun \notin blank' /\ pending \notin blank'
    <3>1. blank \subseteq 1 .. Gone' /\ Gone + 1 \in 1 .. Gone'
      BY <1>1, <1>2
    <3>2. begun # Gone + 1 /\ pending # Gone + 1
      BY <1>1, <1>2
    <3>3. blank' = blank \union {Gone + 1}
      BY <1>1
    <3>4. QED
      BY <1>2, <3>1, <3>2, <3>3
  <2>2. begun <= Gone' /\ pending <= Gone'
    BY <1>1, <1>2
  <2>3. QED
    BY <1>2, <2>1, <2>2 DEF LatchInOrder
<1>4. ASSUME NEW i \in (1 .. Gone') \ blank'
      PROVE  \/ i = begun' \/ i = pending' \/ Superseded(i)'
             \/ said' - i >= QueueDepth
  <2>1. i \in (1 .. Gone) \ blank
    BY <1>1, <1>4
  <2>2. i = begun \/ i = pending \/ Superseded(i) \/ said - i >= QueueDepth
    BY <2>1 DEF VoiceInv, GoneKept
  <2>3. ASSUME Superseded(i) PROVE Superseded(i)'
    <3>1. PICK j \in (i + 1) .. Gone : j \notin blank
      BY <2>3 DEF Superseded
    <3>2. j \in (i + 1) .. Gone' /\ j \notin blank'
      BY <1>1, <2>1, <3>1
    <3>3. QED
      BY <3>2 DEF Superseded
  <2>4. QED
    BY <2>2, <2>3
<1>5. GoneKept'
  BY <1>4 DEF GoneKept
<1>6. QED
  BY <1>1, <1>3, <1>5 DEF VoiceInv

\* The instruction begun before is superseded by the one begun now.
LEMMA BeginVoice ==
    ASSUME TypeOK, VoiceInv, pending # 0, begun' = pending, pending' = 0,
           UNCHANGED <<said, queue, blank>>
    PROVE  VoiceInv'
<1>1. Gone' = Gone /\ Gone \in Int
  BY DEF Gone, TypeOK
<1>2. /\ begun \in Nat /\ begun < pending /\ pending \in Nat /\ pending <= Gone
      /\ blank \subseteq 1 .. Gone /\ pending \notin blank
  BY DEF TypeOK, VoiceInv, LatchInOrder
<1>3. LatchInOrder'
  BY <1>1, <1>2 DEF LatchInOrder
<1>4. QueueInOrder'
  BY <1>1 DEF VoiceInv, QueueInOrder
<1>5. ASSUME NEW i \in (1 .. Gone') \ blank'
      PROVE  \/ i = begun' \/ i = pending' \/ Superseded(i)'
             \/ said' - i >= QueueDepth
  <2>1. i = begun \/ i = pending \/ Superseded(i) \/ said - i >= QueueDepth
    BY <1>1, <1>5 DEF VoiceInv, GoneKept
  <2>2. CASE i = begun
    <3>1. pending \in (i + 1) .. Gone' /\ pending \notin blank'
      BY <1>1, <1>2, <2>2
    <3>2. QED
      BY <3>1 DEF Superseded
  <2>3. Superseded(i) => Superseded(i)'
    BY <1>1 DEF Superseded
  <2>4. QED
    BY <2>1, <2>2, <2>3
<1>6. GoneKept'
  BY <1>5 DEF GoneKept
<1>7. QED
  BY <1>3, <1>4, <1>6 DEF VoiceInv

LEMMA NextVoice ==
    ASSUME TypeOK, VoiceInv, [Next]_vars
    PROVE  VoiceInv'
<1>1. CASE Quiet
  BY <1>1 DEF Quiet, VoiceInv, QueueInOrder, LatchInOrder, GoneKept, Superseded, Gone
<1>2. QED
  BY <1>1, VoiceSteps, SayVoice, LatchVoice, BlankVoice, BeginVoice DEF VoiceStep

-----------------------------------------------------------------------------
LEMMA InitTypes == Init => TypeOK /\ ArmInv /\ PoseInv /\ OnPlan
<1> SUFFICES ASSUME Init PROVE TypeOK /\ ArmInv /\ PoseInv /\ OnPlan
  OBVIOUS
<1> USE SaidAssumption, DepthAssumption
<1>1. queue = <<>> /\ plan = <<>> /\ said = 0
  BY DEF Init
<1>2. queue \in Seq(1 .. said) /\ Len(queue) <= QueueDepth /\ plan \in Seq(Operations)
  BY <1>1
<1>3. /\ said \in 0 .. MaxSaid /\ blank \subseteq 1 .. said
      /\ pending \in 0 .. said /\ begun \in 0 .. said
      /\ pc \in Label /\ attempt \in 1 .. MaxAttempts
  BY <1>1 DEF Init, Label, MaxAttempts
<1>4. /\ image \in Nat /\ objPose \in 0 .. image
      /\ operatePose \in 0 .. image /\ grip \in 0 .. image
  BY DEF Init
<1>5. answers = {} /\ inbox = {} /\ leaked = {}
  BY DEF Init
<1>6. ArmInv /\ PoseInv /\ OnPlan
  BY <1>5 DEF Init, OnPlan, ArmInv, PoseInv, PlacesWhereGrasped
<1>7. QED
  BY <1>2, <1>3, <1>4, <1>5, <1>6 DEF TypeOK

VoiceTypes ==
    /\ said \in 0 .. MaxSaid
    /\ queue \in Seq(1 .. said) /\ Len(queue) <= QueueDepth
    /\ blank \subseteq 1 .. said
    /\ pending \in 0 .. said /\ begun \in 0 .. said

LEMMA NextVoiceTypes ==
    ASSUME TypeOK, VoiceInv, [Next]_vars
    PROVE  VoiceTypes'
<1>1. CASE Quiet
  BY <1>1 DEF Quiet, TypeOK, VoiceTypes
<1>2. CASE Say
  <2>1. said' = said + 1 /\ queue' \in Seq(1 .. said') /\ Len(queue') <= QueueDepth
    BY <1>2, QueueSay DEF VoiceInv
  <2>2. said < MaxSaid /\ UNCHANGED <<blank, pending, begun>>
    BY <1>2 DEF Say
  <2>3. QED
    BY <2>1, <2>2, SaidAssumption DEF TypeOK, VoiceTypes
<1>3. ASSUME Taken, said' = said, UNCHANGED begun,
             \/ pending' = Head(queue) /\ UNCHANGED blank
             \/ blank' = blank \union {Head(queue)} /\ UNCHANGED pending
      PROVE  VoiceTypes'
  <2>1. Head(queue) \in 1 .. said /\ queue' \in Seq(1 .. said') /\ Len(queue') <= QueueDepth
    BY <1>3, TakenQueue
  <2>2. said' \in 0 .. MaxSaid /\ begun' \in 0 .. said'
    BY <1>3 DEF TypeOK
  <2>3. pending' \in 0 .. said' /\ blank' \subseteq 1 .. said'
    <3>1. said' = said /\ pending \in 0 .. said /\ blank \subseteq 1 .. said
      BY <1>3 DEF TypeOK
    <3>2. CASE pending' = Head(queue) /\ UNCHANGED blank
      BY <2>1, <3>1, <3>2
    <3>3. CASE blank' = blank \union {Head(queue)} /\ UNCHANGED pending
      BY <2>1, <3>1, <3>3
    <3>4. QED
      BY <1>3, <3>2, <3>3
  <2>4. QED
    BY <2>1, <2>2, <2>3 DEF VoiceTypes
<1>4. ASSUME begun' = pending, pending' = 0, UNCHANGED <<said, queue, blank>>
      PROVE  VoiceTypes'
  BY <1>4 DEF TypeOK, VoiceTypes
<1>5. QED
  BY <1>1, <1>2, <1>3, <1>4, VoiceSteps DEF VoiceStep

\* The thread, then the arm.
ThreadTypes ==
    pc \in Label /\ attempt \in 1 .. MaxAttempts /\ plan \in Seq(Operations)

ArmTypes ==
    /\ image \in Nat /\ objPose \in 0 .. image
    /\ answers \subseteq 1 .. image /\ leaked \subseteq 1 .. image
    /\ inbox \subseteq (1 .. image) \X (1 .. image)
    /\ operatePose \in 0 .. image /\ grip \in 0 .. image

\* Every step keeps the rest of the plan, forgets it or gets a new one.
LEMMA NextThread ==
    ASSUME ThreadTypes, OnPlan, [Next]_vars
    PROVE  ThreadTypes' /\ OnPlan'
<1> USE DEF ThreadTypes, OnPlan, Label, MaxAttempts, At, GoTo
<1>1. CASE UNCHANGED vars
  BY <1>1 DEF vars
<1>2. CASE Say \/ BeginInstruction \/ NothingPending \/ SpinTimesOut
  BY <1>2 DEF Say, BeginInstruction, SpinTimesOut, NothingPending
<1>3. CASE LatchInstruction \/ IgnoreBlank \/ LatePose
  BY <1>3 DEF LatchInstruction, IgnoreBlank, LatePose, AfterCallback, Spinning
<1>4. CASE PlannerUnreachable
  BY <1>4 DEF PlannerUnreachable
<1>5. CASE PlannerAnswers
  BY <1>5, PlansAssumption DEF PlannerAnswers
<1>6. ASSUME EndInstruction, UNCHANGED attempt
      PROVE  ThreadTypes' /\ OnPlan'
  <2>1. plan' \in Seq(Operations)
    BY <1>6 DEF EndInstruction
  <2>2. QED
    BY <1>6, <2>1 DEF EndInstruction
<1>7. CASE PlannerFails \/ PlanDone \/ UnknownOperation \/ DeviceThrows \/ PoseRejected
  BY <1>6, <1>7 DEF PlannerFails, PlanDone, UnknownOperation, DeviceThrows, PoseRejected,
     WaitFails
<1>8. CASE LatePoseThrows
  <2>1. CASE EndInstruction
    BY <1>6, <1>8, <2>1 DEF LatePoseThrows
  <2>2. CASE ~EndInstruction
    BY <1>8, <2>2 DEF LatePoseThrows, WaitFails
  <2>3. QED
    BY <2>1, <2>2
<1>9. ASSUME Done, plan # <<>>, UNCHANGED attempt
      PROVE  ThreadTypes' /\ OnPlan'
  <2>1. plan' \in Seq(Operations)
    BY <1>9 DEF Done
  <2>2. QED
    BY <1>9, <2>1 DEF Done
<1>10. CASE Navigate \/ HoldJoint \/ Retreat \/ (BeginPlace /\ operatePose = 0)
  <2>1. Done /\ plan # <<>> /\ UNCHANGED attempt
    BY <1>10 DEF Navigate, HoldJoint, Retreat, BeginPlace, Upcoming
  <2>2. QED
    BY <1>9, <2>1
<1>11. CASE Dies \/ BeginPick \/ (BeginPlace /\ operatePose # 0)
  BY <1>11 DEF Dies, BeginPick, BeginPlace, Upcoming
<1>12. CASE DeliverImage \/ AnswerArrives \/ Subscribe \/ PoseArrives
  BY <1>12 DEF DeliverImage, AnswerArrives, Subscribe, PoseArrives
<1>13. CASE OpenToGrasp \/ CloseGripper \/ Release
  BY <1>13 DEF OpenToGrasp, CloseGripper, Release
<1>14. QED
  BY <1>1, <1>2, <1>3, <1>4, <1>5, <1>7, <1>8, <1>10, <1>11, <1>12, <1>13
     DEF Next, NodeStep

\* Most steps leave the images, the poses and the arm alone.
Aside ==
    /\ UNCHANGED <<sight, arm>>
    /\ pc \notin {"subscribe", "wait"}
    /\ pc' \notin {"subscribe", "wait", "grasp", "reach"}

Standing == UNCHANGED <<sight, arm, pc>>

LEMMA AsideSteps ==
    ASSUME [Next]_vars
    PROVE  \/ Aside \/ Standing
           \/ DeliverImage \/ Subscribe \/ AnswerArrives \/ PoseArrives \/ PoseRejected
           \/ LatePose \/ LatePoseThrows \/ OpenToGrasp \/ CloseGripper \/ Release
<1> USE DEF Aside, Standing, At, GoTo
<1>1. CASE UNCHANGED vars \/ Say \/ PlannerUnreachable
  BY <1>1 DEF vars, Say, PlannerUnreachable
<1>2. CASE LatchInstruction \/ IgnoreBlank
  BY <1>2 DEF LatchInstruction, IgnoreBlank, AfterCallback, Spinning
<1>3. CASE SpinTimesOut \/ NothingPending \/ BeginInstruction \/ PlannerAnswers
  BY <1>3 DEF SpinTimesOut, NothingPending, BeginInstruction, PlannerAnswers
<1>4. CASE PlannerFails \/ PlanDone \/ UnknownOperation \/ DeviceThrows
  BY <1>4 DEF PlannerFails, PlanDone, UnknownOperation, DeviceThrows, EndInstruction, Upcoming
<1>5. CASE Navigate \/ HoldJoint \/ Retreat \/ BeginPlace
  BY <1>5 DEF Navigate, HoldJoint, Retreat, BeginPlace, Done, Upcoming
<1>6. CASE Dies \/ BeginPick
  BY <1>6 DEF Dies, BeginPick, Upcoming
<1>7. QED
  BY <1>1, <1>2, <1>3, <1>4, <1>5, <1>6 DEF Next, NodeStep

LEMMA NextTypes ==
    ASSUME ArmTypes, [Next]_vars
    PROVE  ArmTypes'
<1> USE DEF ArmTypes
<1>1. CASE Aside \/ Standing \/ Subscribe
  BY <1>1 DEF Aside, Standing, Subscribe, sight, arm
<1>2. CASE DeliverImage
  <2>1. image' = image + 1 /\ answers' = answers \union {image + 1}
        /\ UNCHANGED <<inbox, objPose, leaked, operatePose, grip>>
    BY <1>2 DEF DeliverImage, arm
  <2>2. 1 .. image \subseteq 1 .. image'
    BY <2>1
  <2>3. (1 .. image) \X (1 .. image) \subseteq (1 .. image') \X (1 .. image')
    BY <2>2
  <2>4. QED
    BY <2>1, <2>2, <2>3
<1>3. CASE AnswerArrives
  <2>1. PICK i \in answers : /\ answers' = answers \ {i}
                             /\ inbox' = inbox \union (Subscriptions \X {i})
    BY <1>3 DEF AnswerArrives
  <2>2. UNCHANGED <<image, objPose, leaked, operatePose, grip>>
    BY <1>3 DEF AnswerArrives, arm
  <2>3. CASE Subscriptions \subseteq 1 .. image
    BY <2>1, <2>2, <2>3
  <2>4. CASE ~(Subscriptions \subseteq 1 .. image)
    <3>1. image \in 1 .. image
      BY <2>1
    <3>2. QED
      BY <2>4, <3>1 DEF Subscriptions
  <2>5. QED
    BY <2>3, <2>4
<1>4. CASE PoseArrives
  BY <1>4 DEF PoseArrives, arm
<1>5. CASE PoseRejected
  BY <1>5 DEF PoseRejected, WaitFails, arm
<1>6. CASE LatePose
  BY <1>6 DEF LatePose, arm
<1>7. CASE LatePoseThrows
  <2>1. PICK m \in inbox : inbox' = inbox \ {m}
    BY <1>7 DEF LatePoseThrows
  <2>2. leaked' = leaked \/ leaked' = leaked \union {image}
    BY <1>7 DEF LatePoseThrows, WaitFails
  <2>3. image \in 1 .. image
    BY <2>1
  <2>4. QED
    BY <1>7, <2>1, <2>2, <2>3 DEF LatePoseThrows, arm
<1>8. CASE OpenToGrasp \/ CloseGripper \/ Release
  <2>1. UNCHANGED <<image, answers, inbox, objPose, leaked>>
    BY <1>8 DEF OpenToGrasp, CloseGripper, Release, sight
  <2>2. /\ grip' = 0 \/ grip' = objPose
        /\ operatePose' = operatePose \/ operatePose' = objPose
    BY <1>8 DEF OpenToGrasp, CloseGripper, Release
  <2>3. QED
    BY <2>1, <2>2
<1>9. QED
  BY <1>1, <1>2, <1>3, <1>4, <1>5, <1>6, <1>7, <1>8, AsideSteps

LEMMA NextArm ==
    ASSUME ArmInv, [Next]_vars
    PROVE  ArmInv'
<1> USE DEF ArmInv, PlacesWhereGrasped, At, GoTo
<1>1. CASE Aside \/ Standing \/ Subscribe
  BY <1>1 DEF Aside, Standing, Subscribe, sight, arm
<1>2. CASE DeliverImage \/ AnswerArrives \/ PoseArrives
  BY <1>2 DEF DeliverImage, AnswerArrives, PoseArrives, arm
<1>3. CASE PoseRejected \/ LatePose \/ LatePoseThrows
  BY <1>3 DEF PoseRejected, LatePose, LatePoseThrows, WaitFails, EndInstruction,
     AfterCallback, arm
<1>4. CASE OpenToGrasp \/ CloseGripper \/ Release
  BY <1>4 DEF OpenToGrasp, CloseGripper, Release, sight
<1>5. QED
  BY <1>1, <1>2, <1>3, <1>4, AsideSteps

\* A pick that was ended leaves its own image behind.
LEMMA WaitFailsOrphans ==
    ASSUME ArmTypes, PoseInv, At("wait"), NEW m \in inbox,
           inbox' = inbox \ {m}, WaitFails, UNCHANGED <<image, answers>>
    PROVE  PoseInv'
<1>1. leaked' = leaked \union {image} /\ pc' = "spin" /\ pc = "wait" /\ image \in Nat
  BY DEF WaitFails, EndInstruction, GoTo, At, ArmTypes
<1>2. \A i : Orphaned(i) \/ i = image => Orphaned(i)'
  BY <1>1 DEF Orphaned
<1>3. QED
  BY <1>1, <1>2 DEF PoseInv

LEMMA NextPose ==
    ASSUME ArmTypes, PoseInv, [Next]_vars
    PROVE  PoseInv'
<1>1. CASE Aside \/ Standing \/ CloseGripper \/ Release
  BY <1>1 DEF Aside, Standing, CloseGripper, Release, sight, arm, PoseInv, Orphaned, At, GoTo
<1>2. CASE Subscribe
  BY <1>2 DEF Subscribe, sight, PoseInv, Orphaned, At, GoTo
<1>3. CASE DeliverImage
  BY <1>3 DEF DeliverImage, PoseInv, Orphaned, At, GoTo
\* Without an orphan nobody but the pick that waits can hear its answer.
<1>4. CASE AnswerArrives
  <2>1. PICK i \in answers : /\ answers' = answers \ {i}
                             /\ inbox' = inbox \union (Subscriptions \X {i})
    BY <1>4 DEF AnswerArrives
  <2>2. UNCHANGED <<pc, image, leaked, objPose>>
    BY <1>4 DEF AnswerArrives
  <2>3. \A j : Orphaned(j)' <=> Orphaned(j)
    BY <2>2 DEF Orphaned
  <2>4. ASSUME NEW s \in Subscriptions
        PROVE  /\ s \in leaked \/ (s = image /\ pc = "wait")
               /\ Orphaned(i) \/ (i = image /\ pc = "wait" /\ image \notin answers')
    <3>1. s \in leaked \/ (s = image /\ pc = "wait")
      BY <2>4 DEF Subscriptions, At
    <3>2. CASE Orphaned(i) \/ pc = "wait"
      BY <2>1, <3>1, <3>2 DEF PoseInv
    <3>3. CASE ~Orphaned(i) /\ pc # "wait"
      <4>1. i = image /\ s \in leaked
        BY <3>1, <3>3 DEF PoseInv
      <4>2. s <= i
        BY <4>1 DEF ArmTypes
      <4>3. QED
        BY <4>1, <4>2 DEF Orphaned
    <3>4. QED
      BY <3>2, <3>3
  <2>5. ASSUME NEW m \in inbox'
        PROVE  /\ m[1] \in leaked \/ (m[1] = image /\ pc = "wait")
               /\ Orphaned(m[2]) \/ (m[2] = image /\ pc = "wait" /\ image \notin answers')
    <3>1. CASE m \in inbox
      BY <2>1, <3>1 DEF PoseInv
    <3>2. CASE m \in Subscriptions \X {i}
      BY <2>4, <3>2
    <3>3. QED
      BY <2>1, <2>5, <3>1, <3>2
  <2>6. QED
    BY <2>1, <2>2, <2>3, <2>5 DEF PoseInv
\* A pick that takes an older pose leaves its own to a later one.
<1>5. CASE PoseArrives
  <2>1. PICK m \in inbox : m[1] = image /\ objPose' = m[2]
    BY <1>5 DEF PoseArrives
  <2>2. /\ pc = "wait" /\ pc' = "grasp" /\ UNCHANGED <<image, answers, leaked>>
        /\ inbox' = {n \in inbox : n[1] # image}
    BY <1>5 DEF PoseArrives, At, GoTo
  <2>3. \A j : Orphaned(j)' <=> Orphaned(j)
    BY <2>2 DEF Orphaned
  <2>4. leaked # {} => Orphaned(image)
    <3>1. ASSUME NEW s \in leaked PROVE s <= image
      BY DEF ArmTypes
    <3>2. QED
      BY <3>1 DEF Orphaned
  <2>5. Orphaned(m[2]) \/ (m[2] = image /\ image \notin answers)
    BY <2>1 DEF PoseInv
  <2>6. Orphaned(m[2]) => Orphaned(image)
    BY <2>4 DEF Orphaned
  <2>7. \A i \in answers : Orphaned(i)
    BY <2>2, <2>5, <2>6 DEF PoseInv
  <2>8. \A n \in inbox' : n[1] \in leaked /\ Orphaned(n[2])
    BY <2>2, <2>4 DEF PoseInv
  <2>9. QED
    BY <2>1, <2>2, <2>3, <2>5, <2>7, <2>8 DEF PoseInv
<1>6. CASE PoseRejected
  BY <1>6, WaitFailsOrphans DEF PoseRejected
<1>7. CASE LatePose
  BY <1>7 DEF LatePose, Spinning, AfterCallback, PoseInv, Orphaned, At, GoTo
<1>8. CASE LatePoseThrows
  <2>1. PICK m \in inbox : inbox' = inbox \ {m}
    BY <1>8 DEF LatePoseThrows
  <2>2. CASE At("spin")
    BY <1>8, <2>1, <2>2 DEF LatePoseThrows, PoseInv, Orphaned, At, GoTo
  <2>3. CASE ~At("spin")
    BY <1>8, <2>1, <2>3, WaitFailsOrphans DEF LatePoseThrows, Spinning
  <2>4. QED
    BY <2>2, <2>3
<1>9. CASE OpenToGrasp
  BY <1>9 DEF OpenToGrasp, sight, PoseInv, Orphaned, At, GoTo
<1>10. QED
  BY <1>1, <1>2, <1>3, <1>4, <1>5, <1>6, <1>7, <1>8, <1>9, AsideSteps

LEMMA NextIInv == IInv /\ [Next]_vars => IInv'
<1> SUFFICES ASSUME IInv, [Next]_vars PROVE IInv'
  OBVIOUS
<1>1. VoiceInv' /\ VoiceTypes'
  BY NextVoice, NextVoiceTypes DEF IInv
<1>2. TypeOK <=> VoiceTypes /\ ThreadTypes /\ ArmTypes
  BY Zenon DEF TypeOK, VoiceTypes, ThreadTypes, ArmTypes
<1>3. (TypeOK <=> VoiceTypes /\ ThreadTypes /\ ArmTypes)'
  BY Zenon DEF TypeOK, VoiceTypes, ThreadTypes, ArmTypes
<1>4. ThreadTypes' /\ OnPlan' /\ ArmTypes' /\ ArmInv' /\ PoseInv'
  BY <1>2, NextThread, NextTypes, NextArm, NextPose DEF IInv
<1>5. QED
  BY <1>1, <1>3, <1>4 DEF IInv

\* Every behaviour keeps the invariant.
THEOREM Invariant == Spec => []IInv
<1>1. Init => IInv
  BY InitVoice, InitTypes DEF IInv
<1>2. QED
  BY <1>1, NextIInv, PTL DEF Spec

-----------------------------------------------------------------------------
\* The variables of the node keep their types (voice_text_callback, main).
THEOREM TypeCorrect == Spec => []TypeOK
<1>1. IInv => TypeOK
  BY DEF IInv
<1>2. QED
  BY <1>1, Invariant, PTL

LEMMA KeptFollows == TypeOK /\ VoiceInv => LatestKept
<1> SUFFICES ASSUME TypeOK, VoiceInv, NEW i \in (1 .. said) \ blank,
                    said - i < QueueDepth, (i + 1) .. said \subseteq blank
             PROVE  i = begun \/ i = pending \/ i \in Waiting
  BY DEF LatestKept
<1> USE DepthAssumption
<1>1. said \in Nat /\ Len(queue) \in Nat /\ Gone = said - Len(queue) /\ Gone \in Nat
  BY DEF TypeOK, VoiceInv, QueueInOrder, Gone
<1>2. CASE i \in 1 .. Gone
  <2>1. (i + 1) .. Gone \subseteq (i + 1) .. said
    BY <1>1
  <2>2. ~Superseded(i)
    BY <2>1 DEF Superseded
  <2>3. ~(said - i >= QueueDepth)
    BY <1>1
  <2>4. QED
    BY <1>2, <2>2, <2>3 DEF VoiceInv, GoneKept
<1>3. CASE i \notin 1 .. Gone
  <2>1. i - Gone \in 1 .. Len(queue) /\ Gone + (i - Gone) = i
    BY <1>1, <1>3
  <2>2. queue[i - Gone] = i
    BY <2>1 DEF VoiceInv, QueueInOrder
  <2>3. QED
    BY <2>1, <2>2 DEF Waiting
<1>4. QED
  BY <1>2, <1>3

\* The newest instruction is not lost while the node is busy.
THEOREM NewestKept == Spec => []LatestKept
<1>1. IInv => LatestKept
  BY KeptFollows DEF IInv
<1>2. QED
  BY <1>1, Invariant, PTL

LEMMA OrderFollows == TypeOK /\ VoiceInv => OnceInOrder
<1> SUFFICES ASSUME TypeOK, VoiceInv PROVE OnceInOrder
  OBVIOUS
<1>1. /\ Gone \in Int /\ begun \in Nat /\ pending \in Nat
      /\ begun <= Gone /\ pending <= Gone
  BY DEF TypeOK, VoiceInv, LatchInOrder, Gone
<1>2. ASSUME NEW i \in Waiting PROVE begun < i /\ pending < i
  <2>1. PICK k \in 1 .. Len(queue) : i = Gone + k
    BY DEF Waiting, VoiceInv, QueueInOrder
  <2>2. QED
    BY <1>1, <2>1
<1>3. QED
  BY <1>2 DEF OnceInOrder, VoiceInv, LatchInOrder

\* No instruction is carried out twice or after a later one.
THEOREM InstructionsInOrder == Spec => []OnceInOrder
<1>1. IInv => OnceInOrder
  BY OrderFollows DEF IInv
<1>2. QED
  BY <1>1, Invariant, PTL

(***************************************************************************)
(* The arm reaches for what the last image shows, or a callback threw and  *)
(* ended a pick; what was seen before that is not grasped again            *)
(* (_perform_pick_sequence).                                               *)
(***************************************************************************)
THEOREM OldPosesAfterLeak == Spec => []OldPoseOnlyAfterLeak
<1>1. IInv => OldPoseOnlyAfterLeak
  BY DEF IInv, PoseInv, Orphaned, OldPoseOnlyAfterLeak
<1>2. QED
  BY <1>1, Invariant, PTL

\* What is held is put down where it was taken from (place_at_fixed_height).
THEOREM PlacesGrasped == Spec => []PlacesWhereGrasped
<1>1. IInv => PlacesWhereGrasped
  BY DEF IInv, ArmInv
<1>2. QED
  BY <1>1, Invariant, PTL

(***************************************************************************)
(* From one instruction begun to the next the numbers go up, and an empty  *)
(* message, which voice_text_callback drops, is never one of them.         *)
(***************************************************************************)
BegunForward == begun' # begun => begun < begun' /\ begun' \in (1 .. said) \ blank

THEOREM BegunInOrder == Spec => [][BegunForward]_vars
<1>1. IInv /\ [Next]_vars => [BegunForward]_vars
  <2> SUFFICES ASSUME IInv, [Next]_vars, begun' # begun
               PROVE  begun < begun' /\ begun' \in (1 .. said) \ blank
    BY DEF BegunForward
  <2>1. pending # 0 /\ begun' = pending
    BY VoiceSteps DEF VoiceStep, Quiet, Say
  <2>2. pending \in 0 .. said /\ said \in Nat /\ begun < pending /\ pending \notin blank
    BY <2>1 DEF IInv, TypeOK, VoiceInv, LatchInOrder
  <2>3. QED
    BY <2>1, <2>2
<1>2. QED
  BY <1>1, Invariant, PTL DEF Spec
=============================================================================
