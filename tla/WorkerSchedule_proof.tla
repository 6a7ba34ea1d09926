------------------------ MODULE WorkerSchedule_proof ------------------------
(***************************************************************************)
(* Proofs about WorkerSchedule, for any number of workers, intervals and   *)
(* times.                                                                  *)
(***************************************************************************)
EXTENDS WorkerSchedule, TLAPS

\* The longest that n workers take one after the other.
Rounds(n) == n * MaxPerform

Slack == MaxOf(Jitter, MaxPerform)

\* A worker that was checked has waited for those after it.
CheckedLate == \A w \in Worker : w < pos => -due[w] <= Rounds(pos - w)

CurrentLate == busy => due[pos] >= 0

\* One still to be checked has waited for those behind it in the last pass
\* or for a long sleep, and for those before it in this pass.
Begun == IF pos = 0 THEN 1 ELSE pos

UncheckedLate ==
    \A w \in Worker : w >= pos /\ ~(busy /\ w = pos) =>
        -due[w] <= Rounds(NumWorkers - w + Begun - 1) + Slack

\* The pass wakes up for every worker it has checked.
WakesFor == \A w \in Worker : w < pos => wake <= due[w]

IInv == TypeOK /\ CheckedLate /\ CurrentLate /\ UncheckedLate /\ WakesFor

USE WorkersAssumption, IntervalAssumption, TicksAssumption

-----------------------------------------------------------------------------
LEMMA RoundsFacts ==
    /\ \A n \in Int : Rounds(n) \in Int /\ Rounds(n + 1) = Rounds(n) + MaxPerform
    /\ \A n \in Nat : Rounds(n) >= 0
    /\ \A a, b \in Int : a <= b => Rounds(a) <= Rounds(b)
<1>1. ASSUME NEW n \in Int
      PROVE  Rounds(n) \in Int /\ Rounds(n + 1) = Rounds(n) + MaxPerform
  BY DEF Rounds
<1>2. ASSUME NEW n \in Nat
      PROVE  Rounds(n) >= 0
  BY DEF Rounds
<1>3. ASSUME NEW a \in Int, NEW b \in Int, a <= b
      PROVE  Rounds(a) <= Rounds(b)
  <2>1. b - a \in Nat /\ (b - a) * MaxPerform >= 0
    BY <1>3
  <2>2. b * MaxPerform = a * MaxPerform + (b - a) * MaxPerform
    BY <1>3
  <2>3. QED
    BY <2>1, <2>2, <1>3 DEF Rounds
<1>4. QED
  BY <1>1, <1>2, <1>3

LEMMA SlackFacts == Slack \in Nat /\ Jitter <= Slack /\ MaxPerform <= Slack
BY DEF Slack, MaxOf

\* At the start every worker is due, and none is late.
LEMMA FreshIInv ==
    ASSUME due = [w \in Worker |-> 0], pos = 0, busy = FALSE
    PROVE  CheckedLate /\ CurrentLate /\ UncheckedLate /\ WakesFor
<1>1. \A w \in Worker : due[w] = 0 /\ w >= 1 /\ w \in Int /\ NumWorkers - w \in Nat
  BY DEF Worker
<1>2. ASSUME NEW w \in Worker
      PROVE  -due[w] <= Rounds(NumWorkers - w + Begun - 1) + Slack
  <2>1. NumWorkers - w + Begun - 1 = NumWorkers - w
    BY <1>1 DEF Begun
  <2>2. Rounds(NumWorkers - w) >= 0
    BY <1>1, RoundsFacts
  <2>3. QED
    BY <1>1, <2>1, <2>2, SlackFacts, RoundsFacts
<1>3. UncheckedLate
  BY <1>2 DEF UncheckedLate
<1>4. CheckedLate /\ WakesFor
  BY <1>1 DEF CheckedLate, WakesFor
<1>5. QED
  BY <1>3, <1>4 DEF CurrentLate

LEMMA InitIInv == Init => IInv
<1> SUFFICES ASSUME Init PROVE IInv
  OBVIOUS
<1>1. due \in [Worker -> Int] /\ \A w \in Worker : due[w] <= Interval[w]
  BY DEF Init
<1>2. wake \in Int /\ wake <= Cap /\ pos \in 0 .. NumWorkers + 1 /\ losses \in 0 .. MaxLosses
  BY DEF Init
<1>3. busy \in BOOLEAN /\ ~busy
  BY Zenon DEF Init
<1>4. TypeOK
  BY <1>1, <1>2, <1>3 DEF TypeOK
<1>5. QED
  BY <1>4, FreshIInv DEF IInv, Init

-----------------------------------------------------------------------------
LEMMA BeginPassIInv == ASSUME IInv, BeginPass PROVE IInv'
<1>1. pos = 0 /\ pos' = 1 /\ wake' = Cap /\ due' = due /\ busy' = busy /\ losses' = losses
  BY DEF BeginPass
<1>2. ~busy
  BY <1>1 DEF IInv, TypeOK, Worker
<1>3. TypeOK'
  BY <1>1, <1>2 DEF IInv, TypeOK
<1>4. \A w \in Worker : w \in Int /\ w >= 1
  BY DEF Worker
<1>5. UncheckedLate'
  BY <1>1, <1>2, <1>4 DEF IInv, UncheckedLate, Begun
<1>6. CheckedLate' /\ CurrentLate' /\ WakesFor'
  BY <1>1, <1>2, <1>4 DEF CheckedLate, CurrentLate, WakesFor
<1>7. QED
  BY <1>3, <1>5, <1>6 DEF IInv

LEMMA CheckNotDueIInv == ASSUME IInv, CheckNotDue PROVE IInv'
<1>1. /\ pos \in Worker /\ due[pos] > 0 /\ pos' = pos + 1 /\ due' = due
      /\ busy' = busy /\ losses' = losses /\ wake' = MinOf(wake, due[pos])
  BY DEF CheckNotDue
<1>2. ~busy
  BY DEF CheckNotDue
<1>3. \A w \in Worker : w \in Int /\ w >= 1 /\ w <= NumWorkers /\ due[w] \in Int
  BY DEF Worker, IInv, TypeOK
<1>4. wake \in Int /\ wake <= Cap /\ wake' \in Int /\ wake' <= wake /\ wake' <= due[pos]
  BY <1>1, <1>3 DEF IInv, TypeOK, MinOf
<1>5. TypeOK'
  BY <1>1, <1>2, <1>3, <1>4 DEF IInv, TypeOK
<1>6. CheckedLate'
  <2>1. ASSUME NEW w \in Worker, w < pos'
        PROVE  -due'[w] <= Rounds(pos' - w)
    <3>0. /\ pos - w \in Int /\ pos' - w \in Nat /\ pos - w <= pos' - w
          /\ due'[w] = due[w] /\ due[w] \in Int
      BY <1>1, <1>3, <2>1
    <3>1. CASE w = pos
      <4>1. Rounds(pos' - w) >= 0 /\ Rounds(pos' - w) \in Int
        BY <3>0, RoundsFacts
      <4>2. due[w] > 0
        BY <1>1, <3>1
      <4>3. QED
        BY <3>0, <4>1, <4>2
    <3>2. CASE w < pos
      <4>1. -due[w] <= Rounds(pos - w)
        BY <3>2 DEF IInv, CheckedLate
      <4>2. Rounds(pos - w) <= Rounds(pos' - w)
        BY <3>0, RoundsFacts
      <4>3. Rounds(pos - w) \in Int /\ Rounds(pos' - w) \in Int
        BY <3>0, RoundsFacts
      <4>4. QED
        BY <3>0, <4>1, <4>2, <4>3
    <3>3. QED
      BY <1>1, <1>3, <2>1, <3>1, <3>2
  <2>2. QED
    BY <2>1 DEF CheckedLate
<1>7. UncheckedLate'
  <2>1. ASSUME NEW w \in Worker, w >= pos'
        PROVE  -due'[w] <= Rounds(NumWorkers - w + Begun' - 1) + Slack
    <3>1. -due[w] <= Rounds(NumWorkers - w + Begun - 1) + Slack
      BY <1>1, <1>2, <1>3, <2>1 DEF IInv, UncheckedLate
    <3>2. Begun = pos /\ Begun' = pos + 1
      BY <1>1, <1>3 DEF Begun
    <3>3. /\ NumWorkers - w + Begun - 1 \in Int /\ NumWorkers - w + Begun' - 1 \in Int
          /\ NumWorkers - w + Begun - 1 <= NumWorkers - w + Begun' - 1
      BY <1>1, <1>3, <3>2
    <3>4. /\ Rounds(NumWorkers - w + Begun - 1) <= Rounds(NumWorkers - w + Begun' - 1)
          /\ Rounds(NumWorkers - w + Begun - 1) \in Int
          /\ Rounds(NumWorkers - w + Begun' - 1) \in Int
      BY <3>3, RoundsFacts
    <3>5. due'[w] = due[w] /\ due[w] \in Int
      BY <1>1, <1>3
    <3>6. QED
      BY <3>1, <3>4, <3>5, SlackFacts
  <2>2. QED
    BY <2>1 DEF UncheckedLate
<1>8. WakesFor'
  <2>1. ASSUME NEW w \in Worker, w < pos' PROVE wake' <= due'[w]
    <3>1. w = pos \/ w < pos
      BY <1>1, <1>3, <2>1
    <3>2. QED
      BY <1>1, <1>3, <1>4, <3>1 DEF IInv, WakesFor
  <2>2. QED
    BY <2>1 DEF WakesFor
<1>9. QED
  BY <1>2, <1>5, <1>6, <1>7, <1>8, <1>1 DEF IInv, CurrentLate

LEMMA StartIInv == ASSUME IInv, StartPerform PROVE IInv'
<1>1. /\ pos \in Worker /\ due' = [due EXCEPT ![pos] = Interval[pos]]
      /\ pos' = pos /\ wake' = wake /\ losses' = losses
  BY DEF StartPerform
<1>2. busy' /\ ~busy /\ busy' \in BOOLEAN
  BY Zenon DEF StartPerform
<1>3. \A w \in Worker : w \in Int /\ w >= 1 /\ w <= NumWorkers /\ due[w] \in Int
                        /\ Interval[w] \in Nat
  BY DEF Worker, IInv, TypeOK
<1>4. due' \in [Worker -> Int] /\ due'[pos] = Interval[pos]
      /\ \A w \in Worker : w # pos => due'[w] = due[w]
  BY <1>1, <1>3 DEF IInv, TypeOK
<1>5. TypeOK'
  <2>1. \A w \in Worker : due'[w] <= Interval[w]
    BY <1>3, <1>4 DEF IInv, TypeOK
  <2>2. QED
    BY <1>1, <1>2, <1>4, <2>1 DEF IInv, TypeOK
<1>6. CheckedLate' /\ WakesFor'
  BY <1>1, <1>3, <1>4 DEF IInv, CheckedLate, WakesFor
<1>7. CurrentLate'
  BY <1>1, <1>3, <1>4 DEF CurrentLate
<1>8. Begun' = Begun
  BY <1>1 DEF Begun
<1>9. UncheckedLate'
  BY <1>1, <1>2, <1>4, <1>8 DEF IInv, UncheckedLate
<1>10. QED
  BY <1>5, <1>6, <1>7, <1>9 DEF IInv

LEMMA FinishIInv == ASSUME IInv, FinishPerform PROVE IInv'
<1>1. PICK d \in 0 .. MaxPerform :
        due' = Elapsed(d) /\ wake' = MinOf(wake - d, due[pos] - d)
  BY DEF FinishPerform
<1>2. busy /\ ~busy' /\ busy' \in BOOLEAN
  BY Zenon DEF FinishPerform
<1>3. pos' = pos + 1 /\ losses' = losses /\ pos \in Worker /\ due[pos] >= 0
  BY <1>2 DEF FinishPerform, IInv, TypeOK, CurrentLate
<1>4. \A w \in Worker : w \in Int /\ w >= 1 /\ w <= NumWorkers /\ due[w] \in Int
                        /\ due[w] <= Interval[w] /\ Interval[w] \in Nat
  BY DEF Worker, IInv, TypeOK
<1>5. due' \in [Worker -> Int] /\ \A w \in Worker : due'[w] = due[w] - d
  BY <1>1, <1>4 DEF Elapsed
<1>6. /\ d \in Int /\ 0 <= d /\ d <= MaxPerform
      /\ wake \in Int /\ wake <= Cap /\ wake' \in Int /\ wake' <= wake - d
      /\ wake' <= due[pos] - d
  BY <1>1, <1>3, <1>4 DEF IInv, TypeOK, MinOf
<1>7. TypeOK'
  <2>1. \A w \in Worker : due'[w] <= Interval[w]
    BY <1>4, <1>5, <1>6
  <2>2. pos' \in 0 .. NumWorkers + 1 /\ wake' <= Cap
    BY <1>3, <1>4, <1>6
  <2>3. losses' \in 0 .. MaxLosses
    BY <1>3 DEF IInv, TypeOK
  <2>4. QED
    BY <1>2, <1>5, <1>6, <2>1, <2>2, <2>3 DEF TypeOK
<1>8. CheckedLate'
  <2>1. ASSUME NEW w \in Worker, w < pos'
        PROVE  -due'[w] <= Rounds(pos' - w)
    <3>1. pos' - w \in Nat /\ Rounds(pos' - w) = Rounds(pos - w) + MaxPerform
          /\ Rounds(pos - w) \in Int
      <4>1. pos - w \in Int /\ pos' - w = (pos - w) + 1 /\ pos' - w \in Nat
        BY <1>3, <1>4, <2>1
      <4>2. Rounds((pos - w) + 1) = Rounds(pos - w) + MaxPerform /\ Rounds(pos - w) \in Int
        BY <4>1, RoundsFacts
      <4>3. QED
        BY <4>1, <4>2
    <3>2. CASE w = pos
      <4>1. Rounds(pos - w) >= 0
        BY <1>3, <1>4, <3>2, RoundsFacts
      <4>2. QED
        BY <1>3, <1>4, <1>5, <1>6, <3>1, <3>2, <4>1
    <3>3. CASE w < pos
      <4>1. -due[w] <= Rounds(pos - w)
        BY <3>3 DEF IInv, CheckedLate
      <4>2. QED
        BY <1>4, <1>5, <1>6, <3>1, <4>1
    <3>4. QED
      BY <1>3, <1>4, <2>1, <3>2, <3>3
  <2>2. QED
    BY <2>1 DEF CheckedLate
<1>9. UncheckedLate'
  <2>1. ASSUME NEW w \in Worker, w >= pos'
        PROVE  -due'[w] <= Rounds(NumWorkers - w + Begun' - 1) + Slack
    <3>1. -due[w] <= Rounds(NumWorkers - w + Begun - 1) + Slack
      BY <1>3, <1>4, <2>1 DEF IInv, UncheckedLate
    <3>2. Begun = pos /\ Begun' = pos + 1
      BY <1>3, <1>4 DEF Begun
    <3>3. /\ NumWorkers - w + Begun - 1 \in Int
          /\ NumWorkers - w + Begun' - 1 = (NumWorkers - w + Begun - 1) + 1
      BY <1>3, <1>4, <3>2
    <3>4. /\ Rounds(NumWorkers - w + Begun - 1) \in Int
          /\ Rounds(NumWorkers - w + Begun' - 1) = Rounds(NumWorkers - w + Begun - 1) + MaxPerform
      BY <3>3, RoundsFacts
    <3>5. QED
      BY <1>4, <1>5, <1>6, <3>1, <3>4, SlackFacts
  <2>2. QED
    BY <2>1 DEF UncheckedLate
<1>10. WakesFor'
  <2>1. ASSUME NEW w \in Worker, w < pos' PROVE wake' <= due'[w]
    <3>1. w = pos \/ w < pos
      BY <1>3, <1>4, <2>1
    <3>2. QED
      BY <1>3, <1>4, <1>5, <1>6, <3>1 DEF IInv, WakesFor
  <2>2. QED
    BY <2>1 DEF WakesFor
<1>11. QED
  BY <1>2, <1>7, <1>8, <1>9, <1>10 DEF IInv, CurrentLate

LEMMA LoseIInv == ASSUME IInv, LoseConnection PROVE IInv'
<1>1. /\ due' = [w \in Worker |-> 0] /\ pos' = 0 /\ wake' = wake
      /\ losses < MaxLosses /\ losses' = losses + 1
  BY DEF LoseConnection
<1>2. ~busy' /\ busy' \in BOOLEAN /\ busy' = FALSE
  BY Zenon DEF LoseConnection
<1>3. due' \in [Worker -> Int] /\ \A w \in Worker : due'[w] = 0 /\ due'[w] <= Interval[w]
  BY <1>1
<1>4. TypeOK'
  BY <1>1, <1>2, <1>3 DEF IInv, TypeOK
<1>5. CheckedLate' /\ WakesFor' /\ CurrentLate'
  BY <1>1, <1>2 DEF CheckedLate, WakesFor, CurrentLate, Worker
<1>6. ASSUME NEW w \in Worker
      PROVE  -due'[w] <= Rounds(NumWorkers - w + Begun' - 1) + Slack
  <2>1. Begun' = 1 /\ NumWorkers - w \in Nat /\ NumWorkers - w + Begun' - 1 = NumWorkers - w
    BY <1>1 DEF Begun, Worker
  <2>2. Rounds(NumWorkers - w) >= 0 /\ Rounds(NumWorkers - w) \in Int
    BY <2>1, RoundsFacts
  <2>3. QED
    BY <1>3, <2>1, <2>2, SlackFacts
<1>7. UncheckedLate'
  BY <1>6 DEF UncheckedLate
<1>8. QED
  BY <1>4, <1>5, <1>7 DEF IInv

\* What a pass leaves behind for the next one, after a sleep that ends no
\* later than Jitter after the worker that is due first, or after none.
LEMMA PassEnd ==
    ASSUME IInv, pos = NumWorkers + 1, pos' = 0, busy' = busy, losses' = losses,
           NEW e \in Nat, due' = [w \in Worker |-> due[w] - e], wake' = wake - e,
           e = 0 \/ e <= wake + Jitter
    PROVE  IInv'
<1>1. ~busy /\ busy \in BOOLEAN
  BY DEF IInv, TypeOK, Worker
<1>2. \A w \in Worker : w \in Int /\ w >= 1 /\ w <= NumWorkers /\ due[w] \in Int
                        /\ due[w] <= Interval[w] /\ Interval[w] \in Nat
  BY DEF Worker, IInv, TypeOK
<1>3. due' \in [Worker -> Int] /\ \A w \in Worker : due'[w] = due[w] - e
  BY <1>2
<1>4. wake \in Int /\ wake <= Cap /\ losses \in 0 .. MaxLosses
  BY DEF IInv, TypeOK
<1>5. TypeOK'
  <2>1. \A w \in Worker : due'[w] <= Interval[w]
    BY <1>2, <1>3
  <2>2. wake' \in Int /\ wake' <= Cap
    BY <1>4
  <2>3. QED
    BY <1>1, <1>3, <1>4, <2>1, <2>2 DEF TypeOK
<1>6. CheckedLate' /\ WakesFor' /\ CurrentLate'
  BY <1>1, <1>2 DEF CheckedLate, WakesFor, CurrentLate
<1>7. ASSUME NEW w \in Worker
      PROVE  -due'[w] <= Rounds(NumWorkers - w + Begun' - 1) + Slack
  <2>1. Begun' = 1 /\ NumWorkers - w \in Nat /\ NumWorkers - w + Begun' - 1 = NumWorkers - w
    BY <1>2 DEF Begun
  <2>2. Rounds(NumWorkers - w) >= 0 /\ Rounds(NumWorkers - w) \in Int
        /\ Rounds(NumWorkers - w + 1) = Rounds(NumWorkers - w) + MaxPerform
    BY <2>1, RoundsFacts
  <2>3. CASE e = 0
    <3>1. -due[w] <= Rounds(pos - w)
      BY <1>2 DEF IInv, CheckedLate
    <3>2. pos - w = NumWorkers - w + 1
      BY <1>2
    <3>3. QED
      BY <1>2, <1>3, <2>1, <2>2, <2>3, <3>1, <3>2, SlackFacts
  <2>4. CASE e <= wake + Jitter
    <3>1. wake <= due[w]
      BY <1>2 DEF IInv, WakesFor
    <3>2. -due'[w] <= Jitter
      BY <1>2, <1>3, <1>4, <2>4, <3>1
    <3>3. QED
      BY <1>2, <1>3, <2>1, <2>2, <3>2, SlackFacts
  <2>5. QED
    BY <2>3, <2>4
<1>8. UncheckedLate'
  BY <1>7 DEF UncheckedLate
<1>9. QED
  BY <1>5, <1>6, <1>8 DEF IInv

LEMMA AsleepFacts ==
    ASSUME NEW n \in Nat
    PROVE  (n \div Millisecond) * Millisecond \in 0 .. n
OBVIOUS

LEMMA SleepIInv == ASSUME IInv, Sleep PROVE IInv'
<1>1. pos = NumWorkers + 1 /\ wake >= 0 /\ wake \in Nat
      /\ pos' = 0 /\ busy' = busy /\ losses' = losses
  BY DEF Sleep, IInv, TypeOK
<1>2. PICK e \in Asleep .. (Asleep + Jitter) :
        e > 0 /\ due' = Elapsed(e) /\ wake' = wake - e
  BY DEF Sleep
<1>3. Asleep \in 0 .. wake
  BY <1>1, AsleepFacts DEF Asleep
<1>4. e \in Nat /\ e <= wake + Jitter
  BY <1>1, <1>2, <1>3
<1>5. QED
  BY <1>1, <1>2, <1>4, PassEnd DEF Elapsed

LEMMA NoSleepIInv == ASSUME IInv, NoSleep PROVE IInv'
<1>1. pos = NumWorkers + 1 /\ pos' = 0 /\ busy' = busy /\ losses' = losses
      /\ due' = due /\ wake' = wake
  BY DEF NoSleep
<1>2. due' = [w \in Worker |-> due[w] - 0] /\ wake' = wake - 0
  BY <1>1 DEF IInv, TypeOK
<1>3. QED
  BY <1>1, <1>2, PassEnd

\* Every behaviour keeps the invariant.
THEOREM Invariant == Spec => []IInv
<1>1. Init => IInv
  BY InitIInv
<1>2. IInv /\ [Next]_vars => IInv'
  <2>1. IInv /\ UNCHANGED vars => IInv'
    BY DEF vars, IInv, TypeOK, CheckedLate, CurrentLate, UncheckedLate, WakesFor, Begun
  <2>2. QED
    BY <2>1, BeginPassIInv, CheckNotDueIInv, StartIInv, FinishIInv, LoseIInv,
       SleepIInv, NoSleepIInv DEF Next
<1>3. QED
  BY <1>1, <1>2, PTL DEF Spec

-----------------------------------------------------------------------------
\* The schedule keeps its types (checkToPerform, loopWork_).
THEOREM TypeCorrect == Spec => []TypeOK
<1>1. IInv => TypeOK
  BY DEF IInv
<1>2. QED
  BY <1>1, Invariant, PTL

LEMMA PunctualFollows == IInv => Punctual
<1> SUFFICES ASSUME IInv, NEW w \in Worker PROVE -due[w] <= LateAtMost
  BY DEF Punctual
<1>1. /\ w \in Int /\ w >= 1 /\ w <= NumWorkers /\ due[w] \in Int
      /\ pos \in Int /\ pos >= 0 /\ pos <= NumWorkers + 1
  BY DEF Worker, IInv, TypeOK
<1>2. LateAtMost = Rounds(NumWorkers - 1) + Slack
  BY DEF LateAtMost, Rounds, Slack
<1>3. /\ Rounds(NumWorkers - 1) \in Int /\ Rounds(NumWorkers - 1) >= 0
      /\ Rounds(NumWorkers) = Rounds(NumWorkers - 1) + MaxPerform
  <2>1. NumWorkers - 1 \in Nat /\ NumWorkers = (NumWorkers - 1) + 1
    BY <1>1
  <2> DEFINE n == NumWorkers - 1
  <2> HIDE DEF n
  <2>2. n \in Nat /\ n \in Int /\ NumWorkers = n + 1
    BY <2>1 DEF n
  <2>3. Rounds(n) \in Int /\ Rounds(n + 1) = Rounds(n) + MaxPerform /\ Rounds(n) >= 0
    <3>1. Rounds(n) >= 0
      BY <2>2, RoundsFacts
    <3>2. Rounds(n) \in Int /\ Rounds(n + 1) = Rounds(n) + MaxPerform
      BY <2>2, RoundsFacts, Zenon
    <3>3. QED
      BY <3>1, <3>2
  <2>4. QED
    BY <2>2, <2>3 DEF n
<1>4. CASE w < pos
  <2>1. -due[w] <= Rounds(pos - w)
    BY <1>4 DEF IInv, CheckedLate
  <2>2. Rounds(pos - w) <= Rounds(NumWorkers) /\ Rounds(pos - w) \in Int
    <3>1. pos - w \in Int /\ pos - w <= NumWorkers
      BY <1>1
    <3>2. QED
      BY <3>1, RoundsFacts
  <2>3. QED
    BY <1>1, <1>2, <1>3, <2>1, <2>2, SlackFacts
<1>5. CASE busy /\ w = pos
  BY <1>1, <1>2, <1>3, <1>5, SlackFacts DEF IInv, CurrentLate
<1>6. CASE w >= pos /\ ~(busy /\ w = pos)
  <2>1. -due[w] <= Rounds(NumWorkers - w + Begun - 1) + Slack
    BY <1>6 DEF IInv, UncheckedLate
  <2>2. Begun \in Int /\ Begun <= w
    BY <1>1, <1>6 DEF Begun
  <2>3. NumWorkers - w + Begun - 1 \in Int /\ NumWorkers - w + Begun - 1 <= NumWorkers - 1
    BY <1>1, <2>2
  <2>4. /\ Rounds(NumWorkers - w + Begun - 1) \in Int
        /\ Rounds(NumWorkers - w + Begun - 1) <= Rounds(NumWorkers - 1)
    BY <1>1, <2>3, RoundsFacts
  <2>5. QED
    BY <1>1, <1>2, <1>3, <2>1, <2>4, SlackFacts
<1>7. QED
  BY <1>1, <1>4, <1>5, <1>6

\* No worker is late for longer than the others and one sleep account for.
THEOREM AlwaysPunctual == Spec => []Punctual
<1>1. IInv => Punctual
  BY PunctualFollows
<1>2. QED
  BY <1>1, Invariant, PTL
=============================================================================
