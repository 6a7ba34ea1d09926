--------------------------- MODULE WorkerSchedule ---------------------------
(***************************************************************************)
(* When the workers of the work loop run (loopWork_ in                     *)
(* slamware_ros_sdk_server.cpp, ServerWorkerBase::checkToPerform).  A pass *)
(* checks every worker in turn, performs those that are due, and sleeps    *)
(* until the next is.  Times are relative to the present: what is due in n *)
(* ticks is n, what is overdue is negative.                                *)
(***************************************************************************)
EXTENDS Integers

CONSTANTS
    NumWorkers,     \* length of serverWorkers_
    Interval,       \* triggerInterval_ of each worker
    Cap,            \* the longest sleep, 100 ms in the code
    Millisecond,    \* in ticks
    MaxPerform,     \* bound on the time of a doPerform
    Jitter,         \* bound on how much too long a sleep is
    MaxLosses       \* bound on the connections lost

Worker == 1 .. NumWorkers

ASSUME WorkersAssumption == NumWorkers \in Nat
ASSUME IntervalAssumption == Interval \in [Worker -> Nat]
ASSUME TicksAssumption ==
    /\ Cap \in Nat /\ Millisecond \in Nat \ {0}
    /\ MaxPerform \in Nat /\ Jitter \in Nat \ {0} /\ MaxLosses \in Nat

VARIABLES
    due,            \* nextTimepointToTrigger_ of each worker
    wake,           \* minNextTriggerTimepoint
    pos,            \* the worker of the pass; 0 before it, NumWorkers + 1 after
    busy,           \* that worker is in doPerform
    losses          \* connections lost so far

vars == <<due, wake, pos, busy, losses>>

MinOf(a, b) == IF a <= b THEN a ELSE b
MaxOf(a, b) == IF a <= b THEN b ELSE a

Elapsed(d) == [w \in Worker |-> due[w] - d]

-----------------------------------------------------------------------------
BeginPass ==
    /\ pos = 0
    /\ pos' = 1
    /\ wake' = Cap
    /\ UNCHANGED <<due, busy, losses>>

CheckNotDue ==
    /\ pos \in Worker /\ ~busy /\ due[pos] > 0
    /\ wake' = MinOf(wake, due[pos])
    /\ pos' = pos + 1
    /\ UNCHANGED <<due, busy, losses>>

\* Seeded fault: a worker that is overdue is left out until its next time.
StartInTime ==
    /\ pos \in Worker /\ ~busy /\ due[pos] <= 0
    /\ due' = [due EXCEPT ![pos] = Interval[pos]]
    /\ IF due[pos] = 0 THEN busy' = TRUE /\ UNCHANGED <<wake, pos>>
       ELSE wake' = MinOf(wake, Interval[pos]) /\ pos' = pos + 1 /\ busy' = FALSE
    /\ UNCHANGED losses

\* The next time is set first, so that a worker that throws waits for it too.
StartPerform ==
    /\ pos \in Worker /\ ~busy /\ due[pos] <= 0
    /\ due' = [due EXCEPT ![pos] = Interval[pos]]
    /\ busy' = TRUE
    /\ UNCHANGED <<wake, pos, losses>>

\* Seeded fault: the sleep does not mind the worker that has just run.
FinishForgets ==
    /\ busy
    /\ \E d \in 0 .. MaxPerform : due' = Elapsed(d) /\ wake' = wake - d
    /\ pos' = pos + 1
    /\ busy' = FALSE
    /\ UNCHANGED losses

\* doPerform returns or throws what is not a connection exception.
FinishPerform ==
    /\ busy
    /\ \E d \in 0 .. MaxPerform :
          /\ due' = Elapsed(d)
          /\ wake' = MinOf(wake - d, due[pos] - d)
    /\ pos' = pos + 1
    /\ busy' = FALSE
    /\ UNCHANGED losses

\* The pass is left; reinitWorkLoop makes every worker due.
LoseConnection ==
    /\ busy /\ losses < MaxLosses
    /\ losses' = losses + 1
    /\ due' = [w \in Worker |-> 0]
    /\ pos' = 0
    /\ busy' = FALSE
    /\ UNCHANGED wake

\* duration_cast to milliseconds rounds down; a pass takes at least a tick.
Asleep == (wake \div Millisecond) * Millisecond

Sleep ==
    /\ pos = NumWorkers + 1 /\ wake >= 0
    /\ \E e \in Asleep .. (Asleep + Jitter) :
          e > 0 /\ due' = Elapsed(e) /\ wake' = wake - e
    /\ pos' = 0
    /\ UNCHANGED <<busy, losses>>

NoSleep ==
    /\ pos = NumWorkers + 1 /\ wake < 0
    /\ pos' = 0
    /\ UNCHANGED <<due, wake, busy, losses>>

-----------------------------------------------------------------------------
Init ==
    /\ due = [w \in Worker |-> 0]
    /\ wake = Cap
    /\ pos = 0
    /\ busy = FALSE
    /\ losses = 0

Next ==
    \/ BeginPass \/ CheckNotDue \/ StartPerform \/ FinishPerform
    \/ LoseConnection \/ Sleep \/ NoSleep

Spec == Init /\ [][Next]_vars

\* The work thread is never stopped for good.
FairSpec == Spec /\ WF_vars(Next)

-----------------------------------------------------------------------------
TypeOK ==
    /\ due \in [Worker -> Int] /\ wake \in Int
    /\ \A w \in Worker : due[w] <= Interval[w]
    /\ wake <= Cap
    /\ pos \in 0 .. NumWorkers + 1
    /\ busy \in BOOLEAN /\ (busy => pos \in Worker)
    /\ losses \in 0 .. MaxLosses

(***************************************************************************)
(* No worker is later than one doPerform of each of the others and either  *)
(* one of its own or the excess of one sleep: the sleep never runs past a  *)
(* worker, neither one that was just performed nor one that was not yet    *)
(* due, and slow workers delay each other at most once.                    *)
(***************************************************************************)
LateAtMost == (NumWorkers - 1) * MaxPerform + MaxOf(Jitter, MaxPerform)

Punctual == \A w \in Worker : -due[w] <= LateAtMost

(***************************************************************************)
(* Every worker is performed again and again, however slow the others are  *)
(* and though the pass asks each of them first: a worker that is due at    *)
(* every pass does not starve the ones behind it.                          *)
(***************************************************************************)
AgainAndAgain == \A w \in Worker : []<>(busy /\ pos = w)
=============================================================================
