--------------------------- MODULE TaskRunProofs ---------------------------
(***************************************************************************)
(* Proofs about TaskRun for any number of tasks, companies and heartbeats, *)
(* any estimate, cost and cap, and any number of faults and re-runs.       *)
(*                                                                         *)
(* The wallet: a check of the balance may go through before another task's *)
(* hold, so what covers the overdraft is the tasks that are past it.       *)
(*                                                                         *)
(* The bill of a task that is run once, while there are fewer failures     *)
(* than an activity has attempts: where a run is tells what it has billed  *)
(* so far (Bill), an attempt number above 1 is paid for by a failure       *)
(* (Attempted), and until the first failure what is not on the ledger yet  *)
(* is what the activity under way is about to append (Traced).             *)
(*                                                                         *)
(* What the schedule's heartbeats may start: the limits are checked by     *)
(* pickNextTask, well before the task they admit is marked running. What   *)
(* bridges the gap: an open TaskRun is the child some heartbeat waits for  *)
(* (Driven), so that heartbeat picks nothing else; while it has picked or  *)
(* waits, no other task of its company is running (Alone) and there is     *)
(* room for the one it picked (RoomLeft).                                  *)
(***************************************************************************)
EXTENDS TaskRun, FiniteSetTheorems, TLAPS

\* The steps of one task, as the proofs split Next.
TaskStep(t) ==
  \/ RunTask(t)
  \/ Fault(t)
  \/ EditTask(t)
  \/ RunNow(t)

LEMMA SomeTask == (CHOOSE t \in Tasks : TRUE) \in Tasks
  BY TaskRunAssumption

\* Where Goto, a retry and a start leave the variables of the workflow state.
LEMMA GotoType ==
  ASSUME TypeOK, NEW t \in Tasks, NEW p \in Points, Goto(t, p)
  PROVE  /\ pc' \in [Tasks -> Points] /\ attempt' \in [Tasks -> 1..MaxAttempts]
         /\ beat' \in [Heartbeats -> {"idle", "dispatch", "picked", "waiting"}]
         /\ picked' \in [Heartbeats -> Tasks]
  BY TaskRunAssumption DEF TypeOK, Goto

LEMMA AttemptFailsType ==
  ASSUME TypeOK, NEW t \in Tasks, AttemptFails(t)
  PROVE  /\ pc' \in [Tasks -> Points] /\ attempt' \in [Tasks -> 1..MaxAttempts]
         /\ beat' \in [Heartbeats -> {"idle", "dispatch", "picked", "waiting"}]
         /\ picked' \in [Heartbeats -> Tasks]
  <1>1. CASE attempt[t] < MaxAttempts
    <2>1. Restart(pc[t]) \in Points
      BY DEF Restart, Points
    <2>. QED
      BY <1>1, <2>1, TaskRunAssumption DEF TypeOK, AttemptFails, Retry, beats
  <1>2. CASE ~(attempt[t] < MaxAttempts)
    <2>1. Caught(pc[t]) \in Points
      BY DEF Caught, Points
    <2>. QED
      BY <1>2, <2>1, GotoType DEF AttemptFails
  <1>. QED
    BY <1>1, <1>2

\* Type correctness: the step of each action preserves TypeOK.
LEMMA TypeOKStep ==
  ASSUME TypeOK, [Next]_vars
  PROVE  TypeOK'
<1>. USE TaskRunAssumption DEF taskRows, creditRows, runState, beats, bounds
<1>1. ASSUME NEW t \in Tasks, RunTask(t)
      PROVE  TypeOK'
  <2>1. CASE ChargeCheck(t)
    BY <2>1 DEF TypeOK, ChargeCheck, Points
  <2>2. CASE ChargeRefused(t)
    BY <2>2, AttemptFailsType DEF TypeOK, ChargeRefused
  <2>3. CASE Hold(t)
    BY <2>3 DEF TypeOK, Hold, Points
  <2>4. ASSUME NEW p \in Points, NEW q \in Points, Logged(t, p, q)
        PROVE  TypeOK'
    BY <2>4, GotoType DEF TypeOK, Logged
  <2>5. ASSUME NEW p \in Points, NEW q \in Points, NEW s \in Statuses, SetTaskState(t, p, s, q)
        PROVE  TypeOK'
    BY <2>5 DEF TypeOK, SetTaskState
  <2>6. CASE WorkerSucceeds(t)
    <3>1. PICK c \in Costs : cost' = [cost EXCEPT ![t] = c]
      BY <2>6 DEF WorkerSucceeds
    <3>2. c \in Nat /\ "reconcile" \in Points
      BY DEF Points
    <3>. QED
      BY <2>6, <3>1, <3>2, GotoType DEF TypeOK, WorkerSucceeds
  <2>7. CASE WorkerFails(t)
    BY <2>7, GotoType DEF TypeOK, WorkerFails, Points
  <2>8. CASE AlreadyReconciled(t)
    BY <2>8, GotoType DEF TypeOK, AlreadyReconciled, Points
  <2>9. CASE Reconcile(t)
    <3>. DEFINE adj == charged[t] - cost[t]
                extra == IF adj < 0 THEN -adj ELSE 0
    <3>1. adj \in Int /\ extra \in Nat /\ adj + extra \in Nat /\ Announced(adj) \in Int
      BY DEF TypeOK, Announced
    <3>. QED
      BY <2>9, <3>1 DEF TypeOK, Reconcile, Adjustment, Points
  <2>10. CASE NothingDue(t)
    BY <2>10, GotoType DEF TypeOK, NothingDue, Points
  <2>11. CASE Refund(t)
    <3>1. Due(t) \in Nat
      BY <2>11 DEF Refund, Due, TypeOK
    <3>. QED
      BY <2>11, <3>1 DEF TypeOK, Refund, Points
  <2>. QED
    BY <1>1, <2>1, <2>2, <2>3, <2>4, <2>5, <2>6, <2>7, <2>8, <2>9, <2>10, <2>11
       DEF RunTask, Points, Statuses
<1>2. ASSUME NEW t \in Tasks, Fault(t)
      PROVE  TypeOK'
  BY <1>2, AttemptFailsType DEF TypeOK, Fault
<1>3. ASSUME NEW t \in Tasks, CreateTask(t)
      PROVE  TypeOK'
  BY <1>3 DEF TypeOK, CreateTask, Statuses
<1>4. ASSUME NEW t \in Tasks, NEW s \in {"pending", "queued", "deleted"}, PatchTask(t, s)
      PROVE  TypeOK'
  BY <1>4 DEF TypeOK, PatchTask, Statuses
<1>5. ASSUME NEW t \in Tasks, RunNow(t)
      PROVE  TypeOK'
  BY <1>5 DEF TypeOK, RunNow, StartTaskRun, Points
<1>6. ASSUME NEW h \in Heartbeats, HeartbeatStart(h)
      PROVE  TypeOK'
  BY <1>6 DEF TypeOK, HeartbeatStart, Statuses
<1>7. ASSUME NEW h \in Heartbeats, HeartbeatStep(h)
      PROVE  TypeOK'
  <2>1. CASE PickTask(h)
    BY <2>1 DEF TypeOK, PickTask, QueuedIn
  <2>2. CASE HeartbeatEnd(h)
    BY <2>2 DEF TypeOK, HeartbeatEnd
  <2>3. CASE StartChild(h)
    BY <2>3 DEF TypeOK, StartChild, StartTaskRun, Points
  <2>4. CASE ChildRefused(h)
    BY <2>4 DEF TypeOK, ChildRefused
  <2>. QED
    BY <1>7, <2>1, <2>2, <2>3, <2>4 DEF HeartbeatStep
<1>8. ASSUME NEW c \in Companies, NEW a \in BOOLEAN, SetActive(c, a)
      PROVE  TypeOK'
  BY <1>8 DEF TypeOK, SetActive
<1>9. CASE GrantCredits
  BY <1>9 DEF TypeOK, GrantCredits
<1>10. CASE UtcMidnight
  BY <1>10 DEF TypeOK, UtcMidnight
<1>11. CASE UNCHANGED vars
  BY <1>11 DEF TypeOK, vars
<1>. QED
  BY <1>1, <1>2, <1>3, <1>4, <1>5, <1>6, <1>7, <1>8, <1>9, <1>10, <1>11 DEF Next, EditTask

\* Every variable keeps its type in every behaviour of the workflows.
THEOREM TypeCorrect == Spec => []TypeOK
<1>1. Init => TypeOK
  BY TaskRunAssumption, SomeTask DEF Init, TypeOK, Statuses, Points
<1>2. TypeOK /\ [Next]_vars => TypeOK'
  BY TypeOKStep
<1>. QED
  BY <1>1, <1>2, PTL DEF Spec

----------------------------------------------------------------------------
(***************************************************************************)
(* The overdraft. Pending is the set of runs that have passed the balance  *)
(* check and not inserted their hold yet. A run joins it only when the     *)
(* wallet covers a hold, and each hold inserted takes one run out of it,   *)
(* so the bound below is inductive; with nothing pending it is             *)
(* OverdraftBound.                                                         *)
(***************************************************************************)
Pending == {t \in Tasks : pc[t] = "hold"}

Covered == wallet + overrun >= (1 - Cardinality(Tasks) + Cardinality(Pending)) * Estimate

LEMMA PendingSize ==
  /\ IsFiniteSet(Pending)
  /\ Cardinality(Pending) \in Nat /\ Cardinality(Tasks) \in Nat
  /\ Cardinality(Pending) <= Cardinality(Tasks)
  /\ Cardinality(Tasks) >= 1
<1>1. Pending \subseteq Tasks
  BY DEF Pending
<1>2. IsFiniteSet(Pending) /\ Cardinality(Pending) <= Cardinality(Tasks)
  BY <1>1, TaskRunAssumption, FS_Subset
<1>3. Cardinality(Tasks) # 0
  BY TaskRunAssumption, FS_EmptySet
<1>. QED
  BY <1>2, <1>3, TaskRunAssumption, FS_CardinalityType

\* More cover is needed only when more runs are pending.
LEMMA CoverMonotone ==
  ASSUME NEW m \in Int, NEW n \in Int, m <= n, NEW e \in Nat
  PROVE  m * e <= n * e
  OBVIOUS

\* A step that neither adds a pending run nor takes from wallet + overrun.
LEMMA QuietStep ==
  ASSUME TypeOK, TypeOK', Covered, Pending' \subseteq Pending,
         wallet' + overrun' >= wallet + overrun
  PROVE  Covered'
<1>. DEFINE N == Cardinality(Tasks)
            k == Cardinality(Pending)
            l == Cardinality(Pending')
<1>1. l <= k /\ l \in Nat /\ k \in Nat /\ N \in Nat
  BY PendingSize, FS_Subset, FS_CardinalityType
<1>2. (1 - N + l) * Estimate <= (1 - N + k) * Estimate
  <2>. HIDE DEF N, k, l
  <2>. QED
    BY <1>1, CoverMonotone, TaskRunAssumption
<1>. DEFINE x == (1 - N + k) * Estimate
            y == (1 - N + l) * Estimate
<1>3. x \in Int /\ y \in Int
  <2>. HIDE DEF N, k, l
  <2>. QED
    BY <1>1, TaskRunAssumption
<1>4. y <= x
  BY <1>2
<1>5. wallet + overrun \in Int /\ wallet' + overrun' \in Int
  BY DEF TypeOK
<1>6. (Covered <=> wallet + overrun >= x) /\ (Covered' <=> wallet' + overrun' >= y)
  BY DEF Covered
<1>7. ASSUME NEW a \in Int, NEW b \in Int, NEW c \in Int, NEW d \in Int,
             b >= a, a >= c, d <= c
      PROVE  b >= d
  BY <1>7
<1>. HIDE DEF x, y
<1>. QED
  BY <1>3, <1>4, <1>5, <1>6, <1>7

\* chargeTask's check: the wallet covers a hold, so it covers one for each run
\* that may be pending at once.
LEMMA CheckStep ==
  ASSUME TypeOK, Covered, NEW t \in Tasks, ChargeCheck(t)
  PROVE  Covered'
<1>1. wallet' = wallet /\ overrun' = overrun /\ wallet >= Estimate
  BY DEF ChargeCheck, CanCharge, creditRows
<1>2. Pending' \subseteq Tasks
  BY DEF Pending
<1>3. Cardinality(Pending') \in Nat /\ Cardinality(Pending') <= Cardinality(Tasks)
  BY <1>2, TaskRunAssumption, FS_Subset, FS_CardinalityType
<1>4. (1 - Cardinality(Tasks) + Cardinality(Pending')) * Estimate <= 1 * Estimate
  <2>. DEFINE m == 1 - Cardinality(Tasks) + Cardinality(Pending')
  <2>1. m \in Int /\ m <= 1
    BY <1>3, PendingSize
  <2>. HIDE DEF m
  <2>2. m * Estimate <= 1 * Estimate
    BY <2>1, CoverMonotone, TaskRunAssumption
  <2>. QED
    BY <2>2 DEF m
<1>5. (1 - Cardinality(Tasks) + Cardinality(Pending')) * Estimate \in Int
  <2>. DEFINE m == 1 - Cardinality(Tasks) + Cardinality(Pending')
  <2>1. m \in Int
    BY <1>3, PendingSize
  <2>. HIDE DEF m
  <2>2. m * Estimate \in Int
    BY <2>1, TaskRunAssumption
  <2>. QED
    BY <2>2 DEF m
<1>. QED
  BY <1>1, <1>4, <1>5, TaskRunAssumption DEF Covered, TypeOK

\* chargeTask's insert: one hold less in the wallet, one run less pending.
LEMMA HoldStep ==
  ASSUME TypeOK, Covered, NEW t \in Tasks, Hold(t)
  PROVE  Covered'
<1>1. wallet' = wallet - Estimate /\ overrun' = overrun
  BY DEF Hold
<1>2. Pending' = Pending \ {t} /\ t \in Pending
  BY DEF Hold, Pending, TypeOK
<1>3. Cardinality(Pending') = Cardinality(Pending) - 1
  BY <1>2, PendingSize, FS_RemoveElement
<1>. DEFINE m == 1 - Cardinality(Tasks) + Cardinality(Pending)
<1>4. m \in Int /\ 1 - Cardinality(Tasks) + Cardinality(Pending') = m - 1
  BY <1>3, PendingSize
<1>5. wallet + overrun >= m * Estimate
  BY DEF Covered
<1>6. Covered' <=> wallet' + overrun' >= (m - 1) * Estimate
  BY <1>4 DEF Covered
<1>. HIDE DEF m
<1>7. (m - 1) * Estimate = m * Estimate - Estimate /\ m * Estimate \in Int
  BY <1>4, TaskRunAssumption
<1>. QED
  BY <1>1, <1>5, <1>6, <1>7, TaskRunAssumption DEF TypeOK

\* Moves of the workflow that never make a run pending.
LEMMA GotoPending ==
  ASSUME TypeOK, NEW t \in Tasks, NEW p \in Points, p # "hold", Goto(t, p)
  PROVE  Pending' \subseteq Pending
  BY DEF Goto, Pending, TypeOK

LEMMA AttemptFailsPending ==
  ASSUME TypeOK, NEW t \in Tasks, AttemptFails(t)
  PROVE  Pending' \subseteq Pending
<1>1. Restart(pc[t]) # "hold"
  BY DEF Restart
<1>2. Caught(pc[t]) \in Points /\ Caught(pc[t]) # "hold"
  BY DEF Caught, Points
<1>. QED
  BY <1>1, <1>2, GotoPending DEF AttemptFails, Retry, Pending, TypeOK

LEMMA CoveredStep ==
  ASSUME TypeOK, TypeOK', Covered, [Next]_vars
  PROVE  Covered'
<1>. USE DEF taskRows, creditRows, runState, beats, bounds
<1>0. ASSUME UNCHANGED <<wallet, overrun>>, Pending' \subseteq Pending
      PROVE  Covered'
  BY <1>0, QuietStep DEF TypeOK
<1>1. ASSUME NEW t \in Tasks, RunTask(t)
      PROVE  Covered'
  <2>1. CASE ChargeCheck(t)
    BY <2>1, CheckStep
  <2>2. CASE ChargeRefused(t)
    BY <2>2, <1>0, AttemptFailsPending DEF ChargeRefused
  <2>3. CASE Hold(t)
    BY <2>3, HoldStep
  <2>4. ASSUME NEW p \in Points, NEW q \in Points, q # "hold", Logged(t, p, q)
        PROVE  Covered'
    BY <2>4, <1>0, GotoPending DEF Logged
  <2>5. ASSUME NEW p \in Points, NEW q \in Points, q # "hold", NEW s \in Statuses,
               SetTaskState(t, p, s, q)
        PROVE  Covered'
    BY <2>5, <1>0 DEF SetTaskState, Pending, TypeOK
  <2>6. CASE WorkerSucceeds(t) \/ WorkerFails(t) \/ AlreadyReconciled(t) \/ NothingDue(t)
    BY <2>6, <1>0, GotoPending DEF WorkerSucceeds, WorkerFails, AlreadyReconciled, NothingDue, Points
  <2>7. CASE Reconcile(t)
    <3>1. Pending' \subseteq Pending
      BY <2>7 DEF Reconcile, Pending, TypeOK
    <3>2. wallet' + overrun' >= wallet + overrun
      BY <2>7 DEF Reconcile, Adjustment, TypeOK
    <3>. QED
      BY <3>1, <3>2, QuietStep
  <2>8. CASE Refund(t)
    <3>1. Pending' \subseteq Pending
      BY <2>8 DEF Refund, Pending, TypeOK
    <3>2. wallet' + overrun' >= wallet + overrun
      BY <2>8 DEF Refund, Due, TypeOK
    <3>. QED
      BY <3>1, <3>2, QuietStep
  <2>. QED
    BY <1>1, <2>1, <2>2, <2>3, <2>4, <2>5, <2>6, <2>7, <2>8 DEF RunTask, Points, Statuses
<1>2. ASSUME NEW t \in Tasks, Fault(t)
      PROVE  Covered'
  BY <1>2, <1>0, AttemptFailsPending DEF Fault
<1>3. ASSUME NEW t \in Tasks, CreateTask(t) \/ (\E s \in {"pending", "queued", "deleted"} : PatchTask(t, s))
      PROVE  Covered'
  BY <1>3, <1>0 DEF CreateTask, PatchTask, Pending
<1>4. ASSUME NEW t \in Tasks, StartTaskRun(t)
      PROVE  Covered'
  BY <1>4, <1>0 DEF StartTaskRun, Pending, TypeOK
<1>5. ASSUME NEW h \in Heartbeats, HeartbeatStart(h) \/ PickTask(h) \/ HeartbeatEnd(h) \/ ChildRefused(h)
      PROVE  Covered'
  BY <1>5, <1>0 DEF HeartbeatStart, PickTask, HeartbeatEnd, ChildRefused, Pending
<1>6. ASSUME NEW h \in Heartbeats, StartChild(h)
      PROVE  Covered'
  BY <1>6, <1>4 DEF StartChild, TypeOK
<1>7. CASE GrantCredits
  <2>1. Pending' \subseteq Pending /\ wallet' + overrun' >= wallet + overrun
    BY <1>7, TaskRunAssumption DEF GrantCredits, Pending, TypeOK
  <2>. QED
    BY <2>1, QuietStep
<1>8. CASE UtcMidnight \/ (\E c \in Companies, a \in BOOLEAN : SetActive(c, a)) \/ UNCHANGED vars
  BY <1>8, <1>0 DEF UtcMidnight, SetActive, vars, Pending
<1>. QED
  BY <1>1, <1>2, <1>3, <1>4, <1>5, <1>6, <1>7, <1>8 DEF Next, EditTask, RunNow, HeartbeatStep

\* However the runs of a conglomerate interleave, retry and re-run, its wallet
\* is never overdrawn by more than one hold per task but one (costs above the
\* hold aside). With a single task in flight it is never overdrawn.
THEOREM OverdraftBounded == Spec => []OverdraftBound
<1>1. Init => Covered
  <2>. SUFFICES ASSUME Init PROVE Covered
    OBVIOUS
  <2>1. Pending = {}
    BY DEF Init, Pending
  <2>2. Cardinality(Pending) = 0
    BY <2>1, FS_EmptySet
  <2>. DEFINE m == 1 - Cardinality(Tasks) + Cardinality(Pending)
  <2>3. m \in Int /\ m <= 0
    BY <2>2, PendingSize
  <2>4. wallet + overrun >= 0
    BY TaskRunAssumption DEF Init
  <2>5. Covered <=> wallet + overrun >= m * Estimate
    BY DEF Covered
  <2>. HIDE DEF m
  <2>6. m * Estimate <= 0 * Estimate /\ m * Estimate \in Int
    BY <2>3, CoverMonotone, TaskRunAssumption
  <2>. QED
    BY <2>4, <2>5, <2>6, TaskRunAssumption DEF Init
<1>2. TypeOK /\ TypeOK' /\ Covered /\ [Next]_vars => Covered'
  BY CoveredStep
<1>3. TypeOK /\ Covered => OverdraftBound
  <2>. SUFFICES ASSUME TypeOK, Covered PROVE OverdraftBound
    OBVIOUS
  <2>. DEFINE n == Cardinality(Tasks)
              m == 1 - Cardinality(Tasks) + Cardinality(Pending)
  <2>1. n \in Nat /\ m \in Int /\ 1 - n <= m
    BY PendingSize
  <2>2. wallet + overrun >= m * Estimate
    BY DEF Covered
  <2>3. OverdraftBound <=> wallet + overrun >= -((n - 1) * Estimate)
    BY DEF OverdraftBound
  <2>. HIDE DEF n, m
  <2>4. (1 - n) * Estimate <= m * Estimate
    BY <2>1, CoverMonotone, TaskRunAssumption
  <2>5. /\ (1 - n) * Estimate = -((n - 1) * Estimate)
        /\ (n - 1) * Estimate \in Int /\ m * Estimate \in Int
    BY <2>1, TaskRunAssumption
  <2>. QED
    BY <2>2, <2>3, <2>4, <2>5 DEF TypeOK
<1>. QED
  BY <1>1, <1>2, <1>3, TypeCorrect, PTL DEF Spec

----------------------------------------------------------------------------
(* What a task that is run once is billed.                                 *)

OnceAssumed == MaxRuns <= 1 /\ MaxFaults < MaxAttempts

Charging == {"charge", "hold", "holdLog"}
Before == Charging \cup {"start", "startLog", "worker"}
Net(t) == charged[t] - refunded[t]

Bill(t) ==
  /\ runs[t] = 0 => pc[t] = "closed" /\ ~marker[t] /\ charged[t] = 0 /\ refunded[t] = 0
  /\ pc[t] \in Before => ~marker[t] /\ refunded[t] = 0
  /\ pc[t] = "reconcile" => IF marker[t] THEN Net(t) = cost[t] ELSE refunded[t] = 0
  /\ pc[t] \in {"reconcileLog", "finish", "finishLog"} => marker[t] /\ Net(t) = cost[t]
  /\ pc[t] = "refund" => refunded[t] = 0 \/ Net(t) = 0
  /\ pc[t] \in {"refundLog", "fail", "failLog"} => Net(t) = 0
Told(t) ==
  /\ runs[t] = 0 \/ pc[t] \in Before \cup {"reconcile", "reconcileLog"} => status[t] \notin {"done", "failed"}
  /\ pc[t] = "finish" => status[t] # "failed"
  /\ pc[t] = "finishLog" => status[t] = "done"
  /\ pc[t] \in {"refund", "refundLog", "fail", "failLog"} => status[t] # "done"
  /\ pc[t] = "closed" /\ status[t] = "done" => Net(t) = cost[t]
  /\ pc[t] = "closed" /\ status[t] = "failed" => Net(t) = 0
Attempted(t) == pc[t] \notin Charging \cup {"closed"} => attempt[t] <= faults + 1
Traced(t) ==
  faults = 0 =>
    /\ events[t] + unlogged[t] = -Net(t)
    /\ pc[t] \notin {"holdLog", "reconcileLog", "refundLog"} => unlogged[t] = 0

TaskInv(t) == Bill(t) /\ Told(t) /\ Attempted(t) /\ Traced(t)
BillInv == faults <= MaxFaults /\ \A t \in Tasks : TaskInv(t)

\* A task whose rows and run a step leaves alone keeps its bill.
LEMMA SameBill ==
  ASSUME TypeOK, TypeOK', NEW u \in Tasks, TaskInv(u), faults' >= faults,
         UNCHANGED <<status[u], pc[u], attempt[u], runs[u], marker[u], charged[u], refunded[u],
                     cost[u], events[u], unlogged[u]>>
  PROVE  TaskInv(u)'
<1>1. Net(u)' = Net(u)
  BY DEF Net
<1>2. Bill(u)' /\ Told(u)'
  BY <1>1 DEF TaskInv, Bill, Told
<1>3. Attempted(u)'
  BY DEF TaskInv, Attempted, TypeOK
<1>4. Traced(u)'
  BY <1>1 DEF TaskInv, Traced, TypeOK
<1>. QED
  BY <1>2, <1>3, <1>4 DEF TaskInv

\* Edits of the owner, and whatever else leaves the runs and the credit rows alone.
LEMMA EditBill ==
  ASSUME TypeOK, TypeOK', NEW u \in Tasks, TaskInv(u), UNCHANGED <<creditRows, runState, bounds>>,
         status'[u] = status[u] \/
           (status[u] \notin {"running", "done"} /\ status'[u] \in {"pending", "queued", "deleted"})
  PROVE  TaskInv(u)'
<1>1. UNCHANGED <<pc, attempt, runs, marker, charged, refunded, cost, events, unlogged, faults>>
  BY DEF creditRows, runState, bounds
<1>2. Net(u)' = Net(u)
  BY <1>1 DEF Net
<1>3. Bill(u)' /\ Attempted(u)' /\ Traced(u)'
  BY <1>1, <1>2 DEF TaskInv, Bill, Attempted, Traced
<1>4. Told(u)'
  BY <1>1, <1>2 DEF TaskInv, Told
<1>. QED
  BY <1>3, <1>4 DEF TaskInv

\* An attempt that fails after the charge is retried: there are more attempts than failures.
LEMMA FaultRetries ==
  ASSUME OnceAssumed, TypeOK, NEW t \in Tasks, TaskInv(t), Fault(t), pc[t] \notin Charging
  PROVE  Retry(t)
<1>1. attempt[t] <= faults + 1 /\ faults < MaxFaults
  BY DEF TaskInv, Attempted, Fault
<1>2. attempt[t] < MaxAttempts
  BY <1>1, TaskRunAssumption DEF OnceAssumed, TypeOK
<1>. QED
  BY <1>2 DEF Fault, AttemptFails

LEMMA FaultBill ==
  ASSUME OnceAssumed, TypeOK, TypeOK', NEW t \in Tasks, TaskInv(t), Fault(t)
  PROVE  TaskInv(t)'
<1>1. /\ faults' = faults + 1 /\ faults \in Nat
      /\ UNCHANGED <<status, runs, marker, charged, refunded, cost>>
      /\ pc[t] \in Points \ {"closed", "worker"}
  BY DEF Fault, taskRows, creditRows, TypeOK
<1>2. Net(t)' = Net(t)
  BY <1>1 DEF Net
<1>3. Traced(t)'
  BY <1>1 DEF Traced
<1>4. CASE pc[t] \in Charging
  <2>1. pc'[t] \in {"charge", "closed"}
    BY <1>4 DEF Fault, AttemptFails, Retry, Goto, Restart, Caught, TypeOK, Charging
  <2>. QED
    BY <1>1, <1>2, <1>3, <1>4, <2>1 DEF TaskInv, Bill, Told, Attempted, Charging, Before
<1>5. CASE pc[t] \notin Charging
  <2>1. Retry(t)
    BY <1>5, FaultRetries
  <2>2. pc'[t] = Restart(pc[t]) /\ attempt'[t] = attempt[t] + 1
    BY <2>1 DEF Retry, TypeOK
  <2>3. \/ pc[t] \in {"start", "startLog"} /\ pc'[t] = "start"
        \/ pc[t] \in {"reconcile", "reconcileLog"} /\ pc'[t] = "reconcile"
        \/ pc[t] \in {"finish", "finishLog"} /\ pc'[t] = "finish"
        \/ pc[t] \in {"refund", "refundLog"} /\ pc'[t] = "refund"
        \/ pc[t] \in {"fail", "failLog"} /\ pc'[t] = "fail"
    BY <1>1, <1>5, <2>2 DEF Restart, Points, Charging
  <2>4. Attempted(t)'
    BY <1>1, <1>5, <2>2 DEF TaskInv, Attempted, Charging, TypeOK
  <2>5. Bill(t)'
    BY <1>1, <1>2, <2>3 DEF TaskInv, Bill, Before, Charging
  <2>6. Told(t)'
    BY <1>1, <1>2, <2>3 DEF TaskInv, Bill, Told, Before, Charging
  <2>. QED
    BY <1>3, <2>4, <2>5, <2>6 DEF TaskInv
<1>. QED
  BY <1>4, <1>5

----------------------------------------------------------------------------
\* The activities, in the order of the workflow.
LEMMA ChargeBill ==
  ASSUME OnceAssumed, TypeOK, TypeOK', NEW t \in Tasks, TaskInv(t),
         ChargeCheck(t) \/ ChargeRefused(t) \/ Hold(t)
  PROVE  TaskInv(t)'
<1>1. CASE ChargeCheck(t) \/ ChargeRefused(t)
  <2>1. pc[t] = "charge" /\ pc'[t] \in {"hold", "charge", "closed"}
    BY <1>1 DEF ChargeCheck, ChargeRefused, AttemptFails, Retry, Goto, Restart, Caught, TypeOK
  <2>2. UNCHANGED <<status, marker, charged, refunded, cost, events, unlogged, faults, runs>>
    BY <1>1 DEF ChargeCheck, ChargeRefused, taskRows, creditRows, bounds
  <2>3. Net(t)' = Net(t)
    BY <2>2 DEF Net
  <2>. QED
    BY <2>1, <2>2, <2>3 DEF TaskInv, Bill, Told, Attempted, Traced, Before, Charging
<1>2. CASE Hold(t)
  <2>1. /\ pc[t] = "hold" /\ pc'[t] = "holdLog" /\ charged'[t] = charged[t] + Estimate
        /\ unlogged'[t] = -Estimate
        /\ UNCHANGED <<status, marker, refunded, cost, events, faults, runs>>
    BY <1>2 DEF Hold, TypeOK, taskRows, bounds
  <2>2. Net(t)' = Net(t) + Estimate
    BY <2>1, TaskRunAssumption DEF Net, TypeOK
  <2>3. Bill(t)' /\ Told(t)' /\ Attempted(t)'
    BY <2>1 DEF TaskInv, Bill, Told, Attempted, Before, Charging
  <2>4. Traced(t)'
    BY <2>1, <2>2, TaskRunAssumption DEF TaskInv, Traced, Net, TypeOK
  <2>. QED
    BY <2>3, <2>4 DEF TaskInv
<1>. QED
  BY <1>1, <1>2

LEMMA LoggedBill ==
  ASSUME OnceAssumed, TypeOK, TypeOK', NEW t \in Tasks, TaskInv(t),
         NEW p \in Points, NEW q \in Points, Logged(t, p, q),
         <<p, q>> \in {<<"holdLog", "start">>, <<"startLog", "worker">>, <<"reconcileLog", "finish">>,
                       <<"finishLog", "closed">>, <<"refundLog", "fail">>, <<"failLog", "closed">>}
  PROVE  TaskInv(t)'
<1>1. /\ pc[t] = p /\ pc'[t] = q /\ attempt'[t] = 1
      /\ events'[t] = events[t] + unlogged[t] /\ unlogged'[t] = 0
      /\ UNCHANGED <<status, marker, charged, refunded, cost, faults, runs>>
  BY DEF Logged, Goto, TypeOK, taskRows, creditRows, bounds
<1>2. Net(t)' = Net(t)
  BY <1>1 DEF Net
<1>3. Attempted(t)'
  BY <1>1 DEF Attempted, TypeOK
<1>4. Traced(t)'
  BY <1>1, <1>2 DEF TaskInv, Traced, TypeOK
<1>5. Bill(t)'
  BY <1>1, <1>2 DEF TaskInv, Bill, Before, Charging
<1>6. Told(t)'
  BY <1>1, <1>2 DEF TaskInv, Bill, Told, Before, Charging
<1>. QED
  BY <1>3, <1>4, <1>5, <1>6 DEF TaskInv

LEMMA SetTaskStateBill ==
  ASSUME OnceAssumed, TypeOK, TypeOK', NEW t \in Tasks, TaskInv(t),
         NEW p \in Points, NEW s \in Statuses, NEW q \in Points, SetTaskState(t, p, s, q),
         <<p, s, q>> \in {<<"start", "running", "startLog">>, <<"finish", "done", "finishLog">>,
                          <<"fail", "failed", "failLog">>}
  PROVE  TaskInv(t)'
<1>1. /\ pc[t] = p /\ pc'[t] = q /\ status'[t] = s
      /\ UNCHANGED <<attempt, events, unlogged, marker, charged, refunded, cost, faults, runs>>
  BY DEF SetTaskState, TypeOK, creditRows, bounds
<1>2. Net(t)' = Net(t)
  BY <1>1 DEF Net
<1>. QED
  BY <1>1, <1>2 DEF TaskInv, Bill, Told, Attempted, Traced, Before, Charging

LEMMA WorkerBill ==
  ASSUME OnceAssumed, TypeOK, TypeOK', NEW t \in Tasks, TaskInv(t), WorkerSucceeds(t) \/ WorkerFails(t)
  PROVE  TaskInv(t)'
<1>1. /\ pc[t] = "worker" /\ pc'[t] \in {"reconcile", "refund"} /\ attempt'[t] = 1
      /\ UNCHANGED <<status, events, unlogged, marker, charged, refunded, faults, runs>>
  BY DEF WorkerSucceeds, WorkerFails, Goto, TypeOK, taskRows, creditRows, bounds
<1>2. Net(t)' = Net(t)
  BY <1>1 DEF Net
<1>3. Attempted(t)'
  BY <1>1 DEF Attempted, TypeOK
<1>. QED
  BY <1>1, <1>2, <1>3 DEF TaskInv, Bill, Told, Traced, Before, Charging

LEMMA ReconcileBill ==
  ASSUME OnceAssumed, TypeOK, TypeOK', NEW t \in Tasks, TaskInv(t), AlreadyReconciled(t) \/ Reconcile(t)
  PROVE  TaskInv(t)'
<1>1. CASE AlreadyReconciled(t)
  <2>1. /\ pc[t] = "reconcile" /\ marker[t] /\ pc'[t] = "finish" /\ attempt'[t] = 1
        /\ UNCHANGED <<status, events, unlogged, marker, charged, refunded, cost, faults, runs>>
    BY <1>1 DEF AlreadyReconciled, Reconciled, Goto, TypeOK, taskRows, creditRows, bounds
  <2>2. Net(t)' = Net(t)
    BY <2>1 DEF Net
  <2>3. Attempted(t)'
    BY <2>1 DEF Attempted, TypeOK
  <2>. QED
    BY <2>1, <2>2, <2>3 DEF TaskInv, Bill, Told, Traced, Before, Charging
<1>2. CASE Reconcile(t)
  <2>. DEFINE adj == charged[t] - cost[t]
              extra == IF adj < 0 THEN -adj ELSE 0
  <2>1. /\ pc[t] = "reconcile" /\ ~marker[t] /\ pc'[t] = "reconcileLog" /\ marker'[t]
        /\ UNCHANGED <<status, attempt, events, cost, faults, runs>>
    BY <1>2 DEF Reconcile, Reconciled, TypeOK, taskRows, bounds
  <2>2. refunded'[t] = refunded[t] + adj + extra /\ charged'[t] = charged[t] + extra
        /\ unlogged'[t] = Announced(adj)
    BY <1>2 DEF Reconcile, Adjustment, TypeOK
  <2>3. refunded[t] = 0
    BY <2>1 DEF TaskInv, Bill
  <2>4. /\ charged[t] \in Nat /\ cost[t] \in Nat /\ adj \in Int /\ extra \in Int
        /\ events[t] \in Int /\ Announced(adj) = adj
    BY DEF TypeOK, Announced
  <2>5. Net(t)' = cost[t] /\ Net(t) = charged[t]
    <3>. HIDE DEF extra
    <3>1. Net(t)' = charged'[t] - refunded'[t] /\ Net(t) = charged[t] - refunded[t]
      BY DEF Net
    <3>. QED
      BY <2>2, <2>3, <2>4, <3>1
  <2>6. Bill(t)' /\ Told(t)' /\ Attempted(t)'
    BY <2>1, <2>5 DEF TaskInv, Bill, Told, Attempted, Before, Charging
  <2>7. Traced(t)'
    <3>1. ASSUME faults = 0 PROVE events[t] = -charged[t]
      BY <2>1, <2>4, <2>5, <3>1 DEF TaskInv, Traced, TypeOK
    <3>2. faults = 0 => events'[t] + unlogged'[t] = -cost[t]
      BY <2>1, <2>2, <2>4, <3>1
    <3>. QED
      BY <2>1, <2>5, <3>2 DEF Traced
  <2>. QED
    BY <2>6, <2>7 DEF TaskInv
<1>. QED
  BY <1>1, <1>2

LEMMA RefundBill ==
  ASSUME OnceAssumed, TypeOK, TypeOK', NEW t \in Tasks, TaskInv(t), NothingDue(t) \/ Refund(t)
  PROVE  TaskInv(t)'
<1>0. Net(t) = Due(t) /\ Net(t) \in Int /\ refunded[t] \in Nat /\ charged[t] \in Nat
  BY DEF Net, Due, TypeOK
<1>1. CASE NothingDue(t)
  <2>1. /\ pc[t] = "refund" /\ pc'[t] = "fail" /\ attempt'[t] = 1
        /\ UNCHANGED <<status, events, unlogged, marker, charged, refunded, cost, faults, runs>>
    BY <1>1 DEF NothingDue, Goto, TypeOK, taskRows, creditRows, bounds
  <2>2. Net(t) = 0 /\ Net(t)' = Net(t)
    BY <1>0, <1>1, <2>1 DEF NothingDue, TaskInv, Bill, Net
  <2>3. Attempted(t)'
    BY <2>1 DEF Attempted, TypeOK
  <2>. QED
    BY <2>1, <2>2, <2>3 DEF TaskInv, Bill, Told, Traced, Before, Charging
<1>2. CASE Refund(t)
  <2>1. /\ pc[t] = "refund" /\ pc'[t] = "refundLog"
        /\ refunded'[t] = refunded[t] + Due(t) /\ unlogged'[t] = Due(t)
        /\ UNCHANGED <<status, attempt, events, marker, charged, cost, faults, runs>>
    BY <1>2 DEF Refund, TypeOK, taskRows, bounds
  <2>2. Net(t)' = 0
    BY <1>0, <2>1 DEF Net, Due
  <2>3. Bill(t)' /\ Told(t)' /\ Attempted(t)'
    BY <2>1, <2>2 DEF TaskInv, Bill, Told, Attempted, Before, Charging
  <2>4. Traced(t)'
    BY <1>0, <2>1, <2>2 DEF TaskInv, Traced, TypeOK
  <2>. QED
    BY <2>3, <2>4 DEF TaskInv
<1>. QED
  BY <1>1, <1>2

LEMMA RunTaskBill ==
  ASSUME OnceAssumed, TypeOK, TypeOK', NEW t \in Tasks, TaskInv(t), RunTask(t)
  PROVE  TaskInv(t)'
<1>1. \A p \in {"holdLog", "start", "startLog", "worker", "reconcileLog", "finish", "finishLog",
                "closed", "refundLog", "fail", "failLog"} : p \in Points
  BY DEF Points
<1>2. {"running", "done", "failed"} \subseteq Statuses
  BY DEF Statuses
<1>3. CASE ChargeCheck(t) \/ ChargeRefused(t) \/ Hold(t)
  BY <1>3, ChargeBill
<1>4. CASE Logged(t, "holdLog", "start") \/ Logged(t, "startLog", "worker")
           \/ Logged(t, "reconcileLog", "finish") \/ Logged(t, "finishLog", "closed")
           \/ Logged(t, "refundLog", "fail") \/ Logged(t, "failLog", "closed")
  BY <1>1, <1>4, LoggedBill
<1>5. CASE SetTaskState(t, "start", "running", "startLog")
           \/ SetTaskState(t, "finish", "done", "finishLog") \/ SetTaskState(t, "fail", "failed", "failLog")
  BY <1>1, <1>2, <1>5, SetTaskStateBill
<1>6. CASE WorkerSucceeds(t) \/ WorkerFails(t) \/ AlreadyReconciled(t) \/ Reconcile(t)
           \/ NothingDue(t) \/ Refund(t)
  BY <1>6, WorkerBill, ReconcileBill, RefundBill
<1>. QED
  BY <1>3, <1>4, <1>5, <1>6 DEF RunTask

\* A start is the only one of its task.
LEMMA StartBill ==
  ASSUME OnceAssumed, TypeOK, TypeOK', NEW t \in Tasks, TaskInv(t), StartTaskRun(t)
  PROVE  TaskInv(t)'
<1>1. runs[t] = 0
  <2>1. runs[t] < MaxRuns /\ runs[t] \in Nat /\ MaxRuns \in Nat /\ MaxRuns <= 1
    BY TaskRunAssumption DEF StartTaskRun, OnceAssumed, TypeOK
  <2>. QED
    BY <2>1
<1>2. /\ pc[t] = "closed" /\ pc'[t] = "charge" /\ runs'[t] = 1
      /\ UNCHANGED <<status, events, unlogged, marker, charged, refunded, cost, faults>>
  BY <1>1 DEF StartTaskRun, TypeOK, taskRows, creditRows
<1>3. Net(t)' = Net(t)
  BY <1>2 DEF Net
<1>. QED
  BY <1>1, <1>2, <1>3 DEF TaskInv, Bill, Told, Attempted, Traced, Before, Charging

\* Only its own steps touch the run and the credit rows of a task.
LEMMA OtherBill ==
  ASSUME TypeOK, TypeOK', NEW t \in Tasks, RunTask(t) \/ Fault(t) \/ StartTaskRun(t),
         NEW u \in Tasks, u # t, TaskInv(u)
  PROVE  TaskInv(u)'
<1>1. faults' >= faults
  <2>1. CASE Fault(t)
    BY <2>1 DEF Fault, TypeOK
  <2>2. CASE RunTask(t) \/ StartTaskRun(t)
    BY <2>2 DEF RunTask, ChargeCheck, ChargeRefused, Hold, Logged, SetTaskState, WorkerSucceeds,
                WorkerFails, AlreadyReconciled, Reconcile, NothingDue, Refund, StartTaskRun, bounds, TypeOK
  <2>. QED
    BY <2>1, <2>2
<1>2. CASE Fault(t) \/ ChargeRefused(t)
  <2>1. UNCHANGED <<status[u], runs[u], marker[u], charged[u], refunded[u], cost[u], events[u], unlogged[u]>>
    BY <1>2 DEF Fault, ChargeRefused, taskRows, creditRows, bounds, TypeOK
  <2>2. UNCHANGED <<pc[u], attempt[u]>>
    BY <1>2 DEF Fault, ChargeRefused, AttemptFails, Retry, Goto, TypeOK
  <2>. QED
    BY <1>1, <2>1, <2>2, SameBill
<1>3. CASE ChargeCheck(t) \/ Hold(t) \/ Reconcile(t) \/ Refund(t)
           \/ \E p, q \in Points, s \in Statuses : SetTaskState(t, p, s, q)
  BY <1>1, <1>3, SameBill
  DEF ChargeCheck, Hold, Reconcile, Refund, SetTaskState, taskRows, creditRows, bounds, TypeOK
<1>4. CASE WorkerSucceeds(t) \/ WorkerFails(t) \/ AlreadyReconciled(t) \/ NothingDue(t)
           \/ \E p, q \in Points : Logged(t, p, q)
  BY <1>1, <1>4, SameBill
  DEF WorkerSucceeds, WorkerFails, AlreadyReconciled, NothingDue, Logged, Goto, taskRows, creditRows, bounds, TypeOK
<1>5. CASE StartTaskRun(t)
  BY <1>1, <1>5, SameBill DEF StartTaskRun, taskRows, creditRows, TypeOK
<1>. QED
  BY <1>2, <1>3, <1>4, <1>5 DEF RunTask, Points, Statuses

LEMMA BillStep == ASSUME OnceAssumed, TypeOK, TypeOK', BillInv, [Next]_vars PROVE BillInv'
<1>1. ASSUME NEW t \in Tasks, RunTask(t) \/ Fault(t) \/ StartTaskRun(t) PROVE BillInv'
  <2>1. faults' <= MaxFaults
    <3>1. CASE Fault(t)
      BY <3>1, TaskRunAssumption DEF Fault, TypeOK
    <3>2. CASE RunTask(t) \/ StartTaskRun(t)
      BY <3>2 DEF BillInv, RunTask, ChargeCheck, ChargeRefused, Hold, Logged, SetTaskState, WorkerSucceeds,
                  WorkerFails, AlreadyReconciled, Reconcile, NothingDue, Refund, StartTaskRun, bounds
    <3>. QED
      BY <1>1, <3>1, <3>2
  <2>2. TaskInv(t)'
    BY <1>1, FaultBill, RunTaskBill, StartBill DEF BillInv
  <2>3. \A u \in Tasks : u # t => TaskInv(u)'
    BY <1>1, OtherBill DEF BillInv
  <2>. QED
    BY <2>1, <2>2, <2>3 DEF BillInv
<1>2. ASSUME UNCHANGED <<creditRows, runState, bounds>>,
             \A u \in Tasks : status'[u] = status[u] \/
               (status[u] \notin {"running", "done"} /\ status'[u] \in {"pending", "queued", "deleted"})
      PROVE  BillInv'
  BY <1>2, EditBill DEF BillInv, bounds
<1>3. ASSUME NEW t \in Tasks, EditTask(t) PROVE BillInv'
  BY <1>2, <1>3 DEF EditTask, CreateTask, PatchTask, Locked, TypeOK
<1>4. ASSUME NEW h \in Heartbeats, HeartbeatStart(h) PROVE BillInv'
  BY <1>2, <1>4 DEF HeartbeatStart, TypeOK
<1>5. ASSUME NEW h \in Heartbeats, HeartbeatStep(h) PROVE BillInv'
  <2>1. CASE PickTask(h) \/ HeartbeatEnd(h) \/ ChildRefused(h)
    BY <1>2, <2>1 DEF PickTask, HeartbeatEnd, ChildRefused, taskRows
  <2>2. CASE StartChild(h)
    BY <1>1, <2>2 DEF StartChild, TypeOK
  <2>. QED
    BY <1>5, <2>1, <2>2 DEF HeartbeatStep
<1>6. ASSUME NEW c \in Companies, NEW a \in BOOLEAN, SetActive(c, a) PROVE BillInv'
  BY <1>2, <1>6 DEF SetActive, taskRows
<1>7. CASE GrantCredits \/ UtcMidnight
  <2>1. /\ UNCHANGED <<status, pc, attempt, runs, marker, charged, refunded, cost, events, unlogged, faults>>
    BY <1>7 DEF GrantCredits, UtcMidnight, taskRows, runState
  <2>. QED
    BY <2>1, SameBill DEF BillInv, TypeOK
<1>8. CASE UNCHANGED vars
  BY <1>2, <1>8 DEF vars, taskRows
<1>. QED
  BY <1>1, <1>3, <1>4, <1>5, <1>6, <1>7, <1>8 DEF Next, RunNow

LEMMA BillInit == ASSUME Init PROVE BillInv
<1>1. \A t \in Tasks : /\ status[t] = "none" /\ pc[t] = "closed" /\ runs[t] = 0 /\ ~marker[t]
                       /\ charged[t] = 0 /\ refunded[t] = 0 /\ events[t] = 0 /\ unlogged[t] = 0
  BY DEF Init
<1>2. \A t \in Tasks : Net(t) = 0
  BY <1>1 DEF Net
<1>3. faults = 0 /\ faults <= MaxFaults
  BY TaskRunAssumption DEF Init
<1>. QED
  BY <1>1, <1>2, <1>3 DEF BillInv, TaskInv, Bill, Told, Attempted, Traced, Before, Charging

LEMMA OnceInit == ASSUME OnceAssumed, Init PROVE TypeOK /\ BillInv
BY TaskRunAssumption, SomeTask, BillInit DEF Init, TypeOK, Statuses, Points

LEMMA BillKeeps == ASSUME OnceAssumed, TypeOK, BillInv, [Next]_vars PROVE (TypeOK /\ BillInv)'
BY TypeOKStep, BillStep

\* reconcileTask and refundTask: a task that is run once pays what its worker cost when it is
\* done, and nothing when it failed, every hold of every retried charge included; and while
\* nothing has failed the ledger's credit events add up to its rows.
THEOREM BilledOnce == ASSUME OnceAssumed PROVE Spec => []Billed
<1>1. TypeOK /\ BillInv => Billed
  <2>. SUFFICES ASSUME TypeOK, BillInv PROVE Billed
    OBVIOUS
  <2>1. ASSUME NEW t \in Tasks, pc[t] = "closed"
        PROVE  /\ status[t] = "done" => charged[t] - refunded[t] = cost[t]
               /\ status[t] = "failed" => charged[t] = refunded[t]
               /\ faults = 0 => events[t] = refunded[t] - charged[t]
    <3>1. /\ charged[t] \in Nat /\ refunded[t] \in Nat /\ events[t] \in Int /\ unlogged[t] \in Int
          /\ Net(t) = charged[t] - refunded[t]
      BY DEF TypeOK, Net
    <3>2. /\ status[t] = "done" => Net(t) = cost[t]
          /\ status[t] = "failed" => Net(t) = 0
          /\ faults = 0 => events[t] + unlogged[t] = -Net(t) /\ unlogged[t] = 0
      BY <2>1 DEF BillInv, TaskInv, Told, Traced
    <3>. QED
      BY <3>1, <3>2
  <2>. QED
    BY <2>1 DEF Billed, NetChargeIsCost, MadeWhole, LedgerMatchesWallet
<1>. QED
  BY OnceInit, BillKeeps, <1>1, PTL DEF Spec

----------------------------------------------------------------------------
(***************************************************************************)
(* TaskRun implements TaskBilling: what the rows of a task say is one of   *)
(* the four phases, and a step of any actor moves it as TaskBilling allows *)
(* or not at all. With an estimate of 0 a hold could not be told from none.*)
(***************************************************************************)
PhaseInv(t) ==
  /\ pc[t] \in {"holdLog", "start", "startLog", "worker"} => charged[t] # 0
  /\ pc[t] = "reconcile" /\ ~marker[t] => charged[t] # 0 /\ cost[t] \in Costs
  /\ pc[t] \in {"refund", "refundLog"} => ~marker[t]

LEMMA PhaseRun ==
  ASSUME OnceAssumed, Estimate # 0, TypeOK, NEW t \in Tasks, TaskInv(t), PhaseInv(t),
         RunTask(t) \/ Fault(t) \/ StartTaskRun(t)
  PROVE  PhaseInv(t)'
<1>1. CASE Fault(t)
  <2>1. UNCHANGED <<marker, charged, cost>>
    BY <1>1 DEF Fault, creditRows
  <2>2. CASE pc[t] \in Charging
    <3>1. pc'[t] \in {"charge", "closed"}
      BY <1>1, <2>2 DEF Fault, AttemptFails, Retry, Goto, Restart, Caught, TypeOK, Charging
    <3>. QED
      BY <3>1 DEF PhaseInv
  <2>3. CASE pc[t] \notin Charging
    <3>1. Retry(t)
      BY <1>1, <2>3, FaultRetries
    <3>2. pc'[t] = Restart(pc[t]) /\ pc[t] \in Points \ {"closed", "worker"}
      BY <1>1, <3>1 DEF Fault, Retry, TypeOK
    <3>3. pc[t] = "reconcileLog" => marker[t]
      BY DEF TaskInv, Bill
    <3>. QED
      BY <2>1, <2>3, <3>2, <3>3 DEF PhaseInv, Restart, Points, Charging
  <2>. QED
    BY <2>2, <2>3
<1>2. CASE ChargeCheck(t) \/ ChargeRefused(t) \/ StartTaskRun(t)
  <2>1. pc'[t] \in {"hold", "charge", "closed"}
    BY <1>2 DEF ChargeCheck, ChargeRefused, StartTaskRun, AttemptFails, Retry, Goto, Restart, Caught, TypeOK
  <2>. QED
    BY <2>1 DEF PhaseInv
<1>3. CASE Hold(t)
  <2>1. pc'[t] = "holdLog" /\ charged'[t] = charged[t] + Estimate
    BY <1>3 DEF Hold, TypeOK
  <2>2. charged'[t] # 0
    BY <2>1, TaskRunAssumption DEF TypeOK
  <2>. QED
    BY <2>1, <2>2 DEF PhaseInv
<1>4. ASSUME NEW p \in Points, NEW q \in Points, Logged(t, p, q),
             q \in {"closed", "finish", "fail"} \/ <<p, q>> \in {<<"holdLog", "start">>, <<"startLog", "worker">>}
      PROVE  PhaseInv(t)'
  <2>1. pc[t] = p /\ pc'[t] = q /\ charged' = charged
    BY <1>4 DEF Logged, Goto, TypeOK, creditRows
  <2>. QED
    BY <1>4, <2>1 DEF PhaseInv
<1>5. ASSUME NEW p \in Points, NEW q \in Points, NEW s \in Statuses, SetTaskState(t, p, s, q),
             q \in {"finishLog", "failLog"} \/ <<p, q>> = <<"start", "startLog">>
      PROVE  PhaseInv(t)'
  <2>1. pc[t] = p /\ pc'[t] = q /\ charged' = charged
    BY <1>5 DEF SetTaskState, TypeOK, creditRows
  <2>. QED
    BY <1>5, <2>1 DEF PhaseInv
<1>6. CASE WorkerSucceeds(t) \/ WorkerFails(t)
  <2>1. pc[t] = "worker" /\ ~marker[t]
    BY <1>6 DEF WorkerSucceeds, WorkerFails, TaskInv, Bill, Before
  <2>2. /\ UNCHANGED <<charged, marker>>
        /\ \/ pc'[t] = "reconcile" /\ cost'[t] \in Costs
           \/ pc'[t] = "refund"
    BY <1>6 DEF WorkerSucceeds, WorkerFails, Goto, TypeOK, creditRows
  <2>. QED
    BY <2>1, <2>2 DEF PhaseInv
<1>7. CASE AlreadyReconciled(t) \/ Reconcile(t) \/ NothingDue(t)
  <2>1. pc'[t] \in {"finish", "reconcileLog", "fail"}
    BY <1>7 DEF AlreadyReconciled, Reconcile, NothingDue, Goto, TypeOK
  <2>. QED
    BY <2>1 DEF PhaseInv
<1>8. CASE Refund(t)
  <2>1. pc[t] = "refund" /\ pc'[t] = "refundLog" /\ marker' = marker
    BY <1>8 DEF Refund, TypeOK
  <2>. QED
    BY <2>1 DEF PhaseInv
<1>. QED
  BY <1>1, <1>2, <1>3, <1>4, <1>5, <1>6, <1>7, <1>8 DEF RunTask, Points, Statuses

\* What leaves the rows of a task alone, its cost at least once it has been reconciled,
\* leaves its phase alone.
LEMMA SamePhase ==
  ASSUME NEW u \in Tasks, UNCHANGED <<marker[u], charged[u], refunded[u]>>,
         marker[u] => cost'[u] = cost[u]
  PROVE  Phase(u)' = Phase(u)
BY DEF Phase

LEMMA BillingUnmoved ==
  ASSUME \A u \in Tasks : Phase(u)' = Phase(u) /\ UNCHANGED <<charged[u], refunded[u]>>
  PROVE  UNCHANGED Billing!vars
BY DEF Billing!vars

\* A task's step that changes its phase and net, and no other task's rows, is TaskBilling's.
LEMMA BillingMoved ==
  ASSUME TypeOK, NEW t \in Tasks, NEW p, NEW n, Phase(t)' = p, charged'[t] - refunded'[t] = n,
         \A u \in Tasks \ {t} : UNCHANGED <<marker[u], charged[u], refunded[u], cost[u]>>
  PROVE  Billing!Becomes(t, p, n)
<1>1. \A u \in Tasks \ {t} : Phase(u)' = Phase(u)
  BY SamePhase
<1>. QED
  BY <1>1 DEF Billing!Becomes

LEMMA BillingStep ==
  ASSUME OnceAssumed, Estimate # 0, TypeOK, NEW t \in Tasks, TaskInv(t), PhaseInv(t),
         RunTask(t) \/ Fault(t) \/ StartTaskRun(t)
  PROVE  Billing!Next \/ UNCHANGED Billing!vars
<1>1. CASE Hold(t)
  <2>1. ~marker[t] /\ refunded[t] = 0 /\ charged[t] \in Nat /\ Estimate \in Nat
    BY <1>1, TaskRunAssumption DEF Hold, TaskInv, Bill, Before, Charging, TypeOK
  <2>2. /\ charged'[t] = charged[t] + Estimate /\ marker' = marker /\ refunded' = refunded /\ cost' = cost
        /\ \A u \in Tasks \ {t} : charged'[u] = charged[u]
    BY <1>1 DEF Hold, TypeOK
  <2>3. Phase(t) \in {"none", "held"}
    BY <2>1 DEF Phase
  <2>4. Phase(t)' = "held"
    BY <2>1, <2>2 DEF Phase
  <2>5. PICK n : n = (charged[t] - refunded[t]) + Estimate
    OBVIOUS
  <2>6. Billing!Becomes(t, "held", n)
    <3>1. charged'[t] - refunded'[t] = n
      BY <2>1, <2>2, <2>5
    <3>2. \A u \in Tasks \ {t} : UNCHANGED <<marker[u], charged[u], refunded[u], cost[u]>>
      BY <2>2
    <3>. QED
      BY <2>4, <3>1, <3>2, BillingMoved
  <2>7. Billing!Hold(t)
    BY <2>3, <2>5, <2>6 DEF Billing!Hold, Billing!Becomes
  <2>. QED
    BY <2>7 DEF Billing!Next
<1>2. CASE Reconcile(t)
  <2>1. ~marker[t] /\ refunded[t] = 0 /\ charged[t] # 0 /\ cost[t] \in Costs
    BY <1>2 DEF Reconcile, Reconciled, TaskInv, Bill, PhaseInv
  <2>. DEFINE adj == charged[t] - cost[t]
              extra == IF adj < 0 THEN -adj ELSE 0
  <2>2. /\ charged'[t] = charged[t] + extra /\ refunded'[t] = refunded[t] + adj + extra
        /\ marker'[t] /\ cost' = cost
        /\ \A u \in Tasks \ {t} : UNCHANGED <<marker[u], charged[u], refunded[u]>>
    BY <1>2 DEF Reconcile, Adjustment, TypeOK
  <2>3. charged'[t] - refunded'[t] = cost[t]
    <3>1. charged[t] \in Int /\ cost[t] \in Int /\ adj \in Int /\ extra \in Int
      BY DEF TypeOK
    <3>. HIDE DEF extra
    <3>. QED
      BY <2>1, <2>2, <3>1
  <2>4. Phase(t) = "held" /\ Phase(t)' = "settled"
    BY <2>1, <2>2, <2>3 DEF Phase
  <2>5. PICK c \in Costs : c = cost[t]
    BY <2>1
  <2>6. Billing!Becomes(t, "settled", c)
    <3>1. charged'[t] - refunded'[t] = c
      BY <2>3, <2>5
    <3>2. \A u \in Tasks \ {t} : UNCHANGED <<marker[u], charged[u], refunded[u], cost[u]>>
      BY <2>2
    <3>. QED
      BY <2>4, <3>1, <3>2, BillingMoved
  <2>7. Billing!Settle(t)
    BY <2>4, <2>5, <2>6 DEF Billing!Settle
  <2>. QED
    BY <2>7 DEF Billing!Next
<1>3. CASE Refund(t)
  <2>1. /\ pc[t] = "refund" /\ charged[t] - refunded[t] > 0 /\ refunded'[t] = refunded[t] + (charged[t] - refunded[t])
        /\ UNCHANGED <<charged, marker, cost>> /\ \A u \in Tasks \ {t} : refunded'[u] = refunded[u]
    BY <1>3 DEF Refund, Due, TypeOK
  <2>2. ~marker[t] /\ charged[t] \in Nat /\ refunded[t] \in Nat
    BY <2>1 DEF PhaseInv, TypeOK
  <2>3. refunded[t] = 0 /\ charged[t] # 0
    BY <2>1, <2>2 DEF TaskInv, Bill, Net
  <2>4. charged'[t] - refunded'[t] = 0 /\ refunded'[t] # 0
    BY <2>1, <2>2, <2>3
  <2>5. Phase(t) = "held" /\ Phase(t)' = "refunded"
    BY <2>1, <2>2, <2>3, <2>4 DEF Phase
  <2>6. Billing!Becomes(t, "refunded", 0)
    BY <2>1, <2>4, <2>5, BillingMoved
  <2>. QED
    BY <2>5, <2>6 DEF Billing!Next, Billing!Refund
<1>4. CASE WorkerSucceeds(t)
  <2>1. ~marker[t] /\ UNCHANGED <<marker, charged, refunded>> /\ \A u \in Tasks \ {t} : cost'[u] = cost[u]
    BY <1>4 DEF WorkerSucceeds, TaskInv, Bill, Before, creditRows, TypeOK
  <2>. QED
    BY <2>1, SamePhase, BillingUnmoved
<1>5. CASE UNCHANGED <<marker, charged, refunded, cost>>
  BY <1>5, SamePhase, BillingUnmoved
<1>. QED
  BY <1>1, <1>2, <1>3, <1>4, <1>5
  DEF RunTask, Fault, StartTaskRun, ChargeCheck, ChargeRefused, Logged, SetTaskState, WorkerFails,
      AlreadyReconciled, NothingDue, creditRows

LEMMA OtherPhase ==
  ASSUME TypeOK, NEW t \in Tasks, RunTask(t) \/ Fault(t) \/ StartTaskRun(t), NEW u \in Tasks, u # t, PhaseInv(u)
  PROVE  PhaseInv(u)'
<1>1. CASE Fault(t) \/ ChargeRefused(t)
  BY <1>1 DEF Fault, ChargeRefused, AttemptFails, Retry, Goto, creditRows, TypeOK, PhaseInv
<1>2. CASE ChargeCheck(t) \/ Hold(t) \/ Reconcile(t) \/ Refund(t) \/ StartTaskRun(t)
           \/ \E p, q \in Points, s \in Statuses : SetTaskState(t, p, s, q)
  BY <1>2 DEF ChargeCheck, Hold, Reconcile, Refund, StartTaskRun, SetTaskState, creditRows, TypeOK, PhaseInv
<1>3. CASE WorkerSucceeds(t) \/ WorkerFails(t) \/ AlreadyReconciled(t) \/ NothingDue(t)
           \/ \E p, q \in Points : Logged(t, p, q)
  BY <1>3 DEF WorkerSucceeds, WorkerFails, AlreadyReconciled, NothingDue, Logged, Goto, creditRows, TypeOK, PhaseInv
<1>. QED
  BY <1>1, <1>2, <1>3 DEF RunTask, Points, Statuses

PhasesInv == TypeOK /\ BillInv /\ \A t \in Tasks : PhaseInv(t)

LEMMA PhasesStep ==
  ASSUME OnceAssumed, Estimate # 0, PhasesInv, [Next]_vars
  PROVE  PhasesInv' /\ (Billing!Next \/ UNCHANGED Billing!vars)
<1>1. (TypeOK /\ BillInv)'
  BY BillKeeps DEF PhasesInv
<1>2. ASSUME NEW t \in Tasks, RunTask(t) \/ Fault(t) \/ StartTaskRun(t)
      PROVE  (\A u \in Tasks : PhaseInv(u)') /\ (Billing!Next \/ UNCHANGED Billing!vars)
  BY <1>2, PhaseRun, OtherPhase, BillingStep DEF PhasesInv, BillInv
<1>3. ASSUME UNCHANGED <<pc, marker, charged, refunded, cost>>
      PROVE  (\A u \in Tasks : PhaseInv(u)') /\ (Billing!Next \/ UNCHANGED Billing!vars)
  BY <1>3, SamePhase, BillingUnmoved DEF PhasesInv, PhaseInv
<1>4. CASE \E t \in Tasks : RunTask(t) \/ Fault(t) \/ RunNow(t)
  BY <1>1, <1>2, <1>4 DEF RunNow, PhasesInv
<1>5. CASE \E h \in Heartbeats : StartChild(h)
  BY <1>1, <1>2, <1>5 DEF StartChild, PhasesInv, TypeOK
<1>6. CASE \/ \E t \in Tasks : EditTask(t)
           \/ \E h \in Heartbeats : HeartbeatStart(h) \/ PickTask(h) \/ HeartbeatEnd(h) \/ ChildRefused(h)
           \/ \E c \in Companies, a \in BOOLEAN : SetActive(c, a)
           \/ GrantCredits \/ UtcMidnight \/ UNCHANGED vars
  BY <1>1, <1>3, <1>6
  DEF EditTask, CreateTask, PatchTask, HeartbeatStart, PickTask, HeartbeatEnd, ChildRefused, SetActive,
      GrantCredits, UtcMidnight, vars, creditRows, runState, PhasesInv
<1>. QED
  BY <1>4, <1>5, <1>6 DEF Next, HeartbeatStep

\* The TaskRun workflow implements TaskBilling: the bill of a task that is run once is held, settles at
\* the cost or is given back, whatever is retried, edited or dispatched beside it.
THEOREM BillingImplemented == ASSUME OnceAssumed, Estimate # 0 PROVE Spec => BillsOnce
<1>1. Init => PhasesInv /\ Billing!Init
  <2>. SUFFICES ASSUME Init PROVE PhasesInv /\ Billing!Init
    OBVIOUS
  <2>1. TypeOK /\ BillInv
    BY OnceInit
  <2>2. \A t \in Tasks : pc[t] = "closed" /\ ~marker[t] /\ charged[t] = 0 /\ refunded[t] = 0
    BY DEF Init
  <2>3. \A t \in Tasks : Phase(t) = "none" /\ charged[t] - refunded[t] = 0 /\ PhaseInv(t)
    BY <2>2 DEF Phase, PhaseInv
  <2>. QED
    BY <2>1, <2>3 DEF PhasesInv, Billing!Init
<1>2. PhasesInv /\ [Next]_vars => PhasesInv' /\ [Billing!Next]_(Billing!vars)
  BY PhasesStep
<1>. QED
  BY <1>1, <1>2, PTL DEF Spec, BillsOnce, Billing!Spec

----------------------------------------------------------------------------
(* What the schedule's heartbeats may start.                               *)

\* One scheduled heartbeat per company, and nobody presses Run, which bypasses the limits.
ScheduleOnly == ~OwnerRuns /\ \A g, h \in Heartbeats : BeatOf[g] = BeatOf[h] => g = h
\* Fewer failures than an activity has attempts.
FewFaults == MaxFaults < MaxAttempts

Committed(h) == beat[h] \in {"picked", "waiting"}

Driven(t) == pc[t] # "closed" => \E h \in Heartbeats : beat[h] = "waiting" /\ picked[h] = t
OwnTask(h) == Committed(h) => CompanyOf[picked[h]] = BeatOf[h]
Alone(h) ==
  Committed(h) => \A t \in Tasks : status[t] = "running" /\ CompanyOf[t] = BeatOf[h] => picked[h] = t
OneRunning ==
  \A t, u \in Tasks :
    status[t] = "running" /\ status[u] = "running" /\ CompanyOf[t] = CompanyOf[u] => t = u
Room == \A c \in Companies : Cardinality(StartedTodayIn(c)) <= DailyTaskCap
RoomLeft(h) ==
  /\ beat[h] = "picked" => Cardinality(StartedTodayIn(BeatOf[h])) < DailyTaskCap
  /\ beat[h] = "waiting" => Cardinality(StartedTodayIn(BeatOf[h]) \cup {picked[h]}) <= DailyTaskCap

DrivenInv == (\A t \in Tasks : Driven(t)) /\ \A h \in Heartbeats : OwnTask(h)
AloneInv == OneRunning /\ \A h \in Heartbeats : Alone(h)
RoomInv == Room /\ \A h \in Heartbeats : RoomLeft(h)

----------------------------------------------------------------------------
\* What a step of TaskRun(t) does to the heartbeats and the rows.
MarkedAs(t) ==
  \/ UNCHANGED taskRows
  \/ /\ startedToday' = startedToday
     /\ \E s \in {"done", "failed"} : status' = [status EXCEPT ![t] = s]
  \/ /\ startedToday' = [startedToday EXCEPT ![t] = TRUE]
     /\ status' = [status EXCEPT ![t] = "running"]
ChildMoved(t) ==
  /\ pc[t] # "closed" /\ picked' = picked
  /\ \A u \in Tasks \ {t} : pc'[u] = pc[u]
  /\ \A h \in Heartbeats :
       \/ beat'[h] = beat[h]
       \/ pc'[t] = "closed" /\ beat[h] = "waiting" /\ picked[h] = t /\ beat'[h] = "dispatch"

LEMMA GotoMoves ==
  ASSUME TypeOK, NEW t \in Tasks, NEW p \in Points, Goto(t, p), pc[t] # "closed"
  PROVE  ChildMoved(t)
BY DEF Goto, ChildMoved, TypeOK

LEMMA FailureMoves ==
  ASSUME TypeOK, NEW t \in Tasks, AttemptFails(t), pc[t] # "closed"
  PROVE  ChildMoved(t)
<1>1. CASE attempt[t] < MaxAttempts
  BY <1>1 DEF AttemptFails, Retry, beats, ChildMoved, TypeOK
<1>2. CASE ~(attempt[t] < MaxAttempts)
  <2>1. Caught(pc[t]) \in Points
    BY DEF Caught, Points
  <2>. QED
    BY <1>2, <2>1, GotoMoves DEF AttemptFails
<1>. QED
  BY <1>1, <1>2

LEMMA MarkMoves ==
  ASSUME TypeOK, NEW t \in Tasks, NEW p \in Points \ {"closed"}, NEW q \in Points \ {"closed"},
         NEW s \in {"running", "done", "failed"}, SetTaskState(t, p, s, q)
  PROVE  ChildMoved(t) /\ MarkedAs(t)
<1>1. ChildMoved(t)
  BY DEF SetTaskState, ChildMoved, beats, TypeOK
<1>2. CASE s = "running"
  <2>1. startedToday' = [startedToday EXCEPT ![t] = TRUE]
    BY <1>2 DEF SetTaskState
  <2>. QED
    BY <1>1, <1>2, <2>1 DEF SetTaskState, MarkedAs
<1>3. CASE s # "running"
  <2>1. startedToday' = [startedToday EXCEPT ![t] = startedToday[t]]
    BY <1>3 DEF SetTaskState, TypeOK
  <2>2. startedToday' = startedToday
    BY <2>1 DEF TypeOK
  <2>. QED
    BY <1>1, <1>3, <2>2 DEF SetTaskState, MarkedAs
<1>. QED
  BY <1>2, <1>3

LEMMA RunMoves ==
  ASSUME TypeOK, NEW t \in Tasks, RunTask(t) \/ Fault(t)
  PROVE  ChildMoved(t) /\ MarkedAs(t)
<1>1. CASE Fault(t) \/ ChargeRefused(t)
  BY <1>1, FailureMoves DEF Fault, ChargeRefused, MarkedAs
<1>2. ASSUME NEW p \in Points \ {"closed"}, NEW q \in Points, Logged(t, p, q)
      PROVE  ChildMoved(t) /\ MarkedAs(t)
  BY <1>2, GotoMoves DEF Logged, MarkedAs
<1>3. CASE ChargeCheck(t) \/ Hold(t) \/ Reconcile(t) \/ Refund(t)
  BY <1>3 DEF ChargeCheck, Hold, Reconcile, Refund, MarkedAs, ChildMoved, beats, taskRows, TypeOK
<1>4. CASE WorkerSucceeds(t) \/ WorkerFails(t) \/ AlreadyReconciled(t) \/ NothingDue(t)
  <2>1. pc[t] # "closed" /\ UNCHANGED taskRows
    BY <1>4 DEF WorkerSucceeds, WorkerFails, AlreadyReconciled, NothingDue
  <2>2. \E p \in Points : Goto(t, p)
    BY <1>4 DEF WorkerSucceeds, WorkerFails, AlreadyReconciled, NothingDue, Points
  <2>. QED
    BY <2>1, <2>2, GotoMoves DEF MarkedAs
<1>. QED
  BY <1>1, <1>2, <1>3, <1>4, MarkMoves DEF RunTask, Points

\* Starting a run, as the heartbeat does: with nobody pressing Run, the only way.
LEMMA StartMoves ==
  ASSUME TypeOK, NEW h \in Heartbeats, StartChild(h)
  PROVE  /\ beat[h] = "picked" /\ beat' = [beat EXCEPT ![h] = "waiting"] /\ picked' = picked
         /\ pc[picked[h]] = "closed" /\ pc' = [pc EXCEPT ![picked[h]] = "charge"]
         /\ UNCHANGED taskRows
BY DEF StartChild, StartTaskRun

\* Everybody else: what edits and midnights may do to the rows.
OthersRows ==
  /\ UNCHANGED <<pc, picked>>
  /\ \A t \in Tasks : status'[t] = status[t] \/
       (status[t] \notin {"running", "done"} /\ status'[t] \in {"pending", "queued", "deleted"})
  /\ startedToday' = startedToday \/ startedToday' = [t \in Tasks |-> FALSE]

LEMMA OthersMove ==
  ASSUME TypeOK, \/ \E t \in Tasks : EditTask(t)
                 \/ \E c \in Companies, a \in BOOLEAN : SetActive(c, a)
                 \/ GrantCredits \/ UtcMidnight \/ UNCHANGED vars
  PROVE  OthersRows /\ beat' = beat
<1>1. CASE \E t \in Tasks : EditTask(t)
  BY <1>1 DEF EditTask, CreateTask, PatchTask, Locked, OthersRows, runState, beats, TypeOK
<1>2. CASE (\E c \in Companies, a \in BOOLEAN : SetActive(c, a)) \/ GrantCredits \/ UNCHANGED vars
  BY <1>2 DEF SetActive, GrantCredits, vars, taskRows, runState, beats, OthersRows
<1>3. CASE UtcMidnight
  BY <1>3 DEF UtcMidnight, runState, beats, OthersRows
<1>. QED
  BY <1>1, <1>2, <1>3

\* The heartbeat's own bookkeeping.
LEMMA BeatMoves ==
  ASSUME TypeOK, NEW h \in Heartbeats, HeartbeatStart(h) \/ HeartbeatEnd(h) \/ ChildRefused(h)
  PROVE  /\ OthersRows /\ startedToday' = startedToday
         /\ \E b \in {"idle", "dispatch"} : beat' = [beat EXCEPT ![h] = b]
         /\ beat[h] # "waiting"
<1>1. CASE HeartbeatStart(h)
  BY <1>1 DEF HeartbeatStart, OthersRows, runState, TypeOK
<1>2. CASE HeartbeatEnd(h) \/ ChildRefused(h)
  BY <1>2 DEF HeartbeatEnd, ChildRefused, OthersRows, runState, taskRows
<1>. QED
  BY <1>1, <1>2

LEMMA PickMoves ==
  ASSUME TypeOK, NEW h \in Heartbeats, PickTask(h)
  PROVE  /\ MayDispatch(BeatOf[h]) /\ beat[h] = "dispatch"
         /\ \E t \in QueuedIn(BeatOf[h]) : picked' = [picked EXCEPT ![h] = t]
         /\ beat' = [beat EXCEPT ![h] = "picked"]
         /\ UNCHANGED <<pc, taskRows>>
BY DEF PickTask, runState

\* Next, by who moves.
LEMMA WhoMoves ==
  ASSUME ~OwnerRuns, [Next]_vars
  PROVE  \/ \E t \in Tasks : RunTask(t) \/ Fault(t)
         \/ \E h \in Heartbeats : PickTask(h) \/ StartChild(h)
         \/ \E h \in Heartbeats : HeartbeatStart(h) \/ HeartbeatEnd(h) \/ ChildRefused(h)
         \/ \/ \E t \in Tasks : EditTask(t)
            \/ \E c \in Companies, a \in BOOLEAN : SetActive(c, a)
            \/ GrantCredits \/ UtcMidnight \/ UNCHANGED vars
BY DEF Next, HeartbeatStep, RunNow

----------------------------------------------------------------------------
LEMMA DrivenStep ==
  ASSUME ScheduleOnly, TypeOK, DrivenInv, [Next]_vars
  PROVE  DrivenInv'
<1>1. ASSUME NEW t \in Tasks, RunTask(t) \/ Fault(t)
      PROVE  DrivenInv'
  <2>1. ChildMoved(t)
    BY <1>1, RunMoves
  <2>2. ASSUME NEW u \in Tasks
        PROVE  Driven(u)'
    <3>1. CASE u = t
      BY <2>1, <3>1 DEF ChildMoved, DrivenInv, Driven
    <3>2. CASE u # t
      BY <2>1, <3>2 DEF ChildMoved, DrivenInv, Driven
    <3>. QED
      BY <3>1, <3>2
  <2>3. \A h \in Heartbeats : OwnTask(h)'
    BY <2>1 DEF ChildMoved, DrivenInv, OwnTask, Committed
  <2>. QED
    BY <2>2, <2>3 DEF DrivenInv
<1>2. ASSUME NEW h \in Heartbeats, PickTask(h)
      PROVE  DrivenInv'
  <2>1. PICK t \in QueuedIn(BeatOf[h]) : picked' = [picked EXCEPT ![h] = t]
    BY <1>2, PickMoves
  <2>2. t \in Tasks /\ CompanyOf[t] = BeatOf[h]
    BY <2>1 DEF QueuedIn
  <2>3. beat[h] = "dispatch" /\ beat' = [beat EXCEPT ![h] = "picked"] /\ pc' = pc
    BY <1>2, PickMoves
  <2>. QED
    BY <2>1, <2>2, <2>3 DEF DrivenInv, Driven, OwnTask, Committed, TypeOK
<1>3. ASSUME NEW h \in Heartbeats, StartChild(h)
      PROVE  DrivenInv'
  <2>1. /\ beat[h] = "picked" /\ beat' = [beat EXCEPT ![h] = "waiting"] /\ picked' = picked
        /\ pc' = [pc EXCEPT ![picked[h]] = "charge"]
    BY <1>3, StartMoves
  <2>2. ASSUME NEW u \in Tasks
        PROVE  Driven(u)'
    <3>1. CASE u = picked[h]
      BY <2>1, <3>1 DEF Driven, TypeOK
    <3>2. CASE u # picked[h]
      BY <2>1, <3>2 DEF DrivenInv, Driven, TypeOK
    <3>. QED
      BY <3>1, <3>2
  <2>3. \A g \in Heartbeats : OwnTask(g)'
    BY <2>1 DEF DrivenInv, OwnTask, Committed, TypeOK
  <2>. QED
    BY <2>2, <2>3 DEF DrivenInv
<1>4. ASSUME NEW h \in Heartbeats, HeartbeatStart(h) \/ HeartbeatEnd(h) \/ ChildRefused(h)
      PROVE  DrivenInv'
  <2>1. pc' = pc /\ picked' = picked /\ beat[h] # "waiting"
    BY <1>4, BeatMoves DEF OthersRows
  <2>2. PICK b \in {"idle", "dispatch"} : beat' = [beat EXCEPT ![h] = b]
    BY <1>4, BeatMoves
  <2>. QED
    BY <2>1, <2>2 DEF DrivenInv, Driven, OwnTask, Committed, TypeOK
<1>5. ASSUME OthersRows, beat' = beat
      PROVE  DrivenInv'
  BY <1>5 DEF OthersRows, DrivenInv, Driven, OwnTask, Committed
<1>. QED
  BY <1>1, <1>2, <1>3, <1>4, <1>5, WhoMoves, OthersMove DEF ScheduleOnly

\* The heartbeat that waits for t is the only one of t's company.
LEMMA OneDriver ==
  ASSUME ScheduleOnly, DrivenInv, NEW t \in Tasks, pc[t] # "closed"
  PROVE  \E h \in Heartbeats :
           /\ beat[h] = "waiting" /\ picked[h] = t /\ BeatOf[h] = CompanyOf[t]
           /\ \A g \in Heartbeats : BeatOf[g] = CompanyOf[t] => g = h
<1>1. PICK h \in Heartbeats : beat[h] = "waiting" /\ picked[h] = t
  BY DEF DrivenInv, Driven
<1>2. BeatOf[h] = CompanyOf[t]
  BY <1>1 DEF DrivenInv, OwnTask, Committed
<1>. QED
  BY <1>1, <1>2 DEF ScheduleOnly

LEMMA AloneStep ==
  ASSUME ScheduleOnly, TypeOK, DrivenInv, AloneInv, [Next]_vars
  PROVE  AloneInv'
<1>1. ASSUME NEW t \in Tasks, RunTask(t) \/ Fault(t)
      PROVE  AloneInv'
  <2>1. ChildMoved(t) /\ MarkedAs(t)
    BY <1>1, RunMoves
  <2>2. PICK h \in Heartbeats : /\ beat[h] = "waiting" /\ picked[h] = t /\ BeatOf[h] = CompanyOf[t]
                                /\ \A g \in Heartbeats : BeatOf[g] = CompanyOf[t] => g = h
    BY <2>1, OneDriver DEF ChildMoved
  <2>3. \A u \in Tasks : status'[u] = "running" => status[u] = "running" \/ u = t
    BY <2>1 DEF MarkedAs, taskRows, TypeOK
  <2>4. \A u \in Tasks : status[u] = "running" /\ CompanyOf[u] = CompanyOf[t] => u = t
    BY <2>2 DEF AloneInv, Alone, Committed
  <2>5. OneRunning'
    BY <2>3, <2>4 DEF AloneInv, OneRunning
  <2>6. ASSUME NEW g \in Heartbeats
        PROVE  Alone(g)'
    <3>1. CASE BeatOf[g] = CompanyOf[t]
      BY <2>1, <2>2, <2>3, <2>4, <3>1 DEF Alone, ChildMoved
    <3>2. CASE BeatOf[g] # CompanyOf[t]
      BY <2>1, <2>3, <3>2 DEF AloneInv, Alone, Committed, ChildMoved
    <3>. QED
      BY <3>1, <3>2
  <2>. QED
    BY <2>5, <2>6 DEF AloneInv
<1>2. ASSUME NEW h \in Heartbeats, PickTask(h)
      PROVE  AloneInv'
  <2>1. status' = status /\ beat' = [beat EXCEPT ![h] = "picked"] /\ RunningIn(BeatOf[h]) = {}
    BY <1>2, PickMoves DEF MayDispatch, taskRows
  <2>2. \A t \in Tasks : ~(status[t] = "running" /\ CompanyOf[t] = BeatOf[h])
    BY <2>1 DEF RunningIn
  <2>3. \A g \in Heartbeats \ {h} : picked'[g] = picked[g] /\ beat'[g] = beat[g]
    BY <1>2, <2>1, PickMoves DEF TypeOK
  <2>4. \A g \in Heartbeats : Alone(g)'
    BY <2>1, <2>2, <2>3 DEF AloneInv, Alone, Committed
  <2>. QED
    BY <2>1, <2>4 DEF AloneInv, OneRunning
<1>3. ASSUME NEW h \in Heartbeats, StartChild(h)
      PROVE  AloneInv'
  <2>1. beat[h] = "picked" /\ beat' = [beat EXCEPT ![h] = "waiting"] /\ picked' = picked /\ status' = status
    BY <1>3, StartMoves DEF taskRows
  <2>. QED
    BY <2>1 DEF AloneInv, OneRunning, Alone, Committed, TypeOK
<1>4. ASSUME NEW h \in Heartbeats, HeartbeatStart(h) \/ HeartbeatEnd(h) \/ ChildRefused(h)
      PROVE  AloneInv'
  <2>1. picked' = picked /\ \A t \in Tasks : status'[t] = "running" => status[t] = "running"
    BY <1>4, BeatMoves DEF OthersRows
  <2>2. PICK b \in {"idle", "dispatch"} : beat' = [beat EXCEPT ![h] = b]
    BY <1>4, BeatMoves
  <2>. QED
    BY <2>1, <2>2 DEF AloneInv, OneRunning, Alone, Committed, TypeOK
<1>5. ASSUME OthersRows, beat' = beat
      PROVE  AloneInv'
  <2>1. picked' = picked /\ \A t \in Tasks : status'[t] = "running" => status[t] = "running"
    BY <1>5 DEF OthersRows
  <2>. QED
    BY <1>5, <2>1 DEF AloneInv, OneRunning, Alone, Committed
<1>. QED
  BY <1>1, <1>2, <1>3, <1>4, <1>5, WhoMoves, OthersMove DEF ScheduleOnly

LEMMA StartedFinite ==
  ASSUME NEW c
  PROVE  IsFiniteSet(StartedTodayIn(c)) /\ Cardinality(StartedTodayIn(c)) \in Nat
<1>1. StartedTodayIn(c) \in SUBSET Tasks
  BY DEF StartedTodayIn
<1>. QED
  BY <1>1, TaskRunAssumption, FS_Subset, FS_CardinalityType

\* After midnight no task counts; one that is about to start still fits, if it did before.
LEMMA MidnightRoom ==
  ASSUME TypeOK, RoomInv, UNCHANGED <<beat, picked>>, startedToday' = [t \in Tasks |-> FALSE]
  PROVE  RoomInv'
<1>1. \A c : StartedTodayIn(c)' = {}
  BY DEF StartedTodayIn
<1>2. Cardinality({}) = 0 /\ \A x : Cardinality({x}) = 1
  BY FS_EmptySet, FS_Singleton
<1>3. Room'
  BY <1>1, <1>2, TaskRunAssumption DEF Room
<1>4. ASSUME NEW h \in Heartbeats
      PROVE  RoomLeft(h)'
  <2>1. CASE beat[h] = "picked"
    <3>1. Cardinality(StartedTodayIn(BeatOf[h])) < DailyTaskCap
      BY <2>1 DEF RoomInv, RoomLeft
    <3>. QED
      BY <1>1, <1>2, <2>1, <3>1, StartedFinite, TaskRunAssumption DEF RoomLeft
  <2>2. CASE beat[h] = "waiting"
    <3>. DEFINE S == StartedTodayIn(BeatOf[h])
    <3>1. Cardinality(S \cup {picked[h]}) <= DailyTaskCap
      BY <2>2 DEF RoomInv, RoomLeft
    <3>2. /\ IsFiniteSet(S) /\ Cardinality(S) \in Nat
          /\ Cardinality(S \cup {picked[h]}) = IF picked[h] \in S THEN Cardinality(S) ELSE Cardinality(S) + 1
          /\ picked[h] \in S => Cardinality(S) # 0
      BY StartedFinite, FS_AddElement, FS_EmptySet
    <3>3. 1 <= DailyTaskCap
      <4>. HIDE DEF S
      <4>. QED
        BY <3>1, <3>2, TaskRunAssumption
    <3>4. StartedTodayIn(BeatOf[h])' \cup {picked'[h]} = {picked[h]}
      BY <1>1
    <3>. QED
      BY <1>2, <2>2, <3>3, <3>4 DEF RoomLeft
  <2>3. CASE beat[h] \notin {"picked", "waiting"}
    BY <2>3 DEF RoomLeft
  <2>. QED
    BY <2>1, <2>2, <2>3
<1>. QED
  BY <1>3, <1>4 DEF RoomInv

LEMMA RoomStep ==
  ASSUME ScheduleOnly, TypeOK, DrivenInv, RoomInv, [Next]_vars
  PROVE  RoomInv'
<1>1. ASSUME NEW t \in Tasks, RunTask(t) \/ Fault(t)
      PROVE  RoomInv'
  <2>1. ChildMoved(t) /\ MarkedAs(t)
    BY <1>1, RunMoves
  <2>2. CASE startedToday' = startedToday
    <3>1. \A c : StartedTodayIn(c)' = StartedTodayIn(c)
      BY <2>2 DEF StartedTodayIn
    <3>. QED
      BY <2>1, <3>1 DEF RoomInv, Room, RoomLeft, ChildMoved
  <2>3. CASE startedToday' = [startedToday EXCEPT ![t] = TRUE]
    <3>1. PICK h \in Heartbeats : /\ beat[h] = "waiting" /\ picked[h] = t /\ BeatOf[h] = CompanyOf[t]
                                  /\ \A g \in Heartbeats : BeatOf[g] = CompanyOf[t] => g = h
      BY <2>1, OneDriver DEF ChildMoved
    <3>2. StartedTodayIn(CompanyOf[t])' = StartedTodayIn(CompanyOf[t]) \cup {t}
      BY <2>3 DEF StartedTodayIn, TypeOK
    <3>3. \A c : c # CompanyOf[t] => StartedTodayIn(c)' = StartedTodayIn(c)
      BY <2>3 DEF StartedTodayIn, TypeOK
    <3>4. Cardinality(StartedTodayIn(CompanyOf[t]) \cup {t}) <= DailyTaskCap
      BY <3>1 DEF RoomInv, RoomLeft
    <3>5. Room'
      <4>1. ASSUME NEW c \in Companies
            PROVE  Cardinality(StartedTodayIn(c)') <= DailyTaskCap
        BY <3>2, <3>3, <3>4 DEF RoomInv, Room
      <4>. QED
        BY <4>1 DEF Room
    <3>6. ASSUME NEW g \in Heartbeats
          PROVE  RoomLeft(g)'
      <4>1. CASE g = h
        <5>1. (StartedTodayIn(BeatOf[g]) \cup {picked[g]})' = StartedTodayIn(CompanyOf[t]) \cup {t}
          BY <2>1, <3>1, <3>2, <4>1 DEF ChildMoved
        <5>2. beat'[g] # "picked"
          BY <2>1, <3>1, <4>1 DEF ChildMoved
        <5>. QED
          BY <3>4, <5>1, <5>2 DEF RoomLeft
      <4>2. CASE g # h
        <5>1. BeatOf[g] # CompanyOf[t]
          BY <3>1, <4>2
        <5>. QED
          BY <2>1, <3>3, <5>1 DEF RoomInv, RoomLeft, ChildMoved
      <4>. QED
        BY <4>1, <4>2
    <3>. QED
      BY <3>5, <3>6 DEF RoomInv
  <2>. QED
    BY <2>1, <2>2, <2>3 DEF MarkedAs, taskRows
<1>2. ASSUME NEW h \in Heartbeats, PickTask(h)
      PROVE  RoomInv'
  <2>1. /\ Cardinality(StartedTodayIn(BeatOf[h])) < DailyTaskCap
        /\ beat' = [beat EXCEPT ![h] = "picked"] /\ startedToday' = startedToday
    BY <1>2, PickMoves DEF MayDispatch, UnderTaskCap, taskRows
  <2>2. \A c : StartedTodayIn(c)' = StartedTodayIn(c)
    BY <2>1 DEF StartedTodayIn
  <2>3. \A g \in Heartbeats \ {h} : picked'[g] = picked[g] /\ beat'[g] = beat[g]
    BY <1>2, <2>1, PickMoves DEF TypeOK
  <2>4. \A g \in Heartbeats : RoomLeft(g)'
    BY <2>1, <2>2, <2>3 DEF RoomInv, RoomLeft, TypeOK
  <2>. QED
    BY <2>2, <2>4 DEF RoomInv, Room
<1>3. ASSUME NEW h \in Heartbeats, StartChild(h)
      PROVE  RoomInv'
  <2>1. /\ beat[h] = "picked" /\ beat' = [beat EXCEPT ![h] = "waiting"] /\ picked' = picked
        /\ startedToday' = startedToday
    BY <1>3, StartMoves DEF taskRows
  <2>2. \A c : StartedTodayIn(c)' = StartedTodayIn(c)
    BY <2>1 DEF StartedTodayIn
  <2>3. Cardinality(StartedTodayIn(BeatOf[h]) \cup {picked[h]}) <= DailyTaskCap
    <3>. DEFINE S == StartedTodayIn(BeatOf[h])
    <3>1. Cardinality(S) < DailyTaskCap
      BY <2>1 DEF RoomInv, RoomLeft
    <3>2. /\ Cardinality(S) \in Nat
          /\ Cardinality(S \cup {picked[h]}) = IF picked[h] \in S THEN Cardinality(S) ELSE Cardinality(S) + 1
      BY StartedFinite, FS_AddElement
    <3>3. Cardinality(S \cup {picked[h]}) <= DailyTaskCap
      <4>. HIDE DEF S
      <4>. QED
        BY <3>1, <3>2, TaskRunAssumption
    <3>. QED
      BY <3>3
  <2>4. \A g \in Heartbeats : RoomLeft(g)'
    BY <2>1, <2>2, <2>3 DEF RoomInv, RoomLeft, TypeOK
  <2>. QED
    BY <2>2, <2>4 DEF RoomInv, Room
<1>4. ASSUME NEW h \in Heartbeats, HeartbeatStart(h) \/ HeartbeatEnd(h) \/ ChildRefused(h)
      PROVE  RoomInv'
  <2>1. picked' = picked /\ startedToday' = startedToday
    BY <1>4, BeatMoves DEF OthersRows
  <2>2. PICK b \in {"idle", "dispatch"} : beat' = [beat EXCEPT ![h] = b]
    BY <1>4, BeatMoves
  <2>3. \A c : StartedTodayIn(c)' = StartedTodayIn(c)
    BY <2>1 DEF StartedTodayIn
  <2>. QED
    BY <2>1, <2>2, <2>3 DEF RoomInv, Room, RoomLeft, TypeOK
<1>5. ASSUME OthersRows, beat' = beat
      PROVE  RoomInv'
  <2>1. CASE startedToday' = startedToday
    <3>1. \A c : StartedTodayIn(c)' = StartedTodayIn(c)
      BY <2>1 DEF StartedTodayIn
    <3>. QED
      BY <1>5, <3>1 DEF OthersRows, RoomInv, Room, RoomLeft
  <2>2. CASE startedToday' = [t \in Tasks |-> FALSE]
    BY <1>5, <2>2, MidnightRoom DEF OthersRows
  <2>. QED
    BY <1>5, <2>1, <2>2 DEF OthersRows
<1>. QED
  BY <1>1, <1>2, <1>3, <1>4, <1>5, WhoMoves, OthersMove DEF ScheduleOnly

DispatchInv == TypeOK /\ DrivenInv /\ AloneInv /\ RoomInv

LEMMA DispatchInit ==
  ASSUME Init
  PROVE  DispatchInv
<1>1. TypeOK
  BY TaskRunAssumption, SomeTask DEF Init, TypeOK, Statuses, Points
<1>2. /\ \A t \in Tasks : pc[t] = "closed" /\ status[t] = "none" /\ ~startedToday[t]
      /\ \A h \in Heartbeats : beat[h] = "idle"
  BY DEF Init
<1>3. \A c : StartedTodayIn(c) = {}
  BY <1>2 DEF StartedTodayIn
<1>4. Room
  BY <1>3, FS_EmptySet, TaskRunAssumption DEF Room
<1>. QED
  BY <1>1, <1>2, <1>4
  DEF DispatchInv, DrivenInv, Driven, OwnTask, AloneInv, OneRunning, Alone, RoomInv, RoomLeft, Committed

\* The schedule's limits (pickNextTask): a company has at most one task running, and starts at most
\* DailyTaskCap tasks in a UTC day, whatever fails, is edited, paused or left running beside it.
THEOREM LimitsAreHeld == ASSUME ScheduleOnly PROVE Spec => []LimitsHold
<1>1. Init => DispatchInv
  BY DispatchInit
<1>2. DispatchInv /\ [Next]_vars => DispatchInv'
  BY TypeOKStep, DrivenStep, AloneStep, RoomStep DEF DispatchInv
<1>3. DispatchInv => LimitsHold
  <2>. SUFFICES ASSUME DispatchInv PROVE LimitsHold
    OBVIOUS
  <2>1. ASSUME NEW c \in Companies
        PROVE  Cardinality(RunningIn(c)) <= 1
    <3>1. CASE RunningIn(c) = {}
      BY <3>1, FS_EmptySet
    <3>2. CASE \E t : RunningIn(c) = {t}
      <4>1. Cardinality(RunningIn(c)) = 1
        BY <3>2, FS_Singleton
      <4>. QED
        BY <4>1
    <3>3. \A t, u \in RunningIn(c) : t = u
      BY DEF RunningIn, DispatchInv, AloneInv, OneRunning
    <3>. QED
      BY <3>1, <3>2, <3>3
  <2>. QED
    BY <2>1 DEF LimitsHold, OneTaskPerCompany, DailyCapHolds, DispatchInv, RoomInv, Room
<1>. QED
  BY <1>1, <1>2, <1>3, PTL DEF Spec

----------------------------------------------------------------------------
(***************************************************************************)
(* With fewer failures than attempts, and whoever presses Run: no activity *)
(* after the charge fails for good, so a run that has marked its task      *)
(* running ends only once it has marked it done or failed.                 *)
(***************************************************************************)
Ends(t) == status[t] = "running" => pc[t] \notin Charging \cup {"closed", "finishLog", "failLog"}

LifeInv == faults <= MaxFaults /\ \A t \in Tasks : Attempted(t) /\ Ends(t)

LEMMA FaultMoves ==
  ASSUME FewFaults, TypeOK, NEW t \in Tasks, Attempted(t), Fault(t)
  PROVE  /\ UNCHANGED taskRows /\ faults' = faults + 1
         /\ \/ pc[t] \in Charging /\ pc'[t] \in {"charge", "closed"}
            \/ /\ pc[t] \notin Charging \cup {"closed"}
               /\ pc'[t] = Restart(pc[t]) /\ attempt'[t] = attempt[t] + 1
<1>1. /\ UNCHANGED taskRows /\ faults < MaxFaults /\ faults' = faults + 1
      /\ pc[t] \notin {"closed", "worker"} /\ AttemptFails(t)
  BY DEF Fault
<1>2. CASE pc[t] \in Charging
  <2>1. pc'[t] \in {"charge", "closed"}
    BY <1>1, <1>2 DEF AttemptFails, Retry, Goto, Restart, Caught, Charging, TypeOK
  <2>. QED
    BY <1>1, <1>2, <2>1
<1>3. CASE pc[t] \notin Charging
  <2>1. attempt[t] < MaxAttempts
    BY <1>1, <1>3, TaskRunAssumption DEF Attempted, FewFaults, TypeOK
  <2>. QED
    BY <1>1, <1>3, <2>1 DEF AttemptFails, Retry, TypeOK
<1>. QED
  BY <1>2, <1>3

LEMMA LifeRun ==
  ASSUME FewFaults, TypeOK, NEW t \in Tasks, Attempted(t), Ends(t),
         RunTask(t) \/ Fault(t) \/ StartTaskRun(t)
  PROVE  Attempted(t)' /\ Ends(t)'
<1>1. CASE Fault(t)
  <2>1. CASE pc[t] \in Charging /\ pc'[t] \in {"charge", "closed"}
    BY <1>1, <2>1, FaultMoves DEF Attempted, Ends, Charging, taskRows
  <2>2. CASE pc[t] \notin Charging \cup {"closed"} /\ pc'[t] = Restart(pc[t]) /\ attempt'[t] = attempt[t] + 1
    <3>1. pc'[t] \in {"start", "reconcile", "finish", "refund", "fail"}
      BY <2>2 DEF Restart, Charging
    <3>. QED
      BY <1>1, <2>2, <3>1, FaultMoves DEF Attempted, Ends, Charging, taskRows, TypeOK
  <2>. QED
    BY <1>1, <2>1, <2>2, FaultMoves
<1>2. CASE ChargeCheck(t) \/ ChargeRefused(t) \/ Hold(t) \/ StartTaskRun(t)
  <2>1. pc[t] \in Charging \cup {"closed"} /\ pc'[t] \in Charging \cup {"closed"} /\ UNCHANGED taskRows
    BY <1>2 DEF ChargeCheck, ChargeRefused, Hold, StartTaskRun, AttemptFails, Retry, Goto, Restart, Caught,
                Charging, TypeOK
  <2>. QED
    BY <2>1 DEF Attempted, Ends, taskRows
<1>3. ASSUME NEW p \in Points, NEW q \in Points, Logged(t, p, q),
             q = "closed" => p \in {"finishLog", "failLog"}, q \notin Charging \cup {"finishLog", "failLog"}
      PROVE  Attempted(t)' /\ Ends(t)'
  <2>1. pc[t] = p /\ pc'[t] = q /\ attempt'[t] = 1 /\ faults' = faults /\ UNCHANGED taskRows
    BY <1>3 DEF Logged, Goto, bounds, TypeOK
  <2>. QED
    BY <1>3, <2>1 DEF Attempted, Ends, taskRows, TypeOK
<1>4. ASSUME NEW p \in Points \ (Charging \cup {"closed"}), NEW q \in Points \ (Charging \cup {"closed"}),
             NEW s \in Statuses, SetTaskState(t, p, s, q), s = "running" => q = "startLog"
      PROVE  Attempted(t)' /\ Ends(t)'
  <2>1. pc[t] = p /\ pc'[t] = q /\ attempt' = attempt /\ faults' = faults /\ status'[t] = s
    BY <1>4 DEF SetTaskState, bounds, TypeOK
  <2>. QED
    BY <1>4, <2>1 DEF Attempted, Ends, Charging
<1>5. CASE WorkerSucceeds(t) \/ WorkerFails(t) \/ AlreadyReconciled(t) \/ NothingDue(t)
  <2>1. /\ pc'[t] \in {"reconcile", "refund", "finish", "fail"} /\ attempt'[t] = 1 /\ faults' = faults
        /\ UNCHANGED taskRows
    BY <1>5 DEF WorkerSucceeds, WorkerFails, AlreadyReconciled, NothingDue, Goto, bounds, TypeOK
  <2>. QED
    BY <2>1 DEF Attempted, Ends, taskRows, Charging, TypeOK
<1>6. CASE Reconcile(t) \/ Refund(t)
  <2>1. /\ pc[t] \in {"reconcile", "refund"} /\ pc'[t] \in {"reconcileLog", "refundLog"}
        /\ attempt' = attempt /\ faults' = faults /\ UNCHANGED taskRows
    BY <1>6 DEF Reconcile, Refund, bounds, TypeOK
  <2>. QED
    BY <2>1 DEF Attempted, Ends, taskRows, Charging
<1>. QED
  BY <1>1, <1>2, <1>3, <1>4, <1>5, <1>6 DEF RunTask, Points, Statuses, Charging

LEMMA LifeOther ==
  ASSUME TypeOK, NEW t \in Tasks, RunTask(t) \/ Fault(t) \/ StartTaskRun(t),
         NEW u \in Tasks, u # t
  PROVE  UNCHANGED <<pc[u], attempt[u], status[u]>> /\ faults' \in {faults, faults + 1}
<1>1. CASE Fault(t) \/ ChargeRefused(t)
  BY <1>1 DEF Fault, ChargeRefused, AttemptFails, Retry, Goto, taskRows, bounds, TypeOK
<1>2. CASE ChargeCheck(t) \/ Hold(t) \/ Reconcile(t) \/ Refund(t) \/ StartTaskRun(t)
           \/ \E p, q \in Points, s \in Statuses : SetTaskState(t, p, s, q)
  BY <1>2 DEF ChargeCheck, Hold, Reconcile, Refund, StartTaskRun, SetTaskState, taskRows, bounds, TypeOK
<1>3. CASE WorkerSucceeds(t) \/ WorkerFails(t) \/ AlreadyReconciled(t) \/ NothingDue(t)
           \/ \E p, q \in Points : Logged(t, p, q)
  BY <1>3 DEF WorkerSucceeds, WorkerFails, AlreadyReconciled, NothingDue, Logged, Goto, taskRows, bounds, TypeOK
<1>. QED
  BY <1>1, <1>2, <1>3 DEF RunTask, Points, Statuses

LEMMA FaultsBounded ==
  ASSUME TypeOK, NEW t \in Tasks, RunTask(t) \/ Fault(t) \/ StartTaskRun(t), faults <= MaxFaults
  PROVE  faults' <= MaxFaults
<1>1. CASE Fault(t)
  BY <1>1, TaskRunAssumption DEF Fault, TypeOK
<1>2. CASE ~Fault(t)
  BY <1>2 DEF RunTask, StartTaskRun, ChargeCheck, ChargeRefused, Hold, Logged, SetTaskState, WorkerSucceeds,
     WorkerFails, AlreadyReconciled, Reconcile, NothingDue, Refund, bounds
<1>. QED
  BY <1>1, <1>2

LEMMA LifeStep ==
  ASSUME FewFaults, TypeOK, LifeInv, [Next]_vars
  PROVE  LifeInv'
<1>1. ASSUME NEW t \in Tasks, RunTask(t) \/ Fault(t) \/ StartTaskRun(t)
      PROVE  LifeInv'
  <2>1. ASSUME NEW u \in Tasks, u # t
        PROVE  Attempted(u)' /\ Ends(u)'
    BY <1>1, <2>1, LifeOther DEF LifeInv, Attempted, Ends, TypeOK
  <2>2. Attempted(t)' /\ Ends(t)'
    BY <1>1, LifeRun DEF LifeInv
  <2>. QED
    BY <1>1, <2>1, <2>2, FaultsBounded DEF LifeInv
<1>2. ASSUME OthersRows, attempt' = attempt, faults' = faults
      PROVE  LifeInv'
  BY <1>2 DEF OthersRows, LifeInv, Attempted, Ends
<1>3. CASE \E h \in Heartbeats : StartChild(h)
  BY <1>1, <1>3 DEF StartChild, TypeOK
<1>4. CASE \E t \in Tasks : RunNow(t) \/ RunTask(t) \/ Fault(t)
  BY <1>1, <1>4 DEF RunNow
<1>5. CASE \E h \in Heartbeats : PickTask(h)
  BY <1>5 DEF PickTask, runState, bounds, taskRows, LifeInv, Attempted, Ends
<1>6. CASE \E h \in Heartbeats : HeartbeatStart(h) \/ HeartbeatEnd(h) \/ ChildRefused(h)
  <2>1. attempt' = attempt /\ faults' = faults
    BY <1>6 DEF HeartbeatStart, HeartbeatEnd, ChildRefused, runState, bounds
  <2>. QED
    BY <1>2, <1>6, <2>1, BeatMoves
<1>7. CASE \/ \E t \in Tasks : EditTask(t)
           \/ \E c \in Companies, a \in BOOLEAN : SetActive(c, a)
           \/ GrantCredits \/ UtcMidnight \/ UNCHANGED vars
  <2>1. attempt' = attempt /\ faults' = faults
    BY <1>7 DEF EditTask, CreateTask, PatchTask, SetActive, GrantCredits, UtcMidnight, vars, runState, bounds
  <2>. QED
    BY <1>2, <1>7, <2>1, OthersMove
<1>. QED
  BY <1>3, <1>4, <1>5, <1>6, <1>7 DEF Next, HeartbeatStep

\* Unless an activity fails as often as it may be tried, a task is 'running' only while a run is
\* there to end that, also under the owner's Run and re-runs: pickNextTask is never blocked for good.
THEOREM RunningIsDriven == ASSUME FewFaults PROVE Spec => []RunningHasRun
<1>1. Init => TypeOK /\ LifeInv
  <2>1. Init => TypeOK
    BY TaskRunAssumption, SomeTask DEF Init, TypeOK, Statuses, Points
  <2>2. Init => LifeInv
    BY TaskRunAssumption DEF Init, LifeInv, Attempted, Ends
  <2>. QED
    BY <2>1, <2>2
<1>2. TypeOK /\ LifeInv /\ [Next]_vars => TypeOK' /\ LifeInv'
  BY TypeOKStep, LifeStep
<1>3. LifeInv => RunningHasRun
  BY DEF LifeInv, Ends, RunningHasRun
<1>. QED
  BY <1>1, <1>2, <1>3, PTL DEF Spec

----------------------------------------------------------------------------
\* A done task's run is at its end, and no heartbeat is about to start another.
Settled(t) ==
  status[t] = "done" =>
    /\ pc[t] \in {"closed", "finish", "finishLog"}
    /\ \A h \in Heartbeats : beat[h] = "picked" => picked[h] # t
SettledInv == \A t \in Tasks : Settled(t)
StaysDone(t) == status[t] = "done" => status'[t] = "done"

LEMMA SettledRun ==
  ASSUME FewFaults, TypeOK, NEW t \in Tasks, Attempted(t), Settled(t), RunTask(t) \/ Fault(t)
  PROVE  StaysDone(t) /\ (status'[t] = "done" => pc'[t] \in {"closed", "finish", "finishLog"})
<1>1. CASE Fault(t)
  <2>1. status' = status
    BY <1>1, FaultMoves DEF taskRows
  <2>2. pc[t] \in {"finish", "finishLog"} => pc'[t] = "finish"
    BY <1>1, FaultMoves DEF Restart, Charging
  <2>3. pc[t] # "closed"
    BY <1>1 DEF Fault
  <2>. QED
    BY <2>1, <2>2, <2>3 DEF Settled, StaysDone
<1>2. ASSUME NEW p \in Points \ {"closed"}, NEW q \in Points, Logged(t, p, q), p = "finishLog" => q = "closed", p # "finish"
      PROVE  StaysDone(t) /\ (status'[t] = "done" => pc'[t] \in {"closed", "finish", "finishLog"})
  <2>1. pc[t] = p /\ pc'[t] = q /\ status' = status
    BY <1>2 DEF Logged, Goto, taskRows, TypeOK
  <2>. QED
    BY <1>2, <2>1 DEF Settled, StaysDone
<1>3. ASSUME NEW p \in {"start", "finish", "fail"}, NEW q \in Points, NEW s \in Statuses, SetTaskState(t, p, s, q),
             s = "done" <=> p = "finish", p = "finish" => q = "finishLog"
      PROVE  StaysDone(t) /\ (status'[t] = "done" => pc'[t] \in {"closed", "finish", "finishLog"})
  <2>1. pc[t] = p /\ pc'[t] = q /\ status'[t] = s
    BY <1>3 DEF SetTaskState, TypeOK
  <2>. QED
    BY <1>3, <2>1 DEF Settled, StaysDone
<1>4. CASE ChargeCheck(t) \/ ChargeRefused(t) \/ Hold(t) \/ WorkerSucceeds(t) \/ WorkerFails(t)
           \/ AlreadyReconciled(t) \/ Reconcile(t) \/ NothingDue(t) \/ Refund(t)
  <2>1. status' = status /\ pc[t] \in {"charge", "hold", "worker", "reconcile", "refund"}
    BY <1>4 DEF ChargeCheck, ChargeRefused, Hold, WorkerSucceeds, WorkerFails, AlreadyReconciled, Reconcile,
                NothingDue, Refund, taskRows
  <2>. QED
    BY <2>1 DEF Settled, StaysDone
<1>. QED
  BY <1>1, <1>2, <1>3, <1>4 DEF RunTask, Points, Statuses

LEMMA SettledStep ==
  ASSUME ScheduleOnly, FewFaults, TypeOK, DrivenInv, LifeInv, SettledInv, [Next]_vars
  PROVE  SettledInv' /\ \A t \in Tasks : StaysDone(t)
<1>1. ASSUME NEW t \in Tasks, RunTask(t) \/ Fault(t)
      PROVE  SettledInv' /\ \A u \in Tasks : StaysDone(u)
  <2>1. ChildMoved(t) /\ MarkedAs(t)
    BY <1>1, RunMoves
  <2>2. \A u \in Tasks \ {t} : status'[u] = status[u]
    BY <2>1 DEF MarkedAs, taskRows, TypeOK
  <2>3. StaysDone(t) /\ (status'[t] = "done" => pc'[t] \in {"closed", "finish", "finishLog"})
    BY <1>1, SettledRun DEF LifeInv, SettledInv
  <2>4. \A g \in Heartbeats : beat'[g] = "picked" => beat[g] = "picked" /\ picked'[g] = picked[g]
    BY <2>1 DEF ChildMoved
  <2>5. \A g \in Heartbeats : beat[g] = "picked" => picked[g] # t
    <3>1. PICK h \in Heartbeats : /\ beat[h] = "waiting" /\ picked[h] = t /\ BeatOf[h] = CompanyOf[t]
                                  /\ \A g \in Heartbeats : BeatOf[g] = CompanyOf[t] => g = h
      BY <2>1, OneDriver DEF ChildMoved
    <3>. QED
      BY <3>1 DEF DrivenInv, OwnTask, Committed
  <2>6. Settled(t)'
    BY <2>3, <2>4, <2>5 DEF Settled
  <2>7. \A u \in Tasks \ {t} : Settled(u)'
    BY <2>1, <2>2, <2>4 DEF SettledInv, Settled, ChildMoved
  <2>. QED
    BY <2>2, <2>3, <2>6, <2>7 DEF SettledInv, StaysDone
<1>2. ASSUME NEW h \in Heartbeats, PickTask(h)
      PROVE  SettledInv' /\ \A u \in Tasks : StaysDone(u)
  <2>1. PICK t \in QueuedIn(BeatOf[h]) : picked' = [picked EXCEPT ![h] = t]
    BY <1>2, PickMoves
  <2>2. beat' = [beat EXCEPT ![h] = "picked"] /\ pc' = pc /\ status' = status
    BY <1>2, PickMoves DEF taskRows
  <2>3. status[t] = "queued"
    BY <2>1 DEF QueuedIn
  <2>. QED
    BY <2>1, <2>2, <2>3 DEF SettledInv, Settled, StaysDone, TypeOK
<1>3. ASSUME NEW h \in Heartbeats, StartChild(h)
      PROVE  SettledInv' /\ \A u \in Tasks : StaysDone(u)
  <2>1. /\ beat[h] = "picked" /\ beat' = [beat EXCEPT ![h] = "waiting"] /\ picked' = picked
        /\ pc' = [pc EXCEPT ![picked[h]] = "charge"] /\ status' = status
    BY <1>3, StartMoves DEF taskRows
  <2>. QED
    BY <2>1 DEF SettledInv, Settled, StaysDone, TypeOK
<1>4. ASSUME NEW h \in Heartbeats, HeartbeatStart(h) \/ HeartbeatEnd(h) \/ ChildRefused(h)
      PROVE  SettledInv' /\ \A u \in Tasks : StaysDone(u)
  <2>1. PICK b \in {"idle", "dispatch"} : beat' = [beat EXCEPT ![h] = b]
    BY <1>4, BeatMoves
  <2>2. OthersRows
    BY <1>4, BeatMoves
  <2>. QED
    BY <2>1, <2>2 DEF OthersRows, SettledInv, Settled, StaysDone, TypeOK
<1>5. ASSUME OthersRows, beat' = beat
      PROVE  SettledInv' /\ \A u \in Tasks : StaysDone(u)
  BY <1>5 DEF OthersRows, SettledInv, Settled, StaysDone
<1>. QED
  BY <1>1, <1>2, <1>3, <1>4, <1>5, WhoMoves, OthersMove DEF ScheduleOnly

\* Under the schedule, and with fewer failures than attempts, no patch, retry, refund or late run
\* takes a finished task out of 'done'.
THEOREM DoneStaysDone == ASSUME ScheduleOnly, FewFaults PROVE Spec => DoneIsFinal
<1>. DEFINE Inv == TypeOK /\ DrivenInv /\ LifeInv /\ SettledInv
<1>1. Init => Inv
  <2>1. Init => TypeOK
    BY TaskRunAssumption, SomeTask DEF Init, TypeOK, Statuses, Points
  <2>2. Init => DrivenInv
    BY DispatchInit DEF DispatchInv
  <2>3. Init => LifeInv /\ SettledInv
    BY TaskRunAssumption DEF Init, LifeInv, Attempted, Ends, SettledInv, Settled
  <2>. QED
    BY <2>1, <2>2, <2>3
<1>2. Inv /\ [Next]_vars => Inv'
  BY TypeOKStep, DrivenStep, LifeStep, SettledStep
<1>3. Inv /\ [Next]_vars => [\A t \in Tasks : status[t] = "done" => status'[t] = "done"]_vars
  BY SettledStep DEF StaysDone
<1>. QED
  BY <1>1, <1>2, <1>3, PTL DEF Spec, DoneIsFinal
=============================================================================
