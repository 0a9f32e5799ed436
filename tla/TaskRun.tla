------------------------------ MODULE TaskRun ------------------------------
(***************************************************************************)
(* Tasks, the credit wallet and the heartbeat: the TaskRun workflow (hold  *)
(* the estimate, run the worker, reconcile or refund), its activities      *)
(* retried by Temporal, the CompanyHeartbeat dispatch loop under the daily *)
(* caps, and the owner's dashboard actions that race with both.            *)
(*                                                                         *)
(* One conglomerate: its companies share one wallet. An activity is cut at *)
(* each statement another process can come between; an attempt may fail    *)
(* at every cut and is then started again from the top, at most            *)
(* MaxAttempts times. Only TaskRun(t) writes credit rows with task_id t,   *)
(* and Temporal keeps one TaskRun open per task (workflow id               *)
(* task-run:{id}), so reads of a task's own rows need no step of their own.*)
(***************************************************************************)
EXTENDS Integers, FiniteSets

CONSTANTS
  Tasks, Companies, CompanyOf,   \* the tasks and the company each belongs to
  Heartbeats, BeatOf,            \* heartbeat workflows, and their company
  Estimate,                      \* DEFAULT_TASK_ESTIMATE_CENTS
  Costs,                         \* metered API costs a run may report, in cents
  Grant,                         \* a credit grant, in cents
  DailyTaskCap, DailyCreditCap,
  MaxAttempts,                   \* retry.maximumAttempts of the activities
  OwnerRuns,                     \* whether the owner presses Run on tasks
  MaxFaults, MaxRuns, MaxGrants, MaxDays  \* bounds of the model

ASSUME TaskRunAssumption ==
  /\ IsFiniteSet(Tasks) /\ Tasks # {}
  /\ CompanyOf \in [Tasks -> Companies]
  /\ BeatOf \in [Heartbeats -> Companies]
  /\ Estimate \in Nat /\ Costs \subseteq Nat /\ Grant \in Nat
  /\ DailyTaskCap \in Nat /\ DailyCreditCap \in Nat
  /\ MaxAttempts \in Nat \ {0}
  /\ OwnerRuns \in BOOLEAN
  /\ MaxFaults \in Nat /\ MaxRuns \in Nat /\ MaxGrants \in Nat /\ MaxDays \in Nat

VARIABLES
  status,        \* tasks.status, "none" before the row exists
  startedToday,  \* tasks.started_at >= UTC midnight
  active,        \* companies.status = 'active'
  wallet,        \* SUM(delta) of the conglomerate's credit_entries
  spentToday,    \* -SUM(delta) of today's task_charge rows
  overrun,       \* -SUM(delta) of the reconcile rows with a negative delta
  charged,       \* per task: -SUM(delta) of its task_charge rows
  refunded,      \* per task: SUM(delta) of its task_refund rows
  marker,        \* per task: a row with meta.kind = 'reconcile' exists
  events,        \* per task: sum of the deltas of its credit_change events
  pc, attempt,   \* where TaskRun(t) is, and the attempt of that activity
  cost,          \* costMicroCents the worker returned, in cents
  unlogged,      \* delta the current activity has yet to append
  beat, picked,  \* where each heartbeat is, and the task it picked
  runs, faults, grants, day      \* counters of the bounds

taskRows   == <<status, startedToday>>
creditRows == <<wallet, spentToday, overrun, charged, refunded, marker>>
runState   == <<pc, attempt, cost, unlogged, events>>
beats      == <<beat, picked>>
bounds     == <<runs, faults, grants, day>>
vars == <<taskRows, active, creditRows, runState, beats, bounds>>

Statuses == {"none", "pending", "queued", "running", "done", "failed", "deleted"}
Points == {"closed", "charge", "hold", "holdLog", "start", "startLog", "worker",
           "reconcile", "reconcileLog", "finish", "finishLog",
           "refund", "refundLog", "fail", "failLog"}

Init ==
  /\ status = [t \in Tasks |-> "none"]
  /\ startedToday = [t \in Tasks |-> FALSE]
  /\ active = [c \in Companies |-> TRUE]
  /\ wallet = Grant /\ spentToday = 0 /\ overrun = 0
  /\ charged = [t \in Tasks |-> 0] /\ refunded = [t \in Tasks |-> 0]
  /\ marker = [t \in Tasks |-> FALSE]
  /\ pc = [t \in Tasks |-> "closed"] /\ attempt = [t \in Tasks |-> 1]
  /\ cost = [t \in Tasks |-> 0]
  /\ unlogged = [t \in Tasks |-> 0] /\ events = [t \in Tasks |-> 0]
  /\ beat = [h \in Heartbeats |-> "idle"]
  /\ picked = [h \in Heartbeats |-> CHOOSE t \in Tasks : TRUE]
  /\ runs = [t \in Tasks |-> 0] /\ faults = 0 /\ grants = 0 /\ day = 0

----------------------------------------------------------------------------
(* Moving TaskRun(t) to another point. Closing it wakes the heartbeat that *)
(* is waiting for it as its child.                                         *)

GotoSilently(t, p) ==
  /\ pc' = [pc EXCEPT ![t] = p]
  /\ attempt' = [attempt EXCEPT ![t] = 1]
  /\ UNCHANGED beats
Goto(t, p) ==
  /\ pc' = [pc EXCEPT ![t] = p]
  /\ attempt' = [attempt EXCEPT ![t] = 1]
  /\ beat' = [h \in Heartbeats |->
                IF p = "closed" /\ beat[h] = "waiting" /\ picked[h] = t
                  THEN "dispatch" ELSE beat[h]]
  /\ UNCHANGED picked

\* Where a new attempt of the activity begins.
Restart(p) ==
  CASE p \in {"charge", "hold", "holdLog"} -> "charge"
    [] p \in {"start", "startLog"} -> "start"
    [] p \in {"reconcile", "reconcileLog"} -> "reconcile"
    [] p \in {"finish", "finishLog"} -> "finish"
    [] p \in {"refund", "refundLog"} -> "refund"
    [] OTHER -> "fail"

\* The workflow code that sees the activity fail for good: only the activities
\* inside the try block lead to the catch block and its refund.
Caught(p) ==
  IF p \in {"reconcile", "reconcileLog", "finish", "finishLog"} THEN "refund" ELSE "closed"

\* An attempt throws: Temporal retries it, or hands the failure to the workflow.
Retry(t) ==
  /\ pc' = [pc EXCEPT ![t] = Restart(pc[t])]
  /\ attempt' = [attempt EXCEPT ![t] = @ + 1]
  /\ UNCHANGED beats
OneAttemptFewer(t) ==
  IF attempt[t] + 1 < MaxAttempts THEN Retry(t) ELSE Goto(t, Caught(pc[t]))
OneAttemptMore(t) ==
  IF attempt[t] <= MaxAttempts THEN Retry(t) ELSE Goto(t, Caught(pc[t]))
AttemptFails(t) ==
  IF attempt[t] < MaxAttempts THEN Retry(t) ELSE Goto(t, Caught(pc[t]))

\* Database or ledger error, or a worker process that dies before it reports:
\* the append that was due may or may not have reached the ledger.
Fault(t) ==
  /\ pc[t] \notin {"closed", "worker"}
  /\ faults < MaxFaults /\ faults' = faults + 1
  /\ events' \in {events, [events EXCEPT ![t] = @ + unlogged[t]]}
  /\ unlogged' = [unlogged EXCEPT ![t] = 0]
  /\ AttemptFails(t)
  /\ UNCHANGED <<taskRows, active, creditRows, cost, runs, grants, day>>

\* The ledger append that ends an activity, and the activity the workflow
\* schedules next.
Logged(t, p, q) ==
  /\ pc[t] = p
  /\ events' = [events EXCEPT ![t] = @ + unlogged[t]]
  /\ unlogged' = [unlogged EXCEPT ![t] = 0]
  /\ Goto(t, q)
  /\ UNCHANGED <<taskRows, active, creditRows, cost, bounds>>

----------------------------------------------------------------------------
(* chargeTask: read the balance, then insert the hold, then log it.        *)

CanChargeAny == wallet >= 0
CanCharge == wallet >= Estimate

ChargeCheck(t) ==
  /\ pc[t] = "charge" /\ CanCharge
  /\ pc' = [pc EXCEPT ![t] = "hold"]
  /\ UNCHANGED <<taskRows, active, creditRows, attempt, cost, unlogged, events, beats, bounds>>

\* insufficient_credits is thrown like any other error: it is retried.
ChargeRefused(t) ==
  /\ pc[t] = "charge" /\ ~CanCharge
  /\ AttemptFails(t)
  /\ UNCHANGED <<taskRows, active, creditRows, cost, unlogged, events, bounds>>

Hold(t) ==
  /\ pc[t] = "hold"
  /\ wallet' = wallet - Estimate
  /\ spentToday' = spentToday + Estimate
  /\ charged' = [charged EXCEPT ![t] = @ + Estimate]
  /\ unlogged' = [unlogged EXCEPT ![t] = -Estimate]
  /\ pc' = [pc EXCEPT ![t] = "holdLog"]
  /\ UNCHANGED <<taskRows, active, overrun, refunded, marker, attempt, cost, events, beats, bounds>>

(* setTaskState: an unconditional UPDATE, then the task_state event.       *)
SetTaskState(t, p, s, q) ==
  /\ pc[t] = p
  /\ status' = [status EXCEPT ![t] = s]
  /\ startedToday' = [startedToday EXCEPT ![t] = @ \/ s = "running"]
  /\ pc' = [pc EXCEPT ![t] = q]
  /\ UNCHANGED <<active, creditRows, attempt, cost, unlogged, events, beats, bounds>>

(* runWorker: one attempt, which returns a cost or throws into the catch.  *)
WorkerSucceeds(t) ==
  /\ pc[t] = "worker"
  /\ \E c \in Costs : cost' = [cost EXCEPT ![t] = c]
  /\ Goto(t, "reconcile")
  /\ UNCHANGED <<taskRows, active, creditRows, unlogged, events, bounds>>

WorkerFails(t) ==
  /\ pc[t] = "worker"
  /\ Goto(t, "refund")
  /\ UNCHANGED <<taskRows, active, creditRows, cost, unlogged, events, bounds>>

(* reconcileTask: once per task (its marker row), post hold - actual cost. *)
AdjustOneHold(t) == Estimate - cost[t]
Adjustment(t) == charged[t] - cost[t]

\* The delta of the credit_change event: none is appended for a zero delta.
AnnouncedRefund(adj) == IF adj > 0 THEN adj ELSE 0
Announced(adj) == IF adj # 0 THEN adj ELSE 0

NeverReconciled(t) == FALSE
Reconciled(t) == marker[t]

\* The marker of an earlier attempt, or run, makes the activity return at once.
AlreadyReconciled(t) ==
  /\ pc[t] = "reconcile" /\ Reconciled(t)
  /\ Goto(t, "finish")
  /\ UNCHANGED <<taskRows, active, creditRows, cost, unlogged, events, bounds>>

Reconcile(t) ==
  /\ pc[t] = "reconcile" /\ ~Reconciled(t)
  /\ LET adj == Adjustment(t)
         extra == IF adj < 0 THEN -adj ELSE 0
     IN /\ wallet' = wallet + adj
        /\ refunded' = [refunded EXCEPT ![t] = @ + adj + extra]
        /\ charged' = [charged EXCEPT ![t] = @ + extra]
        /\ overrun' = overrun + extra
        /\ spentToday' = spentToday + extra
        /\ unlogged' = [unlogged EXCEPT ![t] = Announced(adj)]
  /\ marker' = [marker EXCEPT ![t] = TRUE]
  /\ pc' = [pc EXCEPT ![t] = "reconcileLog"]
  /\ UNCHANGED <<taskRows, active, attempt, cost, events, beats, bounds>>

(* refundTask: post whatever of the task's charges is not refunded yet.    *)
DueGross(t) == charged[t]
Due(t) == charged[t] - refunded[t]

OverRefunded(t) ==
  /\ pc[t] = "refund" /\ Due(t) < 0
  /\ Goto(t, "fail")
  /\ UNCHANGED <<taskRows, active, creditRows, cost, unlogged, events, bounds>>
NothingDue(t) ==
  /\ pc[t] = "refund" /\ Due(t) <= 0
  /\ Goto(t, "fail")
  /\ UNCHANGED <<taskRows, active, creditRows, cost, unlogged, events, bounds>>

Refund(t) ==
  /\ pc[t] = "refund" /\ Due(t) > 0
  /\ wallet' = wallet + Due(t)
  /\ refunded' = [refunded EXCEPT ![t] = @ + Due(t)]
  /\ unlogged' = [unlogged EXCEPT ![t] = Due(t)]
  /\ pc' = [pc EXCEPT ![t] = "refundLog"]
  /\ UNCHANGED <<taskRows, active, spentToday, overrun, charged, marker, attempt, cost, events, beats, bounds>>

(* TaskRun: the activities in the order the workflow awaits them.          *)
RunTask(t) ==
  \/ ChargeCheck(t)
  \/ ChargeRefused(t)
  \/ Hold(t)
  \/ Logged(t, "holdLog", "start")
  \/ SetTaskState(t, "start", "running", "startLog")
  \/ Logged(t, "startLog", "worker")
  \/ WorkerSucceeds(t)
  \/ WorkerFails(t)
  \/ AlreadyReconciled(t)
  \/ Reconcile(t)
  \/ Logged(t, "reconcileLog", "finish")
  \/ SetTaskState(t, "finish", "done", "finishLog")
  \/ Logged(t, "finishLog", "closed")
  \/ NothingDue(t)
  \/ Refund(t)
  \/ Logged(t, "refundLog", "fail")
  \/ SetTaskState(t, "fail", "failed", "failLog")
  \/ Logged(t, "failLog", "closed")

----------------------------------------------------------------------------
(* CompanyHeartbeat.                                                       *)

\* workflow.start / executeChild: refused while a TaskRun of this id is open.
StartTaskRun(t) ==
  /\ pc[t] = "closed"
  /\ runs[t] < MaxRuns /\ runs' = [runs EXCEPT ![t] = @ + 1]
  /\ pc' = [pc EXCEPT ![t] = "charge"]
  /\ attempt' = [attempt EXCEPT ![t] = 1]
  /\ UNCHANGED <<taskRows, creditRows, active, cost, unlogged, events, faults, grants, day>>

\* runCeoPlanning: free, best effort, and only with the means to plan; the
\* tasks it adds are queued.
HeartbeatStart(h) ==
  /\ beat[h] = "idle"
  /\ beat' = [beat EXCEPT ![h] = "dispatch"]
  /\ \E new \in SUBSET {t \in Tasks : status[t] = "none" /\ CompanyOf[t] = BeatOf[h]} :
       /\ new # {} => CanCharge
       /\ status' = [t \in Tasks |-> IF t \in new THEN "queued" ELSE status[t]]
  /\ UNCHANGED <<startedToday, active, creditRows, runState, picked, bounds>>

RunningIn(c) == {t \in Tasks : CompanyOf[t] = c /\ status[t] = "running"}
StartedTodayIn(c) == {t \in Tasks : CompanyOf[t] = c /\ startedToday[t]}
QueuedIn(c) == {t \in Tasks : CompanyOf[t] = c /\ status[t] = "queued"}

UpToTaskCap(c) == Cardinality(StartedTodayIn(c)) <= DailyTaskCap
UnderTaskCap(c) == Cardinality(StartedTodayIn(c)) < DailyTaskCap

\* pickNextTask up to its last query: the company may start a task now. Which
\* queued task comes first is the subject of module CeoPlan.
MayDispatch(c) ==
  /\ active[c]
  /\ RunningIn(c) = {}
  /\ UnderTaskCap(c)
  /\ spentToday < DailyCreditCap
  /\ CanCharge

PickTask(h) ==
  /\ beat[h] = "dispatch" /\ MayDispatch(BeatOf[h])
  /\ \E t \in QueuedIn(BeatOf[h]) :
       /\ runs[t] < MaxRuns
       /\ picked' = [picked EXCEPT ![h] = t]
  /\ beat' = [beat EXCEPT ![h] = "picked"]
  /\ UNCHANGED <<taskRows, active, creditRows, runState, bounds>>

\* No task to dispatch: post the brief and end.
HeartbeatEnd(h) ==
  /\ beat[h] = "dispatch"
  /\ ~MayDispatch(BeatOf[h]) \/ \A t \in QueuedIn(BeatOf[h]) : runs[t] >= MaxRuns
  /\ beat' = [beat EXCEPT ![h] = "idle"]
  /\ UNCHANGED <<taskRows, active, creditRows, runState, picked, bounds>>

StartDetached(h) ==
  /\ beat[h] = "picked"
  /\ StartTaskRun(picked[h])
  /\ beat' = [beat EXCEPT ![h] = "dispatch"]
  /\ UNCHANGED picked
StartChild(h) ==
  /\ beat[h] = "picked"
  /\ StartTaskRun(picked[h])
  /\ beat' = [beat EXCEPT ![h] = "waiting"]
  /\ UNCHANGED picked

\* The owner's own run of that task is open: the error is caught, the loop goes on.
ChildRefused(h) ==
  /\ beat[h] = "picked"
  /\ pc[picked[h]] # "closed" \/ runs[picked[h]] >= MaxRuns
  /\ beat' = [beat EXCEPT ![h] = "dispatch"]
  /\ UNCHANGED <<taskRows, active, creditRows, runState, picked, bounds>>

----------------------------------------------------------------------------
(* The owner's dashboard and the clock.                                    *)

CreateTask(t) ==
  /\ status[t] = "none"
  /\ status' = [status EXCEPT ![t] = "queued"]
  /\ UNCHANGED <<startedToday, active, creditRows, runState, beats, bounds>>

LockedWhileRunning(t) == status[t] = "running"
Locked(t) == status[t] \in {"running", "done"}

PatchTask(t, s) ==
  /\ status[t] # "none" /\ ~Locked(t)
  /\ status' = [status EXCEPT ![t] = s]
  /\ UNCHANGED <<startedToday, active, creditRows, runState, beats, bounds>>

\* The dashboard's routes and the agents' org.create_task and org.update_task: the same rows,
\* under the same lock.
EditTask(t) == CreateTask(t) \/ \E s \in {"pending", "queued", "deleted"} : PatchTask(t, s)

\* POST /tasks/:id/run looks at neither the status nor the caps.
RunNow(t) ==
  /\ OwnerRuns /\ status[t] # "none"
  /\ StartTaskRun(t)
  /\ UNCHANGED beats

SetActive(c, a) ==
  /\ active' = [active EXCEPT ![c] = a]
  /\ UNCHANGED <<taskRows, creditRows, runState, beats, bounds>>

GrantCredits ==
  /\ grants < MaxGrants /\ grants' = grants + 1
  /\ wallet' = wallet + Grant
  /\ UNCHANGED <<taskRows, active, spentToday, overrun, charged, refunded, marker,
                 runState, beats, runs, faults, day>>

UtcMidnight ==
  /\ day < MaxDays /\ day' = day + 1
  /\ startedToday' = [t \in Tasks |-> FALSE]
  /\ spentToday' = 0
  /\ UNCHANGED <<status, active, wallet, overrun, charged, refunded, marker,
                 runState, beats, runs, faults, grants>>

HeartbeatStep(h) == PickTask(h) \/ HeartbeatEnd(h) \/ StartChild(h) \/ ChildRefused(h)

Next ==
  \/ \E t \in Tasks :
       \/ RunTask(t)
       \/ Fault(t)
       \/ EditTask(t)
       \/ RunNow(t)
  \/ \E h \in Heartbeats : HeartbeatStart(h) \/ HeartbeatStep(h)
  \/ \E c \in Companies, a \in BOOLEAN : SetActive(c, a)
  \/ GrantCredits
  \/ UtcMidnight

Spec == Init /\ [][Next]_vars

\* Temporal keeps driving the workflows it has started; the owner, the cron
\* schedule and the faults owe nothing.
Fairness ==
  /\ \A t \in Tasks : WF_vars(RunTask(t))
  /\ \A h \in Heartbeats : WF_vars(HeartbeatStep(h))

FairSpec == Spec /\ Fairness

----------------------------------------------------------------------------
TypeOK ==
  /\ status \in [Tasks -> Statuses] /\ startedToday \in [Tasks -> BOOLEAN]
  /\ active \in [Companies -> BOOLEAN]
  /\ wallet \in Int /\ spentToday \in Int /\ overrun \in Nat
  /\ charged \in [Tasks -> Nat] /\ refunded \in [Tasks -> Nat]
  /\ marker \in [Tasks -> BOOLEAN]
  /\ pc \in [Tasks -> Points] /\ attempt \in [Tasks -> 1..MaxAttempts]
  /\ cost \in [Tasks -> Nat]
  /\ unlogged \in [Tasks -> Int] /\ events \in [Tasks -> Int]
  /\ beat \in [Heartbeats -> {"idle", "dispatch", "picked", "waiting"}]
  /\ picked \in [Heartbeats -> Tasks]
  /\ runs \in [Tasks -> Nat] /\ faults \in Nat /\ grants \in Nat /\ day \in Nat

\* chargeTask reads the balance and inserts the hold in two statements, so runs
\* that check together all pass: the wallet can be overdrawn, but by no more
\* than one hold for every other task, whatever the retries and re-runs; costs
\* above the hold come on top (reconcileTask takes them without a check).
OverdraftBound == wallet + overrun >= -((Cardinality(Tasks) - 1) * Estimate)

\* A task is 'running' only while a TaskRun is there to end that: otherwise its
\* company would never dispatch again (pickNextTask: task_already_running).
RunningHasRun == \A t \in Tasks : status[t] = "running" => pc[t] # "closed"

\* reconcileTask: once a task is done, what it was charged net of refunds is
\* what its worker cost.
NetChargeIsCost ==
  \A t \in Tasks : pc[t] = "closed" /\ status[t] = "done" => charged[t] - refunded[t] = cost[t]

\* TaskRun, catch block: a failed task is made whole, with every hold its attempts
\* and retries took, before or after a reconcile.
MadeWhole ==
  \A t \in Tasks : pc[t] = "closed" /\ status[t] = "failed" => charged[t] = refunded[t]

\* The stronger reading, that whenever a run ends otherwise than done everything
\* it held is back (taskWorkflows.ts: "full refund on any failure").
FullRefund ==
  \A t \in Tasks : pc[t] = "closed" /\ status[t] # "done" => charged[t] = refunded[t]

\* The public ledger tells the same story as the wallet: when no attempt failed,
\* the credit_change events of a closed run add up to its credit rows.
LedgerMatchesWallet ==
  faults = 0 => \A t \in Tasks : pc[t] = "closed" => events[t] = refunded[t] - charged[t]

\* With one heartbeat per company and no manual Run, a company has at most one
\* task running, and starts at most DailyTaskCap tasks in a UTC day.
OneTaskPerCompany == \A c \in Companies : Cardinality(RunningIn(c)) <= 1
DailyCapHolds == \A c \in Companies : Cardinality(StartedTodayIn(c)) <= DailyTaskCap

\* A closed run's bill, its refund and its public trace, together (taskActivities.ts:110-190).
Billed == NetChargeIsCost /\ MadeWhole /\ LedgerMatchesWallet
\* The dispatch's limits (taskActivities.ts:499-550).
LimitsHold == OneTaskPerCompany /\ DailyCapHolds

\* No patch, retry or late run takes a finished task out of 'done'.
DoneIsFinal == [][\A t \in Tasks : status[t] = "done" => status'[t] = "done"]_vars

\* Every TaskRun ends, however its attempts fail, and so does every heartbeat:
\* its loop cannot go round for ever.
RunsEnd == \A t \in Tasks : pc[t] # "closed" ~> pc[t] = "closed"
HeartbeatsEnd == \A h \in Heartbeats : beat[h] # "idle" ~> beat[h] = "idle"

\* Neither goes on for ever (taskWorkflows.ts:10-99).
EverythingEnds == RunsEnd /\ HeartbeatsEnd

\* The bill of one task as its rows tell it.
Phase(t) ==
  CASE marker[t] /\ charged[t] - refunded[t] = cost[t] -> "settled"
    [] ~marker[t] /\ charged[t] = 0 -> "none"
    [] ~marker[t] /\ refunded[t] = 0 /\ charged[t] # 0 -> "held"
    [] OTHER -> "refunded"

Billing == INSTANCE TaskBilling WITH
  phase <- [t \in Tasks |-> Phase(t)],
  net <- [t \in Tasks |-> charged[t] - refunded[t]]

\* A task that is run once is billed as TaskBilling says.
BillsOnce == Billing!Spec
=============================================================================
