------------------------------ MODULE CeoPlan ------------------------------
(***************************************************************************)
(* One company's CEO: the heartbeat's planning (an activity Temporal       *)
(* retries), the owner's chat that plans beside it, and the daily dispatch *)
(* of what they queued, by priority and age.                               *)
(*                                                                         *)
(* A step is a run of reads, one write, or one day. The queue holds the    *)
(* open tasks in the order they were created; a title is a model value,    *)
(* and which titles are near-duplicates is a constant. The wallet is       *)
(* above or below one task's estimate.                                     *)
(***************************************************************************)
EXTENDS Integers, Sequences, FiniteSets, SequencesExt

CONSTANTS
  Titles, Near,          \* titles, the pairs isNearDuplicateTitle holds of
  OldTask, OldPriority,  \* the task in the queue when the model begins
  Priorities,            \* what planners may choose, of 0..10
  Chats,                 \* chat requests of the owner
  Missions,              \* texts the mission may have
  DailyCap, AgingCap,    \* daily_task_cap, the bound of the age boost
  MaxPlan,               \* tasks of one plan (10 in a heartbeat, 5 in a chat)
  MaxPlanAttempts,       \* of the planning activity
  MaxQueue, MaxPlanFaults  \* bounds of the model

ASSUME CeoPlanAssumption ==
  /\ Near \subseteq Titles \X Titles
  /\ \A t \in Titles : <<t, t>> \in Near
  /\ \A t, u \in Titles : <<t, u>> \in Near => <<u, t>> \in Near
  /\ OldTask \in Titles /\ OldPriority \in 0..10 /\ Priorities \subseteq 0..10
  /\ DailyCap \in Nat /\ AgingCap \in Nat /\ MaxPlan \in Nat /\ MaxPlanAttempts \in Nat \ {0}
  /\ MaxQueue \in Nat \ {0} /\ MaxPlanFaults \in Nat

Heartbeat == "heartbeat"
Planners == {Heartbeat} \cup Chats
ASSUME PlannersAssumption == Heartbeat \notin Chats

VARIABLES
  queue,         \* open tasks: [title, priority, age, running, by]
  startedToday,  \* tasks started since midnight
  reported,      \* some task is done or failed
  funded,        \* the wallet covers one task's estimate
  mission,       \* companies.mission
  logged,        \* the mission the ledger's last mission_updated (or the founding) names
  planner,       \* per planner: where it is and what it read
  attempts,      \* attempts of the planning activity that began today
  beaten,        \* the heartbeat of today is over
  unlogged,      \* history: a mission's event was lost, or overtaken by another's
  planFaults

planVars == <<queue, startedToday, reported, funded, mission, logged, planner, attempts, beaten, unlogged, planFaults>>

near(t, u) == <<t, u>> \in Near
TitlesOf(q) == {q[i].title : i \in 1..Len(q)}
Queued == {i \in 1..Len(queue) : ~queue[i].running}
Running == {i \in 1..Len(queue) : queue[i].running}

Row(t, p, by) == [title |-> t, priority |-> p, age |-> 0, running |-> FALSE, by |-> by]
Idle == [at |-> "idle", mission |-> CHOOSE m \in Missions : TRUE, todo |-> {}, open |-> {}, patch |-> "none"]

PlanInit ==
  /\ queue = <<Row(OldTask, OldPriority, "founder")>>
  /\ startedToday = 0 /\ reported \in BOOLEAN /\ funded \in BOOLEAN
  /\ mission \in Missions /\ logged = mission
  /\ planner = [p \in Planners |-> Idle]
  /\ attempts = 0 /\ beaten = FALSE /\ unlogged = FALSE /\ planFaults = 0

Becomes(p, r) == planner' = [planner EXCEPT ![p] = r]
Goto(p, at) == Becomes(p, [planner[p] EXCEPT !.at = at])
Restart(p, at) == Becomes(p, [Idle EXCEPT !.at = at])
OnlyPlanner == UNCHANGED <<queue, startedToday, reported, funded, mission, logged, attempts, beaten, unlogged, planFaults>>

----------------------------------------------------------------------------
(* runCeoPlanning, an attempt of the heartbeat's activity; ceoChat.        *)

StartAttempt ==
  /\ planner[Heartbeat].at = "idle" /\ ~beaten /\ attempts < MaxPlanAttempts
  /\ attempts' = attempts + 1
  /\ Becomes(Heartbeat, [Idle EXCEPT !.at = "context", !.mission = mission])
  /\ UNCHANGED <<queue, startedToday, reported, funded, mission, logged, beaten, unlogged, planFaults>>

\* Nothing has reported and the launch playbook waits: no planning. Nor without funds.
AwaitsFirstResults == ~reported /\ Queued # {}
GatherContext ==
  /\ planner[Heartbeat].at = "context"
  /\ IF AwaitsFirstResults \/ ~funded THEN Restart(Heartbeat, "dispatch") ELSE Goto(Heartbeat, "plan")
  /\ OnlyPlanner

StartChat(p) ==
  /\ p \in Chats /\ planner[p].at = "idle"
  /\ Restart(p, "plan")
  /\ OnlyPlanner

\* The departments and the CEO answer, or fail and are stood in for by fallbackPlan, which
\* adopts as many proposals as the daily cap allows, and one follow-up if nothing is queued.
NewTasks(limit) == {new \in SUBSET (Titles \X Priorities) :
                      Cardinality(new) <= limit /\ \A a, b \in new : a[1] = b[1] => a = b}
PlanLimit(p) == IF p \in Chats THEN {MaxPlan} ELSE {MaxPlan, IF DailyCap > 1 THEN DailyCap ELSE 1}
MissionPatches(p) == IF p \in Chats THEN {"none"} ELSE Missions \cup {"none"}
Plan(p) ==
  /\ planner[p].at = "plan"
  /\ \E limit \in PlanLimit(p), patch \in MissionPatches(p) : \E new \in NewTasks(limit) :
       Becomes(p, [planner[p] EXCEPT !.at = "apply", !.todo = new, !.patch = patch])
  /\ OnlyPlanner

----------------------------------------------------------------------------
(* applyCeoPlan.                                                           *)

\* The heartbeat looks at the wallet again; the open titles are read once.
ReadOpen(p) ==
  /\ planner[p].at = "apply"
  /\ IF p = Heartbeat /\ ~funded THEN Restart(p, "event")
     ELSE Becomes(p, [planner[p] EXCEPT !.at = "insert", !.open = TitlesOf(queue)])
  /\ OnlyPlanner

SameTitle(p, t) == t \in planner[p].open
NearDuplicate(p, t) == \E u \in planner[p].open : near(u, t)
Full == Len(queue) >= MaxQueue      \* bound: a full queue takes no more

QueueTask(p, new) ==
  /\ planner[p].at = "insert" /\ new \in planner[p].todo
  /\ LET skip == NearDuplicate(p, new[1]) \/ Full
     IN /\ queue' = IF skip THEN queue ELSE Append(queue, Row(new[1], new[2], p))
        /\ Becomes(p, [planner[p] EXCEPT !.todo = @ \ {new},
                                         !.open = IF skip THEN @ ELSE @ \cup {new[1]}])
  /\ UNCHANGED <<startedToday, reported, funded, mission, logged, attempts, beaten, unlogged, planFaults>>

\* The patch is compared with the mission as it was when the attempt began.
UpdateMission(p) ==
  /\ planner[p].at = "insert" /\ planner[p].todo = {}
  /\ IF planner[p].patch \in {"none", planner[p].mission}
     THEN mission' = mission /\ Restart(p, "event")
     ELSE mission' = planner[p].patch
          /\ Becomes(p, [Idle EXCEPT !.at = "mission_event", !.patch = planner[p].patch])
  /\ UNCHANGED <<queue, startedToday, reported, funded, logged, attempts, beaten, unlogged, planFaults>>

LogMission(p) ==
  /\ planner[p].at = "mission_event"
  /\ logged' = planner[p].patch
  /\ Restart(p, "event")
  /\ UNCHANGED <<queue, startedToday, reported, funded, mission, attempts, beaten, unlogged, planFaults>>

\* The ceo_plan or ceo_chat event; the heartbeat's lessons follow, best effort.
LogPlan(p) ==
  /\ planner[p].at = "event"
  /\ Restart(p, IF p = Heartbeat THEN "dispatch" ELSE "idle")
  /\ OnlyPlanner

\* An attempt throws, or its worker dies: the activity is retried from its start, and
\* once the attempts are used up the heartbeat goes on to dispatch. A chat just fails.
AfterFailureStuck(p) ==
  IF p = Heartbeat /\ attempts = MaxPlanAttempts THEN [Idle EXCEPT !.at = "failed"] ELSE Idle
AfterFailure(p) ==
  IF p = Heartbeat /\ attempts = MaxPlanAttempts THEN [Idle EXCEPT !.at = "dispatch"] ELSE Idle
PlanAttemptFails(p) ==
  /\ planner[p].at \in {"context", "plan", "apply", "insert", "mission_event", "event"}
  /\ planFaults < MaxPlanFaults /\ planFaults' = planFaults + 1
  /\ Becomes(p, AfterFailure(p))
  /\ unlogged' = (unlogged \/ planner[p].at = "mission_event")
  /\ UNCHANGED <<queue, startedToday, reported, funded, mission, logged, attempts, beaten>>

----------------------------------------------------------------------------
(* pickNextTask and the child it runs, until no task may be dispatched.    *)

Boost(row) == IF row.age < AgingCap THEN row.age ELSE AgingCap
Effective(row) == row.priority + Boost(row)
\* ORDER BY effective priority DESC, created_at LIMIT 1.
IsNext(i) ==
  \A j \in Queued : \/ Effective(queue[i]) > Effective(queue[j])
                    \/ Effective(queue[i]) = Effective(queue[j]) /\ i <= j

MayDispatch == Running = {} /\ startedToday < DailyCap /\ funded
PickNextTask ==
  /\ planner[Heartbeat].at = "dispatch" /\ MayDispatch
  /\ \E i \in Queued : IsNext(i) /\ queue' = [queue EXCEPT ![i].running = TRUE]
  /\ startedToday' = startedToday + 1
  /\ UNCHANGED <<reported, funded, mission, logged, planner, attempts, beaten, unlogged, planFaults>>

\* TaskRun ends, done or failed.
TaskEnds ==
  /\ \E i \in Running : queue' = RemoveAt(queue, i)
  /\ reported' = TRUE
  /\ UNCHANGED <<startedToday, funded, mission, logged, planner, attempts, beaten, unlogged, planFaults>>

EndHeartbeat ==
  /\ planner[Heartbeat].at = "dispatch" /\ Running = {}
  /\ ~MayDispatch \/ Queued = {}
  /\ Becomes(Heartbeat, Idle) /\ beaten' = TRUE
  /\ UNCHANGED <<queue, startedToday, reported, funded, mission, logged, attempts, unlogged, planFaults>>

\* The next day's heartbeat; every task is a day older.
NextDay ==
  /\ beaten
  /\ beaten' = FALSE /\ attempts' = 0 /\ startedToday' = 0
  /\ queue' = [i \in 1..Len(queue) |-> [queue[i] EXCEPT !.age = IF @ < AgingCap THEN @ + 1 ELSE @]]
  /\ UNCHANGED <<reported, funded, mission, logged, planner, unlogged, planFaults>>

\* Charges and top-ups of the shared wallet.
Wallet ==
  /\ funded' = ~funded
  /\ UNCHANGED <<queue, startedToday, reported, mission, logged, planner, attempts, beaten, unlogged, planFaults>>

----------------------------------------------------------------------------
Apply(p) == ReadOpen(p) \/ (\E new \in planner[p].todo : QueueTask(p, new)) \/ UpdateMission(p) \/ LogMission(p) \/ LogPlan(p)
Step(p) == Plan(p) \/ Apply(p)
Dispatch == PickNextTask \/ TaskEnds \/ EndHeartbeat

PlanNext ==
  \/ StartAttempt \/ GatherContext
  \/ \E p \in Chats : StartChat(p)
  \/ \E p \in Planners : Step(p) \/ PlanAttemptFails(p)
  \/ Dispatch \/ NextDay \/ Wallet

PlanSpec == PlanInit /\ [][PlanNext]_planVars

\* The daily schedule fires, and what is started goes on.
Fairness == WF_planVars(StartAttempt \/ GatherContext) /\ WF_planVars(Step(Heartbeat)) /\ WF_planVars(Dispatch) /\ WF_planVars(NextDay)
FairPlan == PlanSpec /\ Fairness

----------------------------------------------------------------------------
(* Properties.                                                             *)

\* What one planner queued is not queued again while it is open: not by a retry of its
\* attempt, by a later plan that words it differently, or twice in a plan (ceo.ts:224-251).
NoRework ==
  \A i, j \in 1..Len(queue) : i # j /\ queue[i].by = queue[j].by => ~near(queue[i].title, queue[j].title)

\* The ledger tells the mission the company has, unless an attempt died between the
\* update and its event: its retry finds nothing to change (ceo.ts:253-263).
MissionOnLedger ==
  logged = mission \/ unlogged \/ planner[Heartbeat].at = "mission_event"

\* A plan's effects, through retries and beside the owner's chat.
PlansApplyOnce == NoRework /\ MissionOnLedger

\* Whatever planning does, a company with funds and open tasks keeps running them: a
\* planning failure never blocks dispatch (taskWorkflows.ts:62-92).
PlanningNeverBlocks == <>[]funded => []<>(queue = <<>> \/ Running # {})
=============================================================================
