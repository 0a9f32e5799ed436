----------------------------- MODULE AdBudgets -----------------------------
(***************************************************************************)
(* One company's ad campaigns: the workers' ads tools behind the budget    *)
(* gate, and the heartbeat's spend sync, monthly-cap backstop and          *)
(* reallocation. Two heartbeats of a company may overlap (one scheduled,   *)
(* one started by hand), so there may be two syncs.                        *)
(*                                                                         *)
(* A step is a run of reads or one write with its event; the days of one   *)
(* campaign are upserted together. The provider is LocalAds (MetaAds       *)
(* throws on every call: a fault). Amounts are small.                      *)
(***************************************************************************)
EXTENDS Integers, FiniteSets, FiniteSetsExt, Functions

CONSTANTS
  Campaigns, Calls, Syncs,   \* campaigns, gated tool calls, heartbeats
  Budgets, Caps, Levels, Revenues,   \* what tools, the owner and sales may choose
  ThinDays,                  \* the days on which LocalAds spends 80% of a budget
  MinSpend, MaxBudget, MinBudget, TargetRoas,   \* ReallocationOpts
  Running, FirstDay,    \* campaigns launched on day 1; the day on which the model begins
  MonthLength, MaxDay, MaxFaults, MaxCalls      \* bounds of the model

ASSUME AdBudgetsAssumption ==
  /\ IsFiniteSet(Campaigns) /\ Campaigns # {} /\ IsFiniteSet(Syncs)
  /\ Budgets \subseteq MinBudget..MaxBudget /\ Caps \subseteq Nat /\ 0 \in Caps
  /\ Levels \subseteq {"supervised", "bounded", "full"} /\ Revenues \subseteq Nat /\ ThinDays \subseteq Nat
  /\ MinSpend \in Nat /\ TargetRoas \in Nat
  /\ MinBudget \in Nat \ {0} /\ MaxBudget \in Nat /\ MinBudget <= MaxBudget
  /\ MonthLength \in Nat \ {0} /\ MaxDay \in Nat \ {0} /\ MaxFaults \in Nat /\ MaxCalls \in Nat
  /\ Running \subseteq Campaigns /\ FirstDay \in 1..MaxDay

VARIABLES
  cap, autonomy,        \* companies.ad_monthly_budget_cap_cents, autonomy_level
  campaign,             \* ad_campaigns: [status, budget, launched]
  spend,                \* ad_spend, by (campaign, day)
  today,
  call,                 \* per tool call: [at, tool, campaign, budget]
  sync,                 \* per heartbeat: where it is and what it read
  launchedSince,        \* history: per sync, campaigns launched since its snapshot
  unannounced,          \* history: what the last sync added to the spend, less its event
  overlapped,           \* history: the last sync met another one mirroring the spend
  calls, faults

owner == <<cap, autonomy>>
audit == <<unannounced, overlapped>>
vars == <<owner, campaign, spend, today, call, sync, launchedSince, audit, calls, faults>>

Days == 1..MaxDay
MonthStartDay(day) == day - ((day - 1) % MonthLength)
ActiveCampaigns == {c \in Campaigns : campaign[c].status = "active"}

\* monthlyAdSpendCents: SUM(spend_cents) of this month's rows.
MonthOf(rows) ==
  LET upTo[d \in 0..today] == IF d < MonthStartDay(today) THEN 0 ELSE upTo[d - 1] + rows[d]
  IN upTo[today]
SpendOf(c) == MonthOf(spend[c])
MonthSpend == SumFunction([c \in Campaigns |-> SpendOf(c)])

IdleCall == [at |-> "idle", tool |-> "launch", campaign |-> CHOOSE c \in Campaigns : TRUE,
             budget |-> MinBudget]
IdleSync == [at |-> "idle", cap |-> 0, day |-> 1, before |-> 0, todo |-> {},
             snapshot |-> {}, budget |-> [c \in Campaigns |-> MinBudget],
             action |-> [c \in Campaigns |-> "hold"]]

Init ==
  /\ cap \in Caps /\ autonomy \in Levels
  /\ campaign = [c \in Campaigns |-> [status |-> IF c \in Running THEN "active" ELSE "none",
                                    budget |-> MinBudget, launched |-> 1]]
  /\ spend = [c \in Campaigns |-> [d \in Days |-> 0]]
  /\ today = FirstDay
  /\ call = [w \in Calls |-> IdleCall]
  /\ sync = [s \in Syncs |-> IdleSync]
  /\ launchedSince = [s \in Syncs |-> {}]
  /\ unannounced = 0 /\ overlapped = FALSE
  /\ calls = 0 /\ faults = 0

----------------------------------------------------------------------------
(* The ads tools.                                                          *)

CreateCampaign(c, b) ==
  /\ campaign[c].status = "none"
  /\ campaign' = [campaign EXCEPT ![c] = [status |-> "paused", budget |-> b, launched |-> 1]]
  /\ UNCHANGED <<owner, spend, today, call, sync, launchedSince, audit, calls, faults>>

PauseCampaign(c) ==
  /\ campaign[c].status = "active"
  /\ campaign' = [campaign EXCEPT ![c].status = "paused"]
  /\ UNCHANGED <<owner, spend, today, call, sync, launchedSince, audit, calls, faults>>

\* set_budget or launch_campaign reaches the autonomy gate; launch_campaign's
\* budgetGate reads the campaign's budget there.
CallTool(w, tool, c, b) ==
  /\ call[w].at = "idle" /\ calls < MaxCalls /\ calls' = calls + 1
  /\ campaign[c].status # "none"
  /\ tool = "launch" => b = campaign[c].budget
  /\ call' = [call EXCEPT ![w] = [at |-> "gate", tool |-> tool, campaign |-> c, budget |-> b]]
  /\ UNCHANGED <<owner, campaign, spend, today, sync, launchedSince, audit, faults>>

\* cap = 0 means ads are off.
withinMonthlyCap(spent, requested, limit) == limit > 0 /\ spent + requested <= limit

Allowed(w) ==
  \/ autonomy = "full"
  \/ autonomy = "bounded" /\ withinMonthlyCap(MonthSpend, call[w].budget, cap)

\* Not allowed: the call is parked, and the owner's approval runs it as it is.
Gate(w) ==
  /\ call[w].at = "gate"
  /\ call' = [call EXCEPT ![w].at = IF Allowed(w) THEN "handler" ELSE "parked"]
  /\ UNCHANGED <<owner, campaign, spend, today, sync, launchedSince, audit, calls, faults>>

Approve(w) ==
  /\ call[w].at = "parked"
  /\ call' = [call EXCEPT ![w].at = "handler"]
  /\ UNCHANGED <<owner, campaign, spend, today, sync, launchedSince, audit, calls, faults>>

\* Rejected, or the provider refused the handler's call.
Drop(w) ==
  /\ call[w].at \in {"parked", "handler"}
  /\ call' = [call EXCEPT ![w] = IdleCall]
  /\ UNCHANGED <<owner, campaign, spend, today, sync, launchedSince, audit, calls, faults>>

SetBudget(w) ==
  /\ call[w].at = "handler" /\ call[w].tool = "set_budget"
  /\ campaign' = [campaign EXCEPT ![call[w].campaign].budget = call[w].budget]
  /\ call' = [call EXCEPT ![w] = IdleCall]
  /\ UNCHANGED <<owner, spend, today, sync, launchedSince, audit, calls, faults>>

AfterSnapshot == {"insights", "pause"}
Launch(w) ==
  /\ call[w].at = "handler" /\ call[w].tool = "launch"
  /\ campaign' = [campaign EXCEPT ![call[w].campaign].status = "active",
                                  ![call[w].campaign].launched = today]
  /\ launchedSince' = [s \in Syncs |-> IF sync[s].at \in AfterSnapshot
                                       THEN launchedSince[s] \cup {call[w].campaign} ELSE {}]
  /\ call' = [call EXCEPT ![w] = IdleCall]
  /\ UNCHANGED <<owner, spend, today, sync, audit, calls, faults>>

----------------------------------------------------------------------------
(* syncCompanyAdSpend.                                                     *)

Becomes(s, r) == sync' = [sync EXCEPT ![s] = r]
Quiet == UNCHANGED <<owner, campaign, spend, today, call, launchedSince, audit, calls, faults>>
Others(s) == Syncs \ {s}

\* The reads a sync begins with: the cap, the active campaigns, the month's spend.
StartSync(s) ==
  /\ sync[s].at = "idle"
  /\ Becomes(s, [at |-> "insights", cap |-> cap, day |-> today, before |-> MonthSpend,
                 todo |-> ActiveCampaigns, snapshot |-> ActiveCampaigns,
                 budget |-> [c \in Campaigns |-> campaign[c].budget],
                 action |-> IdleSync.action])
  /\ launchedSince' = [launchedSince EXCEPT ![s] = {}]
  /\ overlapped' = (\E t \in Others(s) : sync[t].at = "insights")
  /\ unannounced' = 0
  /\ UNCHANGED <<owner, campaign, spend, today, call, calls, faults>>

\* LocalAds.insights: every day since the launch, or since the month's start, is
\* simulated again, from the budget the campaign had in the snapshot.
DaySpend(b, d) == IF d \in ThinDays THEN (8 * b + 5) \div 10 ELSE b
SinceDay(c, day) ==
  IF campaign[c].launched > MonthStartDay(day) THEN campaign[c].launched ELSE MonthStartDay(day)
Insights(s, c) ==
  [d \in Days |-> IF d \in SinceDay(c, sync[s].day)..sync[s].day
                  THEN DaySpend(sync[s].budget[c], d) ELSE spend[c][d]]

Upsert(s, c) ==
  /\ sync[s].at = "insights" /\ c \in sync[s].todo
  /\ spend' = [spend EXCEPT ![c] = Insights(s, c)]
  /\ unannounced' = IF overlapped THEN 0 ELSE unannounced + MonthOf(Insights(s, c)) - SpendOf(c)
  /\ Becomes(s, [sync[s] EXCEPT !.todo = @ \ {c}])
  /\ UNCHANGED <<owner, campaign, today, call, launchedSince, overlapped, calls, faults>>

\* The provider's hiccup skips the campaign and never blocks the sync.
SkipInsights(s, c) ==
  /\ sync[s].at = "insights" /\ c \in sync[s].todo
  /\ Becomes(s, [sync[s] EXCEPT !.todo = @ \ {c}])
  /\ Quiet

OverCapStrictly(s) == sync[s].cap > 0 /\ MonthSpend > sync[s].cap
OverCap(s) == sync[s].cap > 0 /\ MonthSpend >= sync[s].cap

IncreaseOfToday(s) == MapThenSumSet(LAMBDA c : spend[c][today], sync[s].snapshot)
Increase(s) == Max({MonthSpend - sync[s].before, 0})

\* Reads the spend again, appends the increase, and turns to the backstop.
Announce(s) ==
  /\ sync[s].at = "insights" /\ sync[s].todo = {}
  /\ unannounced' = IF overlapped THEN 0 ELSE unannounced - Increase(s)
  /\ Becomes(s, IF OverCap(s) THEN [IdleSync EXCEPT !.at = "pause", !.snapshot = sync[s].snapshot,
                                                   !.todo = sync[s].snapshot]
                              ELSE [IdleSync EXCEPT !.at = "optimize"])
  /\ UNCHANGED <<owner, campaign, spend, today, call, launchedSince, overlapped, calls, faults>>

AutoPauseUnlessRefused(s, c) ==
  /\ sync[s].at = "pause" /\ c \in sync[s].todo
  /\ \E refused \in BOOLEAN :
       campaign' = [campaign EXCEPT ![c].status = IF refused THEN @ ELSE "paused"]
  /\ Becomes(s, [sync[s] EXCEPT !.todo = @ \ {c}])
  /\ UNCHANGED <<owner, spend, today, call, launchedSince, audit, calls, faults>>
\* The provider's error is swallowed; the row is paused whatever it is by now.
AutoPause(s, c) ==
  /\ sync[s].at = "pause" /\ c \in sync[s].todo
  /\ campaign' = [campaign EXCEPT ![c].status = "paused"]
  /\ Becomes(s, [sync[s] EXCEPT !.todo = @ \ {c}])
  /\ UNCHANGED <<owner, spend, today, call, launchedSince, audit, calls, faults>>

BudgetExceeded(s) ==
  /\ sync[s].at = "pause" /\ sync[s].todo = {}
  /\ Becomes(s, [IdleSync EXCEPT !.at = "optimize"])
  /\ Quiet

----------------------------------------------------------------------------
(* optimizeCompanyAds.                                                     *)

Raised(b) == Min({(3 * b + 1) \div 2, MaxBudget})
Lowered(b) == Max({(b + 1) \div 2, MinBudget})

\* planReallocation for one campaign: ROAS is revenue / spent, 0 without spend.
planReallocation(b, spent, revenue, hasHeadroom) ==
  LET AtLeast(n, d) == spent > 0 /\ d * revenue >= n * spent
      hold == [action |-> "hold", to |-> b]
      change(act, to) == IF to # b THEN [action |-> act, to |-> to] ELSE hold
  IN IF spent < MinSpend THEN hold
     ELSE IF AtLeast(TargetRoas, 1) /\ hasHeadroom THEN change("increase", Raised(b))
     ELSE IF ~AtLeast(1, 2) THEN [action |-> "pause", to |-> b]
     ELSE IF ~AtLeast(1, 1) THEN change("decrease", Lowered(b))
     ELSE hold

\* Budgets rise only while month-to-date is under 90% of the cap.
Headroom == cap > 0 /\ 10 * MonthSpend < 9 * cap

Autonomous == autonomy \in {"bounded", "full"}

\* Supervised companies have nothing to optimize. The decisions are made from the
\* active campaigns with this month's spend and attributed revenue.
Plan(s) ==
  /\ sync[s].at = "optimize"
  /\ IF ~Autonomous THEN Becomes(s, IdleSync)
     ELSE \E revenue \in [ActiveCampaigns -> Revenues] :
            LET d == [c \in ActiveCampaigns |->
                        planReallocation(campaign[c].budget, SpendOf(c), revenue[c], Headroom)]
                moves == {c \in ActiveCampaigns : d[c].action # "hold"}
            IN Becomes(s, IF moves = {} THEN IdleSync ELSE
                 [IdleSync EXCEPT !.at = "apply", !.todo = moves,
                    !.budget = [c \in Campaigns |-> IF c \in moves THEN d[c].to ELSE MinBudget],
                    !.action = [c \in Campaigns |-> IF c \in moves THEN d[c].action ELSE "hold"]])
  /\ Quiet

Decided(s, c) ==
  LET left == sync[s].todo \ {c}
  IN Becomes(s, IF left = {} THEN IdleSync ELSE [sync[s] EXCEPT !.todo = left])

\* One decision is applied by id, whatever has become of the campaign since.
Apply(s, c) ==
  /\ sync[s].at = "apply" /\ c \in sync[s].todo
  /\ campaign' = IF sync[s].action[c] = "pause"
                 THEN [campaign EXCEPT ![c].status = "paused"]
                 ELSE [campaign EXCEPT ![c].budget = sync[s].budget[c]]
  /\ Decided(s, c)
  /\ UNCHANGED <<owner, spend, today, call, launchedSince, audit, calls, faults>>

SkipMove(s, c) ==
  /\ sync[s].at = "apply" /\ c \in sync[s].todo
  /\ Decided(s, c)
  /\ Quiet

\* An await throws or the gateway dies: 502, and the activity may be retried from
\* the sync on. What was upserted and not announced is announced by nobody.
SyncFails(s) ==
  /\ sync[s].at # "idle" /\ faults < MaxFaults /\ faults' = faults + 1
  /\ unannounced' = IF sync[s].at = "insights" THEN 0 ELSE unannounced
  /\ Becomes(s, IdleSync)
  /\ UNCHANGED <<owner, campaign, spend, today, call, launchedSince, overlapped, calls>>

----------------------------------------------------------------------------
SetCap(n) ==
  /\ n # cap /\ cap' = n
  /\ UNCHANGED <<autonomy, campaign, spend, today, call, sync, launchedSince, audit, calls, faults>>

Midnight ==
  /\ today < MaxDay
  /\ today' = today + 1
  /\ unannounced' = IF MonthStartDay(today + 1) = today + 1 THEN 0 ELSE unannounced
  /\ UNCHANGED <<owner, campaign, spend, call, sync, launchedSince, overlapped, calls, faults>>

Tool(w) ==
  \/ \E tool \in {"launch", "set_budget"}, c \in Campaigns, b \in MinBudget..MaxBudget :
       /\ tool = "set_budget" => b \in Budgets
       /\ CallTool(w, tool, c, b)
  \/ Gate(w)
  \/ Approve(w)
  \/ Drop(w)
  \/ SetBudget(w)
  \/ Launch(w)

\* The steps a heartbeat takes unless something throws.
SyncStep(s) ==
  \/ StartSync(s)
  \/ \E c \in Campaigns : Upsert(s, c)
  \/ Announce(s)
  \/ \E c \in Campaigns : AutoPause(s, c)
  \/ BudgetExceeded(s)
  \/ Plan(s)
  \/ \E c \in Campaigns : Apply(s, c)

Next ==
  \/ \E c \in Campaigns, b \in Budgets : CreateCampaign(c, b)
  \/ \E c \in Campaigns : PauseCampaign(c)
  \/ \E w \in Calls : Tool(w)
  \/ \E s \in Syncs : SyncStep(s) \/ SyncFails(s)
  \/ \E s \in Syncs, c \in Campaigns : SkipInsights(s, c) \/ SkipMove(s, c)
  \/ \E n \in Caps : SetCap(n)
  \/ Midnight

Spec == Init /\ [][Next]_vars

\* The schedule starts heartbeats and the gateway serves them; the company is not
\* paused. Agents, owners and the clock owe nothing.
FairSpec == Spec /\ \A s \in Syncs : WF_vars(SyncStep(s))

----------------------------------------------------------------------------
TypeOK ==
  /\ cap \in Caps /\ autonomy \in Levels
  /\ campaign \in [Campaigns -> [status : {"none", "paused", "active"},
                                 budget : MinBudget..MaxBudget, launched : Days]]
  /\ spend \in [Campaigns -> [Days -> 0..MaxBudget]]
  /\ today \in Days
  /\ call \in [Calls -> [at : {"idle", "gate", "parked", "handler"},
                         tool : {"launch", "set_budget"}, campaign : Campaigns,
                         budget : MinBudget..MaxBudget]]
  /\ \A s \in Syncs :
       /\ sync[s].at \in {"idle", "insights", "pause", "optimize",
                          "apply"}
       /\ sync[s].cap \in Caps
       /\ sync[s].snapshot \subseteq Campaigns /\ sync[s].todo \subseteq Campaigns
       /\ sync[s].budget \in [Campaigns -> MinBudget..MaxBudget]
  /\ unannounced \in Int /\ overlapped \in BOOLEAN

\* The cap's backstop: when a sync that found the month's spend at the cap has
\* paused its campaigns, what is active was launched after it looked.
BackstopHolds ==
  \A s \in Syncs :
    sync[s].at = "pause" /\ sync[s].todo = {} => ActiveCampaigns \subseteq launchedSince[s]

\* The public audit of ad spend: an ad_spend event covers all a sync has added to
\* the month, unless the sync failed or met another sync of the company.
AuditCovers ==
  ~overlapped /\ (\A s \in Syncs : sync[s].at # "insights") => unannounced <= 0

\* The same of the audit's records (ads.ts:60-132).
SpendAudited == TypeOK /\ AuditCovers

OverMonthlyCap == cap > 0 /\ MonthSpend >= cap

\* A campaign that runs while the month's spend is at the cap is paused in the end,
\* however often agents launch campaigns meanwhile.
SpendStops ==
  \A c \in Campaigns :
    OverMonthlyCap /\ campaign[c].status = "active"
      ~> campaign[c].status = "paused" \/ ~OverMonthlyCap
=============================================================================
