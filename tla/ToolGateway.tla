---------------------------- MODULE ToolGateway ----------------------------
(***************************************************************************)
(* The gateway's tool pipeline for one company: rate limiter, pause check, *)
(* autonomy gate, parking of gated actions as approvals, and the owner's   *)
(* resolution of them, which runs the parked handler. Calls come from the  *)
(* company's workers, clicks from its owners' dashboards.                  *)
(*                                                                         *)
(* A step is the code between two awaits on the database or a handler. An  *)
(* action of the model is a write tool with its arguments; it has a tool,  *)
(* and so a limit, of its own. Read tools skip the limiter and the gate.   *)
(***************************************************************************)
EXTENDS Integers, FiniteSets

CONSTANTS
  Calls, Clicks,        \* requests that can be open at once: workers', owners'
  Actions, Gated, Budgeted,   \* tool calls; those with gated, with a budgetGate
  HourLimit, DayLimit,  \* ToolLimits
  Hour, Day,            \* the two windows, in ticks of the clock
  MaxRows, MaxHits, MaxClock, MaxFaults   \* bounds of the model

ASSUME ToolGatewayAssumption ==
  /\ IsFiniteSet(Calls) /\ IsFiniteSet(Clicks)
  /\ Actions # {} /\ Budgeted \subseteq Gated /\ Gated \subseteq Actions
  /\ HourLimit \in Nat \ {0} /\ DayLimit \in Nat \ {0}
  /\ Hour \in Nat \ {0} /\ Day \in Nat /\ Hour <= Day
  /\ MaxRows \in Nat /\ MaxHits \in Nat /\ MaxClock \in Nat /\ MaxFaults \in Nat

VARIABLES
  paused, autonomy,     \* companies.status = 'paused', companies.autonomy_level
  clock,
  hits,                 \* per tool: rate_limit_hits, rows [id, at]
  admitted,             \* history: the hits of the calls that were let through
  serial,               \* the next id
  at, action, hit,      \* per call: where it is, what it calls, its own hit
  row,                  \* approvals: [action, status, stale], by id
  click,                \* per click: [at, id], "idle", "approve", "record", "reject"
  executed,             \* history: per approval, how often its handler ran
  cut,                  \* history: per approval, executions that were not recorded
  sincePause,           \* history: handlers run for workers since the pause
  faults

company == <<paused, autonomy>>
limiter == <<clock, hits, admitted, serial>>
calls   == <<at, action, hit>>
parked  == <<row, click, executed, cut>>
vars == <<company, limiter, calls, parked, sincePause, faults>>

Ids == 1..MaxRows
Points == {"idle", "count", "paused?", "gate", "handler", "lookup", "insert"}
Hits == [id : Nat, at : Nat]
NoHit == [id |-> 0, at |-> 0]
NoClick == [at |-> "idle", id |-> 0]

Init ==
  /\ paused = FALSE /\ autonomy = "supervised"
  /\ clock = 0 /\ serial = 1
  /\ hits = [a \in Actions |-> {}] /\ admitted = [a \in Actions |-> {}]
  /\ at = [c \in Calls |-> "idle"]
  /\ action = [c \in Calls |-> CHOOSE a \in Actions : TRUE]
  /\ hit = [c \in Calls |-> NoHit]
  /\ row = [i \in Ids |-> [action |-> CHOOSE a \in Actions : TRUE,
                           status |-> "none", stale |-> FALSE]]
  /\ click = [k \in Clicks |-> NoClick]
  /\ executed = [i \in Ids |-> 0] /\ cut = [i \in Ids |-> 0]
  /\ sincePause = 0 /\ faults = 0

Goto(c, p) == at' = [at EXCEPT ![c] = p]

----------------------------------------------------------------------------
(* PgRateLimiter.check: record the call, prune at times, count.            *)

InWindow(h, len, now) == h.at > now - len
Within(S, len, now) == {h \in S : InWindow(h, len, now) /\ h.at <= now}

OlderThanAnHour(a) == {h \in hits[a] : h.at < clock - Hour}
Prunable(a) == {h \in hits[a] : h.at < clock - Day}

RecordHit(c, a) ==
  /\ at[c] = "idle" /\ serial <= MaxHits
  /\ action' = [action EXCEPT ![c] = a]
  /\ LET h == [id |-> serial, at |-> clock]
     IN /\ hit' = [hit EXCEPT ![c] = h]
        /\ \E old \in {{}, Prunable(a)} :
             hits' = [hits EXCEPT ![a] = (@ \ old) \cup {h}]
  /\ serial' = serial + 1
  /\ Goto(c, "count")
  /\ UNCHANGED <<company, clock, admitted, parked, sincePause, faults>>

UnderOneLimit(a) ==
  \/ Cardinality(Within(hits[a], Hour, clock)) <= HourLimit
  \/ Cardinality(Within(hits[a], Day, clock)) <= DayLimit
UnderLimits(a) ==
  /\ Cardinality(Within(hits[a], Hour, clock)) <= HourLimit
  /\ Cardinality(Within(hits[a], Day, clock)) <= DayLimit

Admit(c) ==
  /\ at[c] = "count" /\ UnderLimits(action[c])
  /\ admitted' = [admitted EXCEPT ![action[c]] = @ \cup {hit[c]}]
  /\ hit' = [hit EXCEPT ![c] = NoHit]
  /\ Goto(c, "paused?")
  /\ UNCHANGED <<company, clock, hits, serial, action, parked, sincePause, faults>>

\* 429 rate_limited: the hit stays and counts.
RateLimited(c) ==
  /\ at[c] = "count" /\ ~UnderLimits(action[c])
  /\ hit' = [hit EXCEPT ![c] = NoHit]
  /\ Goto(c, "idle")
  /\ UNCHANGED <<company, limiter, action, parked, sincePause, faults>>

\* The windows are long against the time between the INSERT and the count.
Tick ==
  /\ clock < MaxClock /\ \A c \in Calls : at[c] # "count"
  /\ clock' = clock + 1
  /\ UNCHANGED <<company, hits, admitted, serial, calls, parked, sincePause, faults>>

----------------------------------------------------------------------------
(* The pipeline after the limiter.                                         *)

\* invalid_input, or 409 company_paused.
Refuse(c) ==
  /\ at[c] = "paused?"
  /\ Goto(c, "idle")
  /\ UNCHANGED <<company, limiter, action, hit, parked, sincePause, faults>>

PauseOnlyStopsDispatch(c) ==
  /\ at[c] = "paused?"
  /\ Goto(c, "gate")
  /\ UNCHANGED <<company, limiter, action, hit, parked, sincePause, faults>>
NotPaused(c) ==
  /\ at[c] = "paused?" /\ ~paused
  /\ Goto(c, "gate")
  /\ UNCHANGED <<company, limiter, action, hit, parked, sincePause, faults>>

\* What the budgetGate answers depends on the ad budgets.
MayRun(a) ==
  \/ a \notin Gated
  \/ autonomy = "full"
  \/ autonomy = "bounded" /\ a \in Budgeted
MustPark(a) == a \in Gated /\ autonomy # "full"

PassGate(c) ==
  /\ at[c] = "gate" /\ MayRun(action[c])
  /\ Goto(c, "handler")
  /\ UNCHANGED <<company, limiter, action, hit, parked, sincePause, faults>>

HoldAtGate(c) ==
  /\ at[c] = "gate" /\ MustPark(action[c])
  /\ Goto(c, "lookup")
  /\ UNCHANGED <<company, limiter, action, hit, parked, sincePause, faults>>

\* The handler runs or throws; the call's event follows and the call is over.
Handler(c) ==
  /\ at[c] = "handler"
  /\ sincePause' = sincePause + (IF paused THEN 1 ELSE 0)
  /\ Goto(c, "idle")
  /\ UNCHANGED <<company, limiter, action, hit, parked, faults>>

(* requestApproval: look for an open request, else insert one.             *)
PendingFor(a) == {i \in Ids : row[i].status = "pending" /\ row[i].action = a}

ReuseRequest(c) ==
  /\ at[c] = "lookup" /\ PendingFor(action[c]) # {}
  /\ Goto(c, "idle")
  /\ UNCHANGED <<company, limiter, action, hit, parked, sincePause, faults>>

AlwaysANewRequest(c) ==
  /\ at[c] = "lookup"
  /\ Goto(c, "insert")
  /\ UNCHANGED <<company, limiter, action, hit, parked, sincePause, faults>>
NoOpenRequest(c) ==
  /\ at[c] = "lookup" /\ PendingFor(action[c]) = {}
  /\ Goto(c, "insert")
  /\ UNCHANGED <<company, limiter, action, hit, parked, sincePause, faults>>

FirstFree(i) == row[i].status = "none" /\ \A j \in Ids : j < i => row[j].status # "none"

RequestApproval(c) ==
  /\ at[c] = "insert"
  /\ \E i \in Ids :
       /\ FirstFree(i)
       /\ row' = [row EXCEPT ![i] = [action |-> action[c], status |-> "pending", stale |-> FALSE]]
  /\ Goto(c, "idle")
  /\ UNCHANGED <<company, limiter, action, hit, click, executed, cut, sincePause, faults>>

----------------------------------------------------------------------------
(* resolveApproval.                                                        *)

\* The status is read once: a request that is not pending returns its state.
ResolveAnyStatus(k, i, decision) ==
  /\ click[k].at = "idle" /\ row[i].status # "none"
  /\ click' = [click EXCEPT ![k] = [at |-> decision, id |-> i]]
  /\ UNCHANGED <<company, limiter, calls, row, executed, cut, sincePause, faults>>
StartResolve(k, i, decision) ==
  /\ click[k].at = "idle" /\ row[i].status = "pending"
  /\ click' = [click EXCEPT ![k] = [at |-> decision, id |-> i]]
  /\ UNCHANGED <<company, limiter, calls, row, executed, cut, sincePause, faults>>

Resolved(i, s) == row' = [row EXCEPT ![i].status = s]
Answered(k) == click' = [click EXCEPT ![k] = NoClick]

Reject(k) ==
  /\ click[k].at = "reject"
  /\ Resolved(click[k].id, "rejected") /\ Answered(k)
  /\ UNCHANGED <<company, limiter, calls, executed, cut, sincePause, faults>>

\* unknown_tool or invalid_args: the registry has changed since the request.
Unrunnable(k) ==
  /\ click[k].at = "approve"
  /\ Resolved(click[k].id, "rejected") /\ Answered(k)
  /\ UNCHANGED <<company, limiter, calls, executed, cut, sincePause, faults>>

\* The handler runs gateway-side; pause and autonomy are not looked at again.
Execute(k) ==
  /\ click[k].at = "approve"
  /\ executed' = [executed EXCEPT ![click[k].id] = @ + 1]
  /\ click' = [click EXCEPT ![k].at = "record"]
  /\ UNCHANGED <<company, limiter, calls, row, cut, sincePause, faults>>

\* The result, or the error, is stored with status 'approved' in either case.
Record(k) ==
  /\ click[k].at = "record"
  /\ Resolved(click[k].id, "approved") /\ Answered(k)
  /\ UNCHANGED <<company, limiter, calls, executed, cut, sincePause, faults>>

\* The gateway dies, or the database refuses the update: every open request is
\* gone, and what was executed but not recorded is still pending.
Cut == {click[k].id : k \in {j \in Clicks : click[j].at = "record"}}
Crash ==
  /\ faults < MaxFaults /\ faults' = faults + 1
  /\ at' = [c \in Calls |-> "idle"]
  /\ hit' = [c \in Calls |-> NoHit]
  /\ click' = [k \in Clicks |-> NoClick]
  /\ cut' = [i \in Ids |-> cut[i] + (IF i \in Cut THEN 1 ELSE 0)]
  /\ UNCHANGED <<company, limiter, action, row, executed, sincePause>>

----------------------------------------------------------------------------
(* expireStaleApprovals, by the heartbeat of any company, and the owner.   *)

Stale(i) ==
  /\ row[i].status = "pending" /\ ~row[i].stale
  /\ row' = [row EXCEPT ![i].stale = TRUE]
  /\ UNCHANGED <<company, limiter, calls, click, executed, cut, sincePause, faults>>

ExpirableWhileActive(i) == row[i].status = "pending" /\ row[i].stale /\ ~paused
ExpirableInAnyState(i) == row[i].status # "none" /\ row[i].stale
Expirable(i) == row[i].status = "pending" /\ row[i].stale

ExpireIntoAStatus ==
  /\ \E i \in Ids : Expirable(i)
  /\ row' = [i \in Ids |-> IF Expirable(i) THEN [row[i] EXCEPT !.status = "expired"] ELSE row[i]]
  /\ UNCHANGED <<company, limiter, calls, click, executed, cut, sincePause, faults>>
Expire ==
  /\ \E i \in Ids : Expirable(i)
  /\ row' = [i \in Ids |-> IF Expirable(i) THEN [row[i] EXCEPT !.status = "rejected"] ELSE row[i]]
  /\ UNCHANGED <<company, limiter, calls, click, executed, cut, sincePause, faults>>

Pause ==
  /\ ~paused /\ paused' = TRUE
  /\ sincePause' = 0
  /\ UNCHANGED <<autonomy, limiter, calls, parked, faults>>

Resume ==
  /\ paused /\ paused' = FALSE
  /\ UNCHANGED <<autonomy, limiter, calls, parked, sincePause, faults>>

SetAutonomy(level) ==
  /\ autonomy' = level
  /\ UNCHANGED <<paused, limiter, calls, parked, sincePause, faults>>

----------------------------------------------------------------------------
ToolCall(c) ==
  \/ \E a \in Actions : RecordHit(c, a)
  \/ Admit(c)
  \/ RateLimited(c)
  \/ Refuse(c)
  \/ NotPaused(c)
  \/ PassGate(c)
  \/ HoldAtGate(c)
  \/ Handler(c)
  \/ ReuseRequest(c)
  \/ NoOpenRequest(c)
  \/ RequestApproval(c)

Resolve(k) ==
  \/ \E i \in Ids, d \in {"approve", "reject"} : StartResolve(k, i, d)
  \/ Reject(k)
  \/ Unrunnable(k)
  \/ Execute(k)
  \/ Record(k)

Next ==
  \/ \E c \in Calls : ToolCall(c)
  \/ \E k \in Clicks : Resolve(k)
  \/ \E i \in Ids : Stale(i)
  \/ Expire
  \/ Crash
  \/ Tick
  \/ Pause
  \/ Resume
  \/ \E level \in {"supervised", "bounded", "full"} : SetAutonomy(level)

Spec == Init /\ [][Next]_vars

\* Time passes, and some company's heartbeat comes: callers and owners owe nothing.
FairSpec == Spec /\ WF_vars(Expire) /\ \A i \in Ids : WF_vars(Stale(i))

----------------------------------------------------------------------------
TypeOK ==
  /\ paused \in BOOLEAN /\ autonomy \in {"supervised", "bounded", "full"}
  /\ clock \in Nat /\ serial \in Nat
  /\ hits \in [Actions -> SUBSET Hits] /\ admitted \in [Actions -> SUBSET Hits]
  /\ at \in [Calls -> Points]
  /\ action \in [Calls -> Actions] /\ hit \in [Calls -> Hits]
  /\ row \in [Ids -> [action : Actions, status : {"none", "pending", "approved", "rejected"},
                      stale : BOOLEAN]]
  /\ click \in [Clicks -> [at : {"idle", "approve", "record", "reject"}, id : 0..MaxRows]]
  /\ executed \in [Ids -> Nat] /\ cut \in [Ids -> Nat]
  /\ sincePause \in Nat /\ faults \in Nat

\* Rate limit of a tool: however its calls interleave, no window of either length holds
\* more admitted calls than the limit.
RateBound ==
  \A a \in Actions, now \in 0..clock :
    /\ Cardinality(Within(admitted[a], Hour, now)) <= HourLimit
    /\ Cardinality(Within(admitted[a], Day, now)) <= DayLimit

\* requestApproval looks before it inserts, in two statements: calls that look
\* together all insert, but a retrying agent does not pile up requests beyond that.
PendingBound ==
  \A a \in Actions :
    Cardinality(PendingFor(a)) + Cardinality({c \in Calls : at[c] = "insert" /\ action[c] = a})
      <= Cardinality(Calls)

\* Pausing halts an in-flight worker within one step: after the pause each open
\* call runs at most the one handler it was already on its way to.
PauseHalts ==
  paused => sincePause + Cardinality({c \in Calls : at[c] \in {"gate", "handler"}})
              <= Cardinality(Calls)

\* Resolving a request does not execute it again: its handler runs once, plus
\* once for every execution a crash kept from being recorded.
ExecutedOnce == \A i \in Ids : executed[i] <= 1 + cut[i]

\* What was executed ends up as approved, against expiries and clicks that come
\* between the handler and the record.
ExecutedIsApproved ==
  \A i \in Ids :
    executed[i] > cut[i] /\ (\A k \in Clicks : click[k].id # i)
      => row[i].status = "approved"

\* What becomes of a parked action, by clicks, expiries and crashes (approvals.ts:115-186).
ResolvedOnce == TypeOK /\ ExecutedOnce /\ ExecutedIsApproved

\* A parked action is decided in the end, whether its owner ever answers or not.
ApprovalsEnd == \A i \in Ids : row[i].status = "pending" ~> row[i].status # "pending"
=============================================================================
