------------------------------ MODULE ModelCalls ------------------------------
(***************************************************************************)
(* The paid model calls of one company: a heartbeat's planning, with its   *)
(* departments in parallel and the CEO after them, and the owner's chat.   *)
(* Each call asks the router for a tier, is retried over blips, repaired   *)
(* once when its answer does not parse, and replaced by a deterministic    *)
(* stand-in when that fails too. Planning is an activity that Temporal     *)
(* starts again when it throws or outlives its timeout; what it left       *)
(* running goes on beside the next attempt.                                *)
(*                                                                         *)
(* What a plan does to the queue is module CeoPlan's subject; here it is a *)
(* set of kinds of work. A behaviour is a heartbeat or a chat: the two     *)
(* share no state of this module.                                          *)
(***************************************************************************)
EXTENDS Integers, FiniteSets, FiniteSetsExt

CONSTANTS
  Departments,              \* among "cmo", "cto", "cfo"
  Contexts, Wallets,        \* what a heartbeat may find; balances a read may find, in cents
  Proposals,                \* what a model's answer may propose
  Estimate,                 \* DEFAULT_TASK_ESTIMATE_CENTS
  StandardMin, FrontierMin, \* the router's runway bands
  DailyTaskCap, Classifier, \* the company's throttle; ROUTER_CLASSIFIER
  MaxTries, MaxAttempts,    \* WORKER_LLM_RETRIES, retry.maximumAttempts
  MaxFaults, MaxChats       \* bounds: failures outside the models, chats

Context == [queued : Nat, reports : Nat, failed : Nat, unread : Nat, approvals : Nat,
            revenue : Nat, balance : Int]
ModelCallsAssumption ==
  /\ Departments \subseteq {"cmo", "cto", "cfo"}
  /\ Contexts \subseteq Context /\ Wallets \subseteq Int
  /\ \A work \in Proposals : IsFiniteSet(work)
  /\ Estimate \in Nat /\ StandardMin \in Nat /\ FrontierMin \in Nat /\ StandardMin <= FrontierMin
  /\ DailyTaskCap \in Int /\ Classifier \in BOOLEAN
  /\ MaxTries \in Nat \ {0} /\ MaxAttempts \in Nat \ {0} /\ MaxFaults \in Nat /\ MaxChats \in Nat

VARIABLES
  scene,     \* "heartbeat" or "chat"
  flow, cur, \* the planning activity as its workflow sees it; the attempt awaited
  attempt,   \* per attempt: [at, ctx, funded]
  caller,    \* per attempt and planner: [at, tier, base, tries, degraded, work]
  events,    \* department_plan and ceo_plan events: [by, of, degraded]
  chat,      \* the chat's caller, with its context and whether it directs work
  faults, chats

vars == <<scene, flow, cur, attempt, caller, events, chat, faults, chats>>
bounds == <<faults, chats>>

Attempts == 1..MaxAttempts
Planners == Departments \cup {"ceo"}
Tiers == <<"mini", "standard", "frontier">>
rank(t) == CHOOSE i \in 1..3 : Tiers[i] = t
maxTier(a, b) == IF rank(a) >= rank(b) THEN a ELSE b
minTier(a, b) == IF rank(a) <= rank(b) THEN a ELSE b

----------------------------------------------------------------------------
(* router.ts: the signals of a context, the policy, the budget's cap.      *)

hasMess(ctx) == ctx.failed > 0 \/ ctx.unread > 0 \/ ctx.approvals > 0
contextComplexity(ctx) ==
  IF ctx.failed > 0 \/ ctx.approvals > 0 \/ ctx.unread >= 3 \/ ctx.queued >= 5 THEN "hard"
  ELSE IF ctx.unread > 0 \/ ctx.queued > 0 THEN "routine" ELSE "trivial"
contextStakes(ctx) == IF ctx.revenue > 0 \/ hasMess(ctx) THEN "high" ELSE "low"
Quiet(ctx) == ctx.queued = 0 /\ ctx.revenue = 0 /\ ~hasMess(ctx)

baseRoute(kind, complexity, stakes) ==
  CASE kind = "heartbeat_noop" -> "mini"
    [] kind = "owner_chat" -> IF stakes = "high" THEN "standard" ELSE "mini"
    [] kind = "owner_chat_directive" -> IF complexity = "hard" THEN "frontier" ELSE "standard"
    [] kind = "department_synthesis" ->
         IF complexity = "hard" \/ stakes = "high" THEN "standard" ELSE "mini"
    [] kind = "heartbeat_plan" ->
         LET byComplexity == CASE complexity = "trivial" -> "mini" [] complexity = "routine" -> "standard"
                               [] complexity = "hard" -> "frontier"
         IN IF stakes = "high" THEN maxTier(byComplexity, "standard") ELSE byComplexity

applyBudgetCap(tier, ctx) ==
  minTier(tier, CASE ctx.balance < StandardMin -> "mini"
                  [] ctx.balance >= StandardMin /\ ctx.balance < FrontierMin /\ ctx.revenue = 0 -> "standard"
                  [] OTHER -> "frontier")

routeTier(kind, complexity, stakes, ctx) == applyBudgetCap(baseRoute(kind, complexity, stakes), ctx)
\* A schema repair holds the tier of the call that failed, whatever the wallet.
RepairOnTheBest(base) == "frontier"
RepairTier(base) == base

RouteOf(n, ctx) ==
  LET kind == IF n \in Departments THEN "department_synthesis"
              ELSE IF Quiet(ctx) THEN "heartbeat_noop" ELSE "heartbeat_plan"
  IN routeTier(kind, contextComplexity(ctx), contextStakes(ctx), ctx)

----------------------------------------------------------------------------
(* One call, its retries and its repair.                                   *)

Off == [at |-> "off", tier |-> "mini", base |-> "mini", tries |-> 0, degraded |-> FALSE, work |-> {}]
Asks(tier) == [Off EXCEPT !.at = "call", !.tier = tier, !.base = tier]

Parses(c) == [c EXCEPT !.at = "usable"]
RepairedUntilItParses(c) ==
  [c EXCEPT !.at = IF @ = "call" THEN "repair" ELSE "call", !.tier = RepairTier(c.base), !.tries = 0]
Repaired(c) ==
  IF c.at = "call" THEN [c EXCEPT !.at = "repair", !.tier = RepairTier(c.base), !.tries = 0]
  ELSE [c EXCEPT !.at = "failed"]
\* An empty completion, a 429 or a 5xx, a reset connection.
Retried(c) == IF c.tries + 1 < MaxTries THEN [c EXCEPT !.tries = @ + 1] ELSE [c EXCEPT !.at = "failed"]
\* A 400, a 401: not worth another try.
GivenUp(c) == [c EXCEPT !.at = "failed"]

Answers(c) == {Parses(c), Repaired(c), Retried(c), GivenUp(c)}
Calling(c) == c.at \in {"call", "repair"}

----------------------------------------------------------------------------
(* The stand-ins.                                                          *)

fallbackDepartment(d, ctx) ==
  CASE d = "cmo" -> (IF ctx.unread > 0 THEN {"reply"} ELSE {})
                    \cup (IF ctx.revenue = 0 /\ ctx.queued = 0 THEN {"outreach"} ELSE {})
    [] d = "cto" -> IF ctx.failed > 0 THEN {"fix"} ELSE {}
    [] d = "cfo" -> {}
Urgent == {"reply", "fix"}

\* The proposals of the departments by priority (a model's own may be any), as many as a day takes.
fallbackPlans(ctx, proposed) ==
  IF proposed = {} THEN {IF ctx.queued = 0 THEN {"review"} ELSE {}}
  ELSE LET room == IF DailyTaskCap < 1 THEN 1 ELSE IF DailyTaskCap > 10 THEN 10 ELSE DailyTaskCap
           n == IF Cardinality(proposed) <= room THEN Cardinality(proposed) ELSE room
       IN {S \in kSubset(n, proposed) : "outreach" \in S => Urgent \cap proposed \subseteq S}

----------------------------------------------------------------------------
NoContext == [queued |-> 0, reports |-> 0, failed |-> 0, unread |-> 0, approvals |-> 0,
              revenue |-> 0, balance |-> 0]
Unplanned == [at |-> "off", ctx |-> NoContext, funded |-> FALSE]

Init ==
  /\ scene \in {"heartbeat", "chat"}
  /\ flow = "idle" /\ cur = 1
  /\ attempt = [i \in Attempts |-> Unplanned]
  /\ caller = [i \in Attempts |-> [n \in Planners |-> Off]]
  /\ events = {}
  /\ chat = [call |-> Off, ctx |-> NoContext, directive |-> FALSE]
  /\ faults = 0 /\ chats = 0

AFault == faults < MaxFaults /\ faults' = faults + 1 /\ UNCHANGED chats
Goto(i, at) == attempt' = [attempt EXCEPT ![i].at = at]
Sets(i, n, c) == caller' = [caller EXCEPT ![i][n] = c]
Append(i, n, degraded) == events' = events \cup {[by |-> n, of |-> i, degraded |-> degraded]}
Begins == [Unplanned EXCEPT !.at = "gather"]

\* The activity's result, if Temporal still waits for this attempt.
Ends(i, result) ==
  flow' = IF i = cur /\ flow = "running" THEN result ELSE flow
\* It throws, or takes too long: the next attempt begins, or the heartbeat goes on without a plan.
Throws(i, at) ==
  IF i = cur /\ flow = "running" /\ i < MaxAttempts
    THEN /\ cur' = i + 1 /\ UNCHANGED flow
         /\ attempt' = [attempt EXCEPT ![i].at = at, ![i + 1] = Begins]
    ELSE /\ Goto(i, at) /\ Ends(i, "failed") /\ UNCHANGED cur

----------------------------------------------------------------------------
(* runCeoPlanning.                                                         *)

StartHeartbeat ==
  /\ scene = "heartbeat" /\ flow = "idle"
  /\ flow' = "running" /\ attempt' = [attempt EXCEPT ![1] = Begins]
  /\ UNCHANGED <<scene, cur, caller, events, chat, bounds>>

GatherContext(i) ==
  /\ attempt[i].at = "gather"
  /\ \E found \in Contexts, balance \in Wallets :
       attempt' = [attempt EXCEPT ![i].at = "guard", ![i].ctx = [found EXCEPT !.balance = balance]]
  /\ UNCHANGED <<scene, flow, cur, caller, events, chat, bounds>>

\* No result to react to yet: the launch playbook runs first.
AwaitsFirstResults(i) ==
  /\ attempt[i].at = "guard" /\ attempt[i].ctx.reports = 0 /\ attempt[i].ctx.queued > 0
  /\ Goto(i, "done") /\ Ends(i, "skipped")
  /\ UNCHANGED <<scene, cur, caller, events, chat, bounds>>

\* reinvestRevenue may refill the wallet, and other runs move it; the wallet is read
\* again, the context is not.
Reinvest(i) ==
  /\ attempt[i].at = "guard" /\ ~(attempt[i].ctx.reports = 0 /\ attempt[i].ctx.queued > 0)
  /\ \E balance \in Wallets :
       attempt' = [attempt EXCEPT ![i].at = "read", ![i].funded = (balance >= Estimate)]
  /\ UNCHANGED <<scene, flow, cur, caller, events, chat, bounds>>

OutOfCredits(i) ==
  /\ attempt[i].at = "read" /\ ~attempt[i].funded
  /\ Goto(i, "done") /\ Ends(i, "skipped")
  /\ UNCHANGED <<scene, cur, caller, events, chat, bounds>>

FanOut(i) ==
  /\ attempt[i].at = "read" /\ attempt[i].funded
  /\ caller' = [caller EXCEPT ![i] = [n \in Planners |->
                  IF n \in Departments THEN Asks(RouteOf(n, attempt[i].ctx)) ELSE Off]]
  /\ Goto(i, "departments")
  /\ UNCHANGED <<scene, flow, cur, events, chat, bounds>>

\* What a model proposes is its own business; its stand-in is not.
WorkOf(i, n, c) ==
  IF c.at = "usable" THEN Proposals
  ELSE IF n \in Departments THEN {fallbackDepartment(n, attempt[i].ctx)}
  ELSE fallbackPlans(attempt[i].ctx, UNION {caller[i][d].work : d \in Departments})
CallModel(i, n) ==
  /\ Calling(caller[i][n])
  /\ \E c \in Answers(caller[i][n]) :
       IF Calling(c) THEN Sets(i, n, c)
       ELSE \E work \in WorkOf(i, n, c) :
              Sets(i, n, [c EXCEPT !.at = "append", !.work = work, !.degraded = (c.at = "failed")])
  /\ UNCHANGED <<scene, flow, cur, attempt, events, chat, bounds>>

LogReport(i, d) ==
  /\ caller[i][d].at = "append"
  /\ Sets(i, d, [caller[i][d] EXCEPT !.at = "done"]) /\ Append(i, d, caller[i][d].degraded)
  /\ UNCHANGED <<scene, flow, cur, attempt, chat, bounds>>

\* Promise.all rejects: the attempt throws while the other departments go on.
ReportLost(i, d) ==
  /\ caller[i][d].at = "append" /\ AFault
  /\ Sets(i, d, [caller[i][d] EXCEPT !.at = "lost"]) /\ Throws(i, "threw")
  /\ UNCHANGED <<scene, events, chat>>

Synthesize(i) ==
  /\ attempt[i].at = "departments" /\ \A d \in Departments : caller[i][d].at = "done"
  /\ Sets(i, "ceo", Asks(RouteOf("ceo", attempt[i].ctx))) /\ Goto(i, "synthesis")
  /\ UNCHANGED <<scene, flow, cur, events, chat, bounds>>

\* applyCeoPlan, if the wallet still covers a task, and the ceo_plan event.
LogPlan(i) ==
  /\ attempt[i].at = "synthesis" /\ caller[i]["ceo"].at = "append"
  /\ Sets(i, "ceo", [caller[i]["ceo"] EXCEPT !.at = "done"]) /\ Append(i, "ceo", caller[i]["ceo"].degraded)
  /\ Goto(i, "done") /\ Ends(i, "planned")
  /\ UNCHANGED <<scene, cur, chat, bounds>>

\* A read, a write or an append outside the departments fails.
AttemptFails(i) ==
  /\ \/ attempt[i].at \in {"gather", "guard", "read"}
     \/ attempt[i].at = "synthesis" /\ caller[i]["ceo"].at = "append"
  /\ AFault
  /\ Throws(i, "threw")
  /\ UNCHANGED <<scene, caller, events, chat>>

\* Five minutes: the attempt goes on, unattended.
Timeout ==
  /\ flow = "running" /\ AFault
  /\ Throws(cur, attempt[cur].at)
  /\ UNCHANGED <<scene, caller, events, chat>>

Planning(i) ==
  \/ GatherContext(i) \/ AwaitsFirstResults(i) \/ Reinvest(i) \/ OutOfCredits(i) \/ FanOut(i)
  \/ Synthesize(i) \/ LogPlan(i)
  \/ \E n \in Planners : CallModel(i, n)
  \/ \E d \in Departments : LogReport(i, d)

----------------------------------------------------------------------------
(* POST /companies/:id/chat: within the account's hourly limit.            *)

\* A "task:" message directs work. The classifier may raise that, never lower it.
StartChat ==
  /\ scene = "chat" /\ chat.call.at = "off" /\ chats < MaxChats /\ chats' = chats + 1
  /\ \E found \in Contexts, balance \in Wallets, directive \in BOOLEAN :
       chat' = [call |-> [Off EXCEPT !.at = IF Classifier THEN "classify" ELSE "route"],
                ctx |-> [found EXCEPT !.balance = balance], directive |-> directive]
  /\ UNCHANGED <<scene, flow, cur, attempt, caller, events, faults>>

ChatRoute(directive, complexity, stakes) ==
  routeTier(IF directive THEN "owner_chat_directive" ELSE "owner_chat", complexity,
            IF directive THEN "high" ELSE stakes, chat.ctx)

classifyChatSignals ==
  /\ chat.call.at = "classify"
  /\ \E directive \in BOOLEAN, complexity \in {"trivial", "routine", "hard"}, stakes \in {"low", "high"} :
       chat' = [chat EXCEPT !.directive = @ \/ directive,
                            !.call = Asks(ChatRoute(chat.directive \/ directive, complexity, stakes))]
  /\ UNCHANGED <<scene, flow, cur, attempt, caller, events, bounds>>

\* No classifier, or its one call failed or did not parse.
deriveChatSignals ==
  /\ chat.call.at \in {"route", "classify"}
  /\ chat' = [chat EXCEPT !.call = Asks(ChatRoute(chat.directive, "routine", "low"))]
  /\ UNCHANGED <<scene, flow, cur, attempt, caller, events, bounds>>

ChatCalls ==
  /\ Calling(chat.call)
  /\ \E c \in Answers(chat.call) : chat' = [chat EXCEPT !.call = c]
  /\ UNCHANGED <<scene, flow, cur, attempt, caller, events, bounds>>

\* The reply, or the error the owner sees: no stand-in here.
ChatReplies ==
  /\ chat.call.at \in {"usable", "failed"} /\ chat' = [chat EXCEPT !.call = Off]
  /\ UNCHANGED <<scene, flow, cur, attempt, caller, events, bounds>>

Chatting == classifyChatSignals \/ deriveChatSignals \/ ChatCalls \/ ChatReplies

----------------------------------------------------------------------------
Next ==
  \/ StartHeartbeat \/ Timeout
  \/ \E i \in Attempts : Planning(i) \/ AttemptFails(i) \/ \E d \in Departments : ReportLost(i, d)
  \/ StartChat \/ Chatting

Spec == Init /\ [][Next]_vars

\* Temporal and the API run what they have started; a model answers or its call fails.
FairSpec == Spec /\ (\A i \in Attempts : WF_vars(Planning(i))) /\ WF_vars(Chatting)

----------------------------------------------------------------------------
\* No call outspends the runway the planner read, no repair is cheaper or dearer than what it
\* repairs, the frontier is the CEO's, and a decision that matters is not the floor model's
\* while the wallet allows better (router.ts).
Within(n, c, ctx) ==
  /\ c.tier = c.base
  /\ ctx.balance < StandardMin => c.tier = "mini"
  /\ ctx.balance < FrontierMin /\ ctx.revenue = 0 => c.tier # "frontier"
  /\ n \in Departments => c.tier # "frontier"
  /\ n = "ceo" /\ contextStakes(ctx) = "high" /\ ctx.balance >= StandardMin => c.tier # "mini"
RoutedWithinMeans ==
  /\ \A i \in Attempts, n \in Planners :
       Calling(caller[i][n]) => Within(n, caller[i][n], attempt[i].ctx)
  /\ Calling(chat.call) =>
       /\ Within("chat", chat.call, chat.ctx)
       /\ chat.directive /\ chat.ctx.balance >= StandardMin => chat.call.tier # "mini"

\* A frozen or a freshly founded company pays for no planning at all.
FrozenMakesNoCalls ==
  \A i \in Attempts, n \in Planners :
    caller[i][n].at # "off" =>
      attempt[i].funded /\ (attempt[i].ctx.reports > 0 \/ attempt[i].ctx.queued = 0)

\* The CEO decides over the reports of its own attempt, all of them public, and what a
\* stand-in wrote is marked as such, however many attempts overlap.
SynthesisIsInformed ==
  \A i \in Attempts :
    /\ caller[i]["ceo"].at # "off" =>
         \A d \in Departments : [by |-> d, of |-> i, degraded |-> caller[i][d].degraded] \in events
    /\ attempt[i].at = "done" /\ caller[i]["ceo"].at # "off" =>
         [by |-> "ceo", of |-> i, degraded |-> caller[i]["ceo"].degraded] \in events

\* However the models fail, a heartbeat gets its plan at the first attempt, and one that
\* has nothing queued gets some work from it.
OutageCostsNoDay ==
  /\ cur > 1 \/ flow = "failed" => faults > 0
  /\ \A i \in Attempts :
       caller[i]["ceo"].degraded /\ attempt[i].ctx.queued = 0 => caller[i]["ceo"].work # {}

CallsKept == RoutedWithinMeans /\ FrozenMakesNoCalls /\ SynthesisIsInformed /\ OutageCostsNoDay

\* The planning a heartbeat waits for ends, and so does the reply the owner waits for.
CallsEnd ==
  /\ flow = "running" ~> flow \in {"planned", "skipped", "failed"}
  /\ chat.call.at # "off" ~> chat.call.at = "off"
=============================================================================
