--------------------------- MODULE CommerceProofs ---------------------------
(***************************************************************************)
(* What a company spends to sell, and what it sells, for any campaigns,    *)
(* budgets, caps, months, heartbeats, products, orders, keys and failures. *)
(*                                                                         *)
(* Advertising. The backstop's invariant follows each sync: what is active *)
(* is what it found and has not paused yet, or was launched since. The     *)
(* audit's invariant says that the one sync that mirrors the spend has     *)
(* added at most what the month has grown since its first read, and that a *)
(* sync of an earlier month adds nothing to this one. It rests on the      *)
(* month's total being a sum (module Sums), which a new day of the month   *)
(* never makes smaller.                                                    *)
(*                                                                         *)
(* The shop. What Stripe minted was minted with a key, and keys are        *)
(* replaced and never taken away, so a deletion that reaches the row was   *)
(* carried out by the account that minted the product. The till's          *)
(* invariant adds that a payment is recorded of a listed product and of a  *)
(* paid visit, and that what was sold is never deleted.                    *)
(***************************************************************************)
EXTENDS Commerce, Sums

----------------------------------------------------------------------------
(* Months.                                                                 *)

\* A remainder is at most the number.
LEMMA ModFits ==
  ASSUME NEW x \in Nat, NEW m \in Nat \ {0}
  PROVE  x % m \in 0..x
  OBVIOUS

\* A number's successor has the next remainder, or none.
LEMMA ModStep ==
  ASSUME NEW x \in Nat, NEW m \in Nat \ {0}
  PROVE  (x + 1) % m = 0 \/ (x + 1) % m = (x % m) + 1
  <1> DEFINE q == x \div m
             p == (x + 1) \div m
             r == x % m
             s == (x + 1) % m
  <1>1. q \in Int /\ r \in 0..(m - 1) /\ x = m * q + r
    OBVIOUS
  <1>2. p \in Int /\ s \in 0..(m - 1) /\ x + 1 = m * p + s
    OBVIOUS
  <1> HIDE DEF q, p, r, s
  <1> DEFINE k == p - q
  <1>3. k \in Int /\ m * k = m * p - m * q
    BY <1>1, <1>2
  <1> HIDE DEF k
  <1>4. m * p \in Int /\ m * q \in Int
    BY <1>1, <1>2
  <1>5. m * k = r + 1 - s
    BY <1>1, <1>2, <1>3, <1>4
  <1>6. k = 0 \/ k = 1
    <2>1. k >= 2 => m * k >= 2 * m
      BY <1>3
    <2>2. k <= -1 => m * k <= -m
      BY <1>3
    <2>3. m * k <= m /\ m * k > -m
      BY <1>1, <1>2, <1>5
    <2> QED
      BY <1>3, <2>1, <2>2, <2>3
  <1>7. k = 0 => s = r + 1
    BY <1>1, <1>2, <1>5
  <1>8. k = 1 => s = 0
    BY <1>1, <1>2, <1>5
  <1> QED
    BY <1>6, <1>7, <1>8 DEF r, s

\* A month begins on one of its days; the day after is of the same month or begins the next.
LEMMA MonthStart ==
  ASSUME NEW day \in Nat \ {0}
  PROVE  /\ MonthStartDay(day) \in 1..day
         /\ MonthStartDay(day + 1) \in {MonthStartDay(day), day + 1}
  <1>1. MonthLength \in Nat \ {0}
    BY AdBudgetsAssumption
  <1>2. day - 1 \in Nat /\ (day - 1) + 1 = day /\ (day + 1) - 1 = day
    OBVIOUS
  <1>3. (day - 1) % MonthLength \in 0..(day - 1)
    BY <1>1, <1>2, ModFits
  <1>4. day % MonthLength = 0 \/ day % MonthLength = ((day - 1) % MonthLength) + 1
    BY <1>1, <1>2, ModStep
  <1> QED
    BY <1>2, <1>3, <1>4 DEF MonthStartDay

\* The running total of a month, as the model's recursion states it.
Running1(rows, from, n, g) == g = [d \in 0..n |-> IF d < from THEN 0 ELSE g[d - 1] + rows[d]]

\* The function the recursion defines exists, and at every day holds the sum so far.
LEMMA RunningSum ==
  ASSUME NEW n \in Nat, NEW rows, NEW m \in Nat, n <= m, rows \in [1..m -> Int], NEW from \in Nat \ {0}
  PROVE  (CHOOSE g : Running1(rows, from, n, g))[n] = SumFunction(Restrict(rows, from..n))
  <1> DEFINE S(d) == SumFunction(Restrict(rows, from..d))
             h == [d \in 0..n |-> S(d)]
  <1>1. ASSUME NEW d \in 0..n, d < from PROVE S(d) = 0
    <2>1. from..d = {}
      BY <1>1
    <2>2. Restrict(rows, {}) \in [{} -> Int]
      BY DEF Restrict
    <2> QED
      BY <2>1, <2>2, SumEmpty
  <1>2. ASSUME NEW d \in 0..n, ~(d < from) PROVE d - 1 \in 0..n /\ S(d) = S(d - 1) + rows[d]
    <2>1. d \in from..m /\ d - 1 \in 0..n
      BY <1>2
    <2>2. S(d) = S(d - 1) + rows[d]
      BY <2>1, OneMoreDay
    <2> QED
      BY <2>1, <2>2
  <1> HIDE DEF S
  <1>3. Running1(rows, from, n, h)
    BY <1>1, <1>2 DEF Running1
  <1> DEFINE g == CHOOSE g : Running1(rows, from, n, g)
  <1>4. Running1(rows, from, n, g)
    BY <1>3
  <1> HIDE DEF g, h
  <1>5. \A d \in 0..n : g[d] = IF d < from THEN 0 ELSE g[d - 1] + rows[d]
    BY <1>4 DEF Running1
  <1> DEFINE T == {d \in Nat : d \in 0..n => g[d] = S(d)}
  <1>6. 0 \in T
    BY <1>1, <1>5
  <1>7. ASSUME NEW d \in Nat, d \in T PROVE d + 1 \in T
    <2> SUFFICES ASSUME d + 1 \in 0..n PROVE g[d + 1] = S(d + 1)
      OBVIOUS
    <2>1. d \in 0..n /\ g[d] = S(d) /\ (d + 1) - 1 = d
      BY <1>7
    <2>2. CASE d + 1 < from
      BY <1>1, <1>5, <2>2
    <2>3. CASE ~(d + 1 < from)
      BY <1>2, <1>5, <2>1, <2>3
    <2> QED
      BY <2>2, <2>3
  <1>8. Nat \subseteq T
    <2> HIDE DEF T
    <2> QED
      BY <1>6, <1>7, NatInduct
  <1>9. g[n] = S(n)
    BY <1>8
  <1> QED
    BY <1>9 DEF g, S

\* What the month's rows add up to.
LEMMA MonthIsASum ==
  ASSUME today \in Days, NEW rows \in [Days -> Int]
  PROVE  MonthOf(rows) = SumFunction(Restrict(rows, MonthStartDay(today)..today))
  <1>1. MaxDay \in Nat \ {0}
    BY AdBudgetsAssumption
  <1>2. today \in Nat \ {0} /\ today <= MaxDay
    BY <1>1 DEF Days
  <1>3. MonthStartDay(today) \in Nat \ {0}
    BY <1>2, MonthStart
  <1>4. MonthOf(rows) = (CHOOSE g : Running1(rows, MonthStartDay(today), today, g))[today]
    BY DEF MonthOf, Running1
  <1> QED
    BY <1>1, <1>2, <1>3, <1>4, RunningSum DEF Days

----------------------------------------------------------------------------
(* What the campaigns, the calls and the syncs hold.                       *)

\* Budgets, spend rows, and the rows of campaigns, calls and syncs.
Amounts == MinBudget..MaxBudget
Spending == [Days -> 0..MaxBudget]
CampaignRow == [status : {"none", "paused", "active"}, budget : Amounts, launched : Days]
CallRow == [at : {"idle", "gate", "parked", "handler"}, tool : {"launch", "set_budget"},
            campaign : Campaigns, budget : Amounts]
Moves == {"hold", "increase", "decrease", "pause"}
SyncRow == [at : {"idle", "insights", "pause", "optimize", "apply"}, cap : Caps, day : Days,
            before : Int, todo : SUBSET Campaigns, snapshot : SUBSET Campaigns,
            budget : [Campaigns -> Amounts], action : [Campaigns -> Moves]]
\* The types of the first half's state.
AdTyped ==
  /\ cap \in Caps /\ autonomy \in Levels
  /\ campaign \in [Campaigns -> CampaignRow]
  /\ spend \in [Campaigns -> Spending]
  /\ today \in Days
  /\ call \in [Calls -> CallRow]
  /\ sync \in [Syncs -> SyncRow]
  /\ launchedSince \in [Syncs -> SUBSET Campaigns]
  /\ unannounced \in Int /\ overlapped \in BOOLEAN

\* Today, its month's first day and the days between are days of the model.
LEMMA Calendar ==
  ASSUME today \in Days
  PROVE  /\ MaxDay \in Nat \ {0} /\ today \in Nat \ {0} /\ today <= MaxDay
         /\ MonthStartDay(today) \in 1..today /\ MonthStartDay(today)..today \subseteq Days
  <1>1. MaxDay \in Nat \ {0} /\ today \in Nat \ {0} /\ today <= MaxDay
    BY AdBudgetsAssumption DEF Days
  <1>2. MonthStartDay(today) \in 1..today
    BY <1>1, MonthStart
  <1> QED
    BY <1>1, <1>2 DEF Days

\* A month's spend is a number.
LEMMA MonthOfType ==
  ASSUME today \in Days, NEW rows \in [Days -> Nat]
  PROVE  MonthOf(rows) \in Nat
  <1> DEFINE X == MonthStartDay(today)..today
             f == Restrict(rows, X)
  <1>1. MonthOf(rows) = SumFunction(f)
    BY MonthIsASum
  <1>2. X \subseteq Days /\ IsFiniteSet(X)
    BY Calendar, FS_Interval
  <1> HIDE DEF X
  <1>3. f \in [X -> Nat]
    BY <1>2 DEF Restrict
  <1> HIDE DEF f
  <1> QED
    BY <1>1, <1>2, <1>3, SumNat

\* Rows that agree on the month's days have the same sum.
LEMMA SameMonth ==
  ASSUME today \in Days, NEW rows \in [Days -> Int], NEW more \in [Days -> Int],
         \A d \in MonthStartDay(today)..today : rows[d] = more[d]
  PROVE  MonthOf(rows) = MonthOf(more)
  <1>1. Restrict(rows, MonthStartDay(today)..today) = Restrict(more, MonthStartDay(today)..today)
    BY DEF Restrict
  <1> QED
    BY <1>1, MonthIsASum

\* The month's total.
Monthly == [c \in Campaigns |-> SpendOf(c)]
\* Month-to-date spend is a number, of one campaign and of all.
LEMMA MonthSpendType ==
  ASSUME AdTyped
  PROVE  Monthly \in [Campaigns -> Nat] /\ MonthSpend \in Nat /\ \A c \in Campaigns : SpendOf(c) \in Nat
  <1>1. MaxBudget \in Nat /\ IsFiniteSet(Campaigns)
    BY AdBudgetsAssumption
  <1>2. ASSUME NEW c \in Campaigns PROVE SpendOf(c) \in Nat
    <2>1. spend[c] \in [Days -> Nat] /\ today \in Days
      BY <1>1 DEF AdTyped, Spending
    <2> QED
      BY <2>1, MonthOfType DEF SpendOf
  <1>3. Monthly \in [Campaigns -> Nat]
    BY <1>2 DEF Monthly
  <1>4. MonthSpend = SumFunction(Monthly)
    BY DEF MonthSpend, Monthly
  <1> QED
    BY <1>1, <1>2, <1>3, <1>4, SumNat

\* What LocalAds reports for a day is at most the budget.
LEMMA DaySpendFits ==
  ASSUME NEW b \in Amounts, NEW d
  PROVE  DaySpend(b, d) \in 0..MaxBudget
  <1>1. b \in Nat \ {0} /\ b <= MaxBudget /\ MaxBudget \in Nat
    BY AdBudgetsAssumption DEF Amounts
  <1>2. (8 * b + 5) \div 10 \in 0..b
    BY <1>1
  <1> QED
    BY <1>1, <1>2 DEF DaySpend

\* What a sync mirrors for a campaign is a row of days, none above the largest budget.
LEMMA InsightsFit ==
  ASSUME AdTyped, NEW s \in Syncs, NEW c \in Campaigns
  PROVE  Insights(s, c) \in Spending
  <1>1. \A d \in Days : DaySpend(sync[s].budget[c], d) \in 0..MaxBudget
    BY DaySpendFits DEF AdTyped, SyncRow
  <1>2. \A d \in Days : spend[c][d] \in 0..MaxBudget
    BY DEF AdTyped, Spending
  <1> QED
    BY <1>1, <1>2 DEF Insights, Spending

\* The greater of two numbers.
LEMMA MaxIs == \A a, b \in Int : Max({a, b}) = IF a >= b THEN a ELSE b
  <1> TAKE a, b \in Int
  <1> DEFINE m == IF a >= b THEN a ELSE b
  <1>1. m \in {a, b} /\ \A y \in {a, b} : m >= y
    OBVIOUS
  <1>2. \A x \in {a, b} : (\A y \in {a, b} : x >= y) => x = m
    OBVIOUS
  <1> QED
    BY <1>1, <1>2 DEF Max

\* The lesser of two numbers.
LEMMA MinIs == \A a, b \in Int : Min({a, b}) = IF a <= b THEN a ELSE b
  <1> TAKE a, b \in Int
  <1> DEFINE m == IF a <= b THEN a ELSE b
  <1>1. m \in {a, b} /\ \A y \in {a, b} : m <= y
    OBVIOUS
  <1>2. \A x \in {a, b} : (\A y \in {a, b} : x <= y) => x = m
    OBVIOUS
  <1> QED
    BY <1>1, <1>2 DEF Min

\* A budget the reallocation raises or lowers stays within its bounds.
LEMMA MoveFits ==
  ASSUME NEW b \in Amounts, NEW spent, NEW revenue, NEW headroom
  PROVE  planReallocation(b, spent, revenue, headroom) \in [action : Moves, to : Amounts]
  <1>1. b \in Nat \ {0} /\ MinBudget <= b /\ b <= MaxBudget /\ MaxBudget \in Nat /\ MinBudget \in Nat
    BY AdBudgetsAssumption DEF Amounts
  <1>2. Raised(b) \in Amounts
    <2>1. (3 * b + 1) \div 2 \in Int /\ (3 * b + 1) \div 2 >= b
      BY <1>1
    <2> QED
      BY <1>1, <2>1, MinIs DEF Raised, Amounts
  <1>3. Lowered(b) \in Amounts
    <2>1. (b + 1) \div 2 \in Int /\ (b + 1) \div 2 <= b
      BY <1>1
    <2> QED
      BY <1>1, <2>1, MaxIs DEF Lowered, Amounts
  <1> DEFINE hold == [action |-> "hold", to |-> b]
             change(act, to) == IF to # b THEN [action |-> act, to |-> to] ELSE hold
  <1>4. hold \in [action : Moves, to : Amounts]
          /\ [action |-> "pause", to |-> b] \in [action : Moves, to : Amounts]
    BY DEF Moves
  <1>5. change("increase", Raised(b)) \in [action : Moves, to : Amounts]
    BY <1>2, <1>4 DEF Moves
  <1>6. change("decrease", Lowered(b)) \in [action : Moves, to : Amounts]
    BY <1>3, <1>4 DEF Moves
  <1> HIDE DEF hold
  <1>7. planReallocation(b, spent, revenue, headroom) \in
          {hold, change("increase", Raised(b)), [action |-> "pause", to |-> b], change("decrease",
                  Lowered(b))}
    BY DEF planReallocation, hold
  <1> HIDE DEF change
  <1> QED
    BY <1>4, <1>5, <1>6, <1>7

----------------------------------------------------------------------------
(* Types.                                                                  *)

\* A sync at rest is a sync.
LEMMA IdleSyncTyped == IdleSync \in SyncRow /\ IdleSync.at = "idle"
  <1>1. MinBudget \in Amounts /\ 1 \in Days /\ 0 \in Caps
    BY AdBudgetsAssumption DEF Amounts, Days
  <1> QED
    BY <1>1 DEF IdleSync, SyncRow, Moves

\* The types hold at the start.
LEMMA AdTypedStart == Init => AdTyped
  <1> SUFFICES ASSUME Init PROVE AdTyped
    OBVIOUS
  <1>1. /\ MinBudget \in Amounts /\ 1 \in Days /\ FirstDay \in Days
        /\ 0 \in Caps /\ MaxBudget \in Nat
        /\ (CHOOSE c \in Campaigns : TRUE) \in Campaigns
    BY AdBudgetsAssumption DEF Amounts, Days
  <1>2. campaign \in [Campaigns -> CampaignRow]
    BY <1>1 DEF Init, CampaignRow
  <1>3. spend \in [Campaigns -> Spending]
    BY <1>1 DEF Init, Spending
  <1>4. IdleCall \in CallRow
    BY <1>1 DEF IdleCall, CallRow
  <1>5. IdleSync \in SyncRow
    BY IdleSyncTyped
  <1>6. cap \in Caps /\ autonomy \in Levels /\ today \in Days /\ unannounced \in Int
    BY <1>1 DEF Init
  <1>10. overlapped \in BOOLEAN
    BY DEF Init
  <1> HIDE DEF IdleSync, IdleCall
  <1>7. call \in [Calls -> CallRow]
    BY <1>4 DEF Init
  <1>8. sync \in [Syncs -> SyncRow]
    BY <1>5 DEF Init
  <1>9. launchedSince \in [Syncs -> SUBSET Campaigns]
    BY DEF Init
  <1> QED
    BY <1>2, <1>3, <1>6, <1>7, <1>8, <1>9, <1>10 DEF AdTyped

\* What the steps of a tool call do to the types.
LEMMA ToolTyped ==
  ASSUME AdTyped, NEW w \in Calls, Tool(w)
  PROVE  AdTyped'
  <1>1. call[w] \in CallRow /\ MinBudget \in Amounts /\ (CHOOSE c \in Campaigns : TRUE) \in Campaigns
    BY AdBudgetsAssumption DEF AdTyped, Amounts
  <1>2. IdleCall \in CallRow
    BY <1>1 DEF IdleCall, CallRow
  <1>3. \/ UNCHANGED campaign
        \/ \E c \in Campaigns, b \in Amounts : campaign' = [campaign EXCEPT ![c].budget = b]
        \/ \E c \in Campaigns : campaign' = [campaign EXCEPT ![c].status = "active",
                ![c].launched = today]
    BY <1>1 DEF Tool, CallTool, Gate, Approve, Drop, SetBudget, Launch, CallRow
  <1>4. campaign' \in [Campaigns -> CampaignRow]
    <2>1. today \in Days /\ campaign \in [Campaigns -> CampaignRow]
      BY DEF AdTyped
    <2>2. ASSUME NEW c \in Campaigns, NEW b \in Amounts, campaign' = [campaign EXCEPT ![c].budget = b]
          PROVE  campaign' \in [Campaigns -> CampaignRow]
      BY <2>1, <2>2 DEF CampaignRow
    <2>3. ASSUME NEW c \in Campaigns,
                 campaign' = [campaign EXCEPT ![c].status = "active", ![c].launched = today]
          PROVE  campaign' \in [Campaigns -> CampaignRow]
      <3>1. [[campaign[c] EXCEPT !.status = "active"] EXCEPT !.launched = today] \in CampaignRow
        BY <2>1 DEF CampaignRow
      <3>2. campaign' = [campaign EXCEPT
                           ![c] = [[campaign[c] EXCEPT !.status = "active"] EXCEPT !.launched = today]]
        BY <2>1, <2>3
      <3> QED
        BY <2>1, <3>1, <3>2
    <2> QED
      BY <1>3, <2>1, <2>2, <2>3
  <1>5. \E r \in CallRow : call' = [call EXCEPT ![w] = r]
    <2>1. CASE \E tool \in {"launch", "set_budget"}, c \in Campaigns,
            b \in MinBudget..MaxBudget : CallTool(w, tool, c, b)
      <3>1. PICK tool \in {"launch", "set_budget"}, c \in Campaigns,
              b \in MinBudget..MaxBudget : CallTool(w, tool, c, b)
        BY <2>1
      <3>2. [at |-> "gate", tool |-> tool, campaign |-> c, budget |-> b] \in CallRow
        BY DEF CallRow, Amounts
      <3> QED
        BY <3>1, <3>2 DEF CallTool
    <2>2. CASE Gate(w)
      <3>1. call' = [call EXCEPT ![w] = [call[w] EXCEPT !.at = IF Allowed(w) THEN "handler" ELSE "parked"]]
        BY <2>2 DEF Gate
      <3> DEFINE at == IF Allowed(w) THEN "handler" ELSE "parked"
      <3>2. at \in {"handler", "parked"}
        OBVIOUS
      <3> HIDE DEF at
      <3>3. [call[w] EXCEPT !.at = at] \in CallRow
        BY <1>1, <3>2 DEF CallRow
      <3> QED
        BY <3>1, <3>3 DEF at
    <2>3. CASE Approve(w)
      <3>1. [call[w] EXCEPT !.at = "handler"] \in CallRow
        BY <1>1 DEF CallRow
      <3> QED
        BY <2>3, <3>1 DEF Approve
    <2>4. CASE Drop(w) \/ SetBudget(w) \/ Launch(w)
      BY <1>2, <2>4 DEF Drop, SetBudget, Launch
    <2> QED
      BY <2>1, <2>2, <2>3, <2>4 DEF Tool
  <1>6. call' \in [Calls -> CallRow]
    BY <1>5 DEF AdTyped
  <1>7. launchedSince' \in [Syncs -> SUBSET Campaigns]
    <2>1. UNCHANGED launchedSince \/ Launch(w)
      BY DEF Tool, CallTool, Gate, Approve, Drop, SetBudget
    <2>2. call[w].campaign \in Campaigns /\ launchedSince \in [Syncs -> SUBSET Campaigns]
      BY <1>1 DEF CallRow, AdTyped
    <2> QED
      BY <2>1, <2>2 DEF Launch
  <1>8. UNCHANGED <<cap, autonomy, spend, today, sync, unannounced, overlapped>>
    BY DEF Tool, CallTool, Gate, Approve, Drop, SetBudget, Launch, owner, audit
  <1> QED
    BY <1>4, <1>6, <1>7, <1>8 DEF AdTyped

\* One sync moves on.
LEMMA SyncRowTyped ==
  ASSUME AdTyped, NEW s \in Syncs, NEW r \in SyncRow, Becomes(s, r)
  PROVE  sync' \in [Syncs -> SyncRow]
  BY DEF AdTyped, Becomes

\* What the reallocation decides is a sync's state: it ends, or applies its moves.
LEMMA PlanBecomes ==
  ASSUME AdTyped, NEW s \in Syncs, Plan(s)
  PROVE  \E r \in SyncRow : Becomes(s, r) /\ r.at \in {"idle", "apply"}
  <1>1. MinBudget \in Amounts /\ ActiveCampaigns \in SUBSET Campaigns
    BY AdBudgetsAssumption DEF Amounts, ActiveCampaigns
  <1>2. IdleSync \in SyncRow /\ IdleSync.at = "idle"
    BY IdleSyncTyped
  <1>3. CASE ~Autonomous
    BY <1>2, <1>3 DEF Plan
  <1>4. CASE Autonomous
    <2>1. PICK revenue \in [ActiveCampaigns -> Revenues] :
            LET d == [c \in ActiveCampaigns |->
                        planReallocation(campaign[c].budget, SpendOf(c), revenue[c], Headroom)]
                moves == {c \in ActiveCampaigns : d[c].action # "hold"}
            IN Becomes(s, IF moves = {} THEN IdleSync ELSE
                 [IdleSync EXCEPT !.at = "apply", !.todo = moves,
                    !.budget = [c \in Campaigns |-> IF c \in moves THEN d[c].to ELSE MinBudget],
                    !.action = [c \in Campaigns |-> IF c \in moves THEN d[c].action ELSE "hold"]])
      BY <1>4 DEF Plan
    <2> DEFINE d == [c \in ActiveCampaigns |->
                        planReallocation(campaign[c].budget, SpendOf(c), revenue[c], Headroom)]
               moves == {c \in ActiveCampaigns : d[c].action # "hold"}
               budget == [c \in Campaigns |-> IF c \in moves THEN d[c].to ELSE MinBudget]
               action == [c \in Campaigns |-> IF c \in moves THEN d[c].action ELSE "hold"]
               r == [IdleSync EXCEPT !.at = "apply", !.todo = moves, !.budget = budget,
                       !.action = action]
    <2>2. Becomes(s, IF moves = {} THEN IdleSync ELSE r)
      BY <2>1
    <2>3. \A c \in ActiveCampaigns : campaign[c].budget \in Amounts
      BY <1>1 DEF AdTyped, CampaignRow
    <2>4. d \in [ActiveCampaigns -> [action : Moves, to : Amounts]]
      BY <2>3, MoveFits
    <2> HIDE DEF d
    <2>5. moves \in SUBSET Campaigns /\ moves \subseteq ActiveCampaigns
      BY <1>1
    <2> HIDE DEF moves
    <2>6. budget \in [Campaigns -> Amounts]
      BY <1>1, <2>4, <2>5
    <2>7. action \in [Campaigns -> Moves]
      BY <2>4, <2>5 DEF Moves
    <2> HIDE DEF budget, action
    <2>8. r \in SyncRow /\ r.at = "apply"
      BY <1>2, <2>5, <2>6, <2>7 DEF SyncRow
    <2> HIDE DEF r
    <2>9. CASE moves = {}
      BY <1>2, <2>2, <2>9
    <2>10. CASE moves # {}
      BY <2>2, <2>8, <2>10
    <2> QED
      BY <2>9, <2>10
  <1> QED
    BY <1>3, <1>4

\* A decision taken leaves the sync applying the rest, or ends it.
LEMMA DecidedBecomes ==
  ASSUME AdTyped, NEW s \in Syncs, NEW c \in Campaigns, sync[s].at = "apply", Decided(s, c)
  PROVE  \E r \in SyncRow : Becomes(s, r) /\ r.at \in {"idle", "apply"}
  <1>1. sync[s] \in SyncRow
    BY DEF AdTyped
  <1>2. [sync[s] EXCEPT !.todo = sync[s].todo \ {c}] \in SyncRow
    BY <1>1 DEF SyncRow
  <1>3. [sync[s] EXCEPT !.todo = sync[s].todo \ {c}].at = "apply"
    BY <1>1 DEF SyncRow
  <1>4. CASE sync[s].todo \ {c} = {}
    BY <1>4, IdleSyncTyped DEF Decided
  <1>5. CASE sync[s].todo \ {c} # {}
    BY <1>2, <1>3, <1>5 DEF Decided
  <1> QED
    BY <1>4, <1>5

\* What the steps of a sync do to the types.
LEMMA SyncTyped ==
  ASSUME AdTyped, NEW s \in Syncs,
         SyncStep(s) \/ SyncFails(s) \/ \E c \in Campaigns : SkipInsights(s, c) \/ SkipMove(s, c)
  PROVE  AdTyped'
  <1>1. /\ sync[s] \in SyncRow /\ today \in Days /\ cap \in Caps /\ MinBudget \in Amounts
        /\ 1 \in Days /\ 0 \in Caps
    BY AdBudgetsAssumption DEF AdTyped, Amounts, Days
  <1>2. IdleSync \in SyncRow
    BY IdleSyncTyped
  <1>3. MonthSpend \in Nat
    BY MonthSpendType
  <1>4. ActiveCampaigns \in SUBSET Campaigns
    BY DEF ActiveCampaigns
  <1> DEFINE Rest == UNCHANGED <<cap, autonomy, today, call>>
  <1>5. CASE StartSync(s)
    <2> DEFINE r == [at |-> "insights", cap |-> cap, day |-> today, before |-> MonthSpend,
                     todo |-> ActiveCampaigns, snapshot |-> ActiveCampaigns,
                     budget |-> [c \in Campaigns |-> campaign[c].budget],
                     action |-> IdleSync.action]
    <2>1. [c \in Campaigns |-> campaign[c].budget] \in [Campaigns -> Amounts]
      BY DEF AdTyped, CampaignRow
    <2>2. IdleSync.action \in [Campaigns -> Moves]
      BY <1>2 DEF SyncRow
    <2>3. r \in SyncRow
      BY <1>1, <1>3, <1>4, <2>1, <2>2 DEF SyncRow
    <2> HIDE DEF r
    <2>4. sync' \in [Syncs -> SyncRow]
      BY <1>5, <2>3, SyncRowTyped DEF StartSync, r
    <2>5. launchedSince' \in [Syncs -> SUBSET Campaigns] /\ unannounced' \in Int
            /\ overlapped' \in BOOLEAN
      BY <1>5 DEF StartSync, AdTyped
    <2> QED
      BY <1>5, <2>4, <2>5 DEF StartSync, AdTyped, owner
  <1>6. ASSUME NEW c \in Campaigns, Upsert(s, c) PROVE AdTyped'
    <2>1. [sync[s] EXCEPT !.todo = sync[s].todo \ {c}] \in SyncRow
      BY <1>1 DEF SyncRow
    <2>2. sync' \in [Syncs -> SyncRow]
      BY <1>6, <2>1, SyncRowTyped DEF Upsert
    <2>3. Insights(s, c) \in Spending
      BY InsightsFit
    <2>4. spend' \in [Campaigns -> Spending]
      BY <1>6, <2>3 DEF Upsert, AdTyped
    <2>5. Insights(s, c) \in [Days -> Nat] /\ SpendOf(c) \in Nat
      BY <2>3, MonthSpendType, AdBudgetsAssumption DEF Spending
    <2>6. MonthOf(Insights(s, c)) \in Nat
      BY <1>1, <2>5, MonthOfType
    <2>7. unannounced' \in Int
      BY <1>6, <2>5, <2>6 DEF Upsert, AdTyped
    <2> QED
      BY <1>6, <2>2, <2>4, <2>7 DEF Upsert, AdTyped, owner
  <1>7. ASSUME NEW c \in Campaigns, SkipInsights(s, c) PROVE AdTyped'
    <2>1. [sync[s] EXCEPT !.todo = sync[s].todo \ {c}] \in SyncRow
      BY <1>1 DEF SyncRow
    <2>2. sync' \in [Syncs -> SyncRow]
      BY <1>7, <2>1, SyncRowTyped DEF SkipInsights
    <2> QED
      BY <1>7, <2>2 DEF SkipInsights, Quiet, AdTyped, owner, audit
  <1>8. CASE Announce(s)
    <2>1. [IdleSync EXCEPT !.at = "pause", !.snapshot = sync[s].snapshot,
            !.todo = sync[s].snapshot] \in SyncRow
      BY <1>1, <1>2 DEF SyncRow
    <2>2. [IdleSync EXCEPT !.at = "optimize"] \in SyncRow
      BY <1>2 DEF SyncRow
    <2>3. sync' \in [Syncs -> SyncRow]
      <3>1. CASE OverCap(s)
        BY <1>8, <2>1, <3>1, SyncRowTyped DEF Announce
      <3>2. CASE ~OverCap(s)
        BY <1>8, <2>2, <3>2, SyncRowTyped DEF Announce
      <3> QED
        BY <3>1, <3>2
    <2>4. Increase(s) \in Int
      <3>1. MonthSpend - sync[s].before \in Int
        BY <1>1, <1>3 DEF SyncRow
      <3> QED
        BY <3>1, MaxIs DEF Increase
    <2>5. unannounced' \in Int
      BY <1>8, <2>4 DEF Announce, AdTyped
    <2> QED
      BY <1>8, <2>3, <2>5 DEF Announce, AdTyped, owner
  <1>9. ASSUME NEW c \in Campaigns, AutoPause(s, c) PROVE AdTyped'
    <2>1. [sync[s] EXCEPT !.todo = sync[s].todo \ {c}] \in SyncRow
      BY <1>1 DEF SyncRow
    <2>2. sync' \in [Syncs -> SyncRow]
      BY <1>9, <2>1, SyncRowTyped DEF AutoPause
    <2>3. campaign' \in [Campaigns -> CampaignRow]
      BY <1>9 DEF AutoPause, AdTyped, CampaignRow
    <2> QED
      BY <1>9, <2>2, <2>3 DEF AutoPause, AdTyped, owner, audit
  <1>10. CASE BudgetExceeded(s)
    <2>1. [IdleSync EXCEPT !.at = "optimize"] \in SyncRow
      BY <1>2 DEF SyncRow
    <2>2. sync' \in [Syncs -> SyncRow]
      BY <1>10, <2>1, SyncRowTyped DEF BudgetExceeded
    <2> QED
      BY <1>10, <2>2 DEF BudgetExceeded, Quiet, AdTyped, owner, audit
  <1>11. CASE Plan(s)
    <2>1. sync' \in [Syncs -> SyncRow]
      BY <1>11, PlanBecomes, SyncRowTyped
    <2> QED
      BY <1>11, <2>1 DEF Plan, Quiet, AdTyped, owner, audit
  <1>12. ASSUME NEW c \in Campaigns, Apply(s, c) \/ SkipMove(s, c) PROVE AdTyped'
    <2>1. sync[s].at = "apply" /\ Decided(s, c)
      BY <1>12 DEF Apply, SkipMove
    <2>2. sync' \in [Syncs -> SyncRow]
      BY <2>1, DecidedBecomes, SyncRowTyped
    <2>3. campaign' \in [Campaigns -> CampaignRow]
      <3>1. sync[s].budget[c] \in Amounts /\ campaign \in [Campaigns -> CampaignRow]
        BY <1>1 DEF SyncRow, AdTyped
      <3>2. \/ UNCHANGED campaign \/ campaign' = [campaign EXCEPT ![c].status = "paused"]
            \/ campaign' = [campaign EXCEPT ![c].budget = sync[s].budget[c]]
        BY <1>12 DEF Apply, SkipMove, Quiet
      <3> QED
        BY <3>1, <3>2 DEF CampaignRow
    <2> QED
      BY <1>12, <2>2, <2>3 DEF Apply, SkipMove, Quiet, AdTyped, owner, audit
  <1>13. CASE SyncFails(s)
    <2>1. sync' \in [Syncs -> SyncRow]
      BY <1>2, <1>13, SyncRowTyped DEF SyncFails
    <2>2. unannounced' \in Int
      BY <1>13 DEF SyncFails, AdTyped
    <2> QED
      BY <1>13, <2>1, <2>2 DEF SyncFails, AdTyped, owner
  <1> QED
    BY <1>5, <1>6, <1>7, <1>8, <1>9, <1>10, <1>11, <1>12, <1>13 DEF SyncStep

\* Every step keeps the types.
LEMMA AdTypedStep == AdTyped /\ [Next]_vars => AdTyped'
  <1> SUFFICES ASSUME AdTyped, [Next]_vars PROVE AdTyped'
    OBVIOUS
  <1>1. ASSUME NEW c \in Campaigns, NEW b \in Budgets, CreateCampaign(c, b) PROVE AdTyped'
    <2>1. b \in Amounts /\ 1 \in Days
      BY AdBudgetsAssumption DEF Amounts, Days
    <2>2. campaign' \in [Campaigns -> CampaignRow]
      BY <1>1, <2>1 DEF CreateCampaign, AdTyped, CampaignRow
    <2> QED
      BY <1>1, <2>2 DEF CreateCampaign, AdTyped, owner, audit
  <1>2. ASSUME NEW c \in Campaigns, PauseCampaign(c) PROVE AdTyped'
    <2>1. campaign' \in [Campaigns -> CampaignRow]
      BY <1>2 DEF PauseCampaign, AdTyped, CampaignRow
    <2> QED
      BY <1>2, <2>1 DEF PauseCampaign, AdTyped, owner, audit
  <1>3. ASSUME NEW n \in Caps, SetCap(n) PROVE AdTyped'
    BY <1>3 DEF SetCap, AdTyped, audit
  <1>4. CASE Midnight
    <2>1. today' \in Days /\ unannounced' \in Int
      BY <1>4, Calendar DEF Midnight, AdTyped, Days
    <2> QED
      BY <1>4, <2>1 DEF Midnight, AdTyped, owner
  <1>5. CASE UNCHANGED vars
    BY <1>5 DEF vars, owner, audit, AdTyped
  <1> QED
    BY <1>1, <1>2, <1>3, <1>4, <1>5, ToolTyped, SyncTyped DEF Next

----------------------------------------------------------------------------
(* The backstop.                                                           *)

\* They are the types the runs check.
LEMMA TypesAreKept == AdTyped => TypeOK
  <1> SUFFICES ASSUME AdTyped PROVE TypeOK
    OBVIOUS
  <1>1. /\ campaign \in [Campaigns -> [status : {"none", "paused", "active"},
                                      budget : MinBudget..MaxBudget, launched : Days]]
        /\ spend \in [Campaigns -> [Days -> 0..MaxBudget]]
        /\ call \in [Calls -> [at : {"idle", "gate", "parked", "handler"}, tool : {"launch",
                "set_budget"},
                               campaign : Campaigns, budget : MinBudget..MaxBudget]]
    BY DEF AdTyped, CampaignRow, Spending, CallRow, Amounts
  <1>2. \A s \in Syncs :
          /\ sync[s].at \in {"idle", "insights", "pause", "optimize", "apply"} /\ sync[s].cap \in Caps
          /\ sync[s].snapshot \subseteq Campaigns /\ sync[s].todo \subseteq Campaigns
          /\ sync[s].budget \in [Campaigns -> MinBudget..MaxBudget]
    BY DEF AdTyped, SyncRow, Amounts
  <1> QED
    BY <1>1, <1>2 DEF AdTyped, TypeOK

\* What is active is what the sync found, or has paused since, or was launched since.
Watched(s, r) ==
  /\ r.at = "insights" => ActiveCampaigns \subseteq r.snapshot \cup launchedSince[s]
  /\ r.at = "pause" => ActiveCampaigns \subseteq r.todo \cup launchedSince[s]
\* The backstop's invariant, of every sync.
BackInv == \A s \in Syncs : Watched(s, sync[s])

\* A step of one sync that launches nothing.
LEMMA BackStep ==
  ASSUME AdTyped, BackInv, NEW s \in Syncs, NEW r, Becomes(s, r),
          ActiveCampaigns' \subseteq ActiveCampaigns,
         \A t \in Syncs \ {s} : launchedSince'[t] = launchedSince[t],
         /\ r.at = "insights" => ActiveCampaigns' \subseteq r.snapshot \cup launchedSince'[s]
         /\ r.at = "pause" => ActiveCampaigns' \subseteq r.todo \cup launchedSince'[s]
  PROVE  BackInv'
  <1>1. sync'[s] = r /\ \A t \in Syncs \ {s} : sync'[t] = sync[t]
    BY DEF Becomes, AdTyped
  <1>2. ASSUME NEW t \in Syncs PROVE Watched(t, sync[t])'
    <2>1. CASE t = s
      BY <1>1, <2>1 DEF Watched
    <2>2. CASE t # s
      <3>1. sync'[t] = sync[t] /\ launchedSince'[t] = launchedSince[t] /\ Watched(t, sync[t])
        BY <1>1, <2>2 DEF BackInv
      <3> QED
        BY <3>1 DEF Watched
    <2> QED
      BY <2>1, <2>2
  <1> QED
    BY <1>2 DEF BackInv

\* A step outside the syncs that launches nothing.
LEMMA BackSame ==
  ASSUME BackInv, UNCHANGED <<sync, launchedSince>>, ActiveCampaigns' \subseteq ActiveCampaigns
  PROVE  BackInv'
  BY DEF BackInv, Watched

\* The steps that leave a sync neither mirroring the spend nor pausing campaigns.
LEMMA MovesOn ==
  ASSUME AdTyped, NEW s \in Syncs,
         BudgetExceeded(s) \/ Plan(s) \/ SyncFails(s) \/ \E c \in Campaigns : Apply(s, c)
                 \/ SkipMove(s, c)
  PROVE  \E r : Becomes(s, r) /\ r.at \notin {"insights", "pause"}
  <1>1. IdleSync.at = "idle" /\ [IdleSync EXCEPT !.at = "optimize"].at = "optimize"
    BY DEF IdleSync
  <1>2. CASE BudgetExceeded(s) \/ SyncFails(s)
    BY <1>1, <1>2 DEF BudgetExceeded, SyncFails
  <1>3. CASE Plan(s)
    BY <1>3, PlanBecomes
  <1>4. CASE \E c \in Campaigns : Apply(s, c) \/ SkipMove(s, c)
    BY <1>4, DecidedBecomes DEF Apply, SkipMove
  <1> QED
    BY <1>2, <1>3, <1>4

\* No sync is under way at the start.
LEMMA BackStart == Init => BackInv
  BY DEF Init, BackInv, Watched, IdleSync

\* The steps of a sync keep the backstop's invariant.
LEMMA BackSync ==
  ASSUME AdTyped, BackInv, NEW s \in Syncs,
         SyncStep(s) \/ SyncFails(s) \/ \E c \in Campaigns : SkipInsights(s, c) \/ SkipMove(s, c)
  PROVE  BackInv'
  <1>1. Watched(s, sync[s])
    BY DEF BackInv
  <1>2. sync[s] \in SyncRow /\ campaign \in [Campaigns -> CampaignRow]
          /\ launchedSince \in [Syncs -> SUBSET Campaigns]
    BY DEF AdTyped
  <1>3. CASE StartSync(s)
    <2> DEFINE r == [at |-> "insights", cap |-> cap, day |-> today, before |-> MonthSpend,
                     todo |-> ActiveCampaigns, snapshot |-> ActiveCampaigns,
                     budget |-> [c \in Campaigns |-> campaign[c].budget],
                     action |-> IdleSync.action]
    <2>1. Becomes(s, r) /\ r.at = "insights" /\ r.snapshot = ActiveCampaigns
      BY <1>3 DEF StartSync
    <2>2. ActiveCampaigns' = ActiveCampaigns
      BY <1>3 DEF StartSync, ActiveCampaigns
    <2>3. \A t \in Syncs \ {s} : launchedSince'[t] = launchedSince[t]
      BY <1>2, <1>3 DEF StartSync
    <2> HIDE DEF r
    <2> QED
      BY <2>1, <2>2, <2>3, BackStep
  <1>4. ASSUME NEW c \in Campaigns, Upsert(s, c) \/ SkipInsights(s, c) PROVE BackInv'
    <2> DEFINE r == [sync[s] EXCEPT !.todo = sync[s].todo \ {c}]
    <2>1. Becomes(s, r) /\ r.at = "insights" /\ r.snapshot = sync[s].snapshot /\ sync[s].at = "insights"
      BY <1>2, <1>4 DEF Upsert, SkipInsights, SyncRow
    <2>2. UNCHANGED <<launchedSince, campaign>>
      BY <1>4 DEF Upsert, SkipInsights, Quiet
    <2>3. ActiveCampaigns' = ActiveCampaigns
      BY <2>2 DEF ActiveCampaigns
    <2> HIDE DEF r
    <2> QED
      BY <1>1, <2>1, <2>2, <2>3, BackStep DEF Watched
  <1>5. CASE Announce(s)
    <2> DEFINE r == IF OverCap(s) THEN [IdleSync EXCEPT !.at = "pause", !.snapshot = sync[s].snapshot,
                                                        !.todo = sync[s].snapshot]
                                  ELSE [IdleSync EXCEPT !.at = "optimize"]
    <2>1. Becomes(s, r) /\ sync[s].at = "insights" /\ UNCHANGED <<launchedSince, campaign>>
      BY <1>5 DEF Announce
    <2>2. r.at # "insights" /\ (r.at = "pause" => r.todo = sync[s].snapshot)
      BY DEF IdleSync
    <2>3. ActiveCampaigns' = ActiveCampaigns
      BY <2>1 DEF ActiveCampaigns
    <2> HIDE DEF r
    <2> QED
      BY <1>1, <2>1, <2>2, <2>3, BackStep DEF Watched
  <1>6. ASSUME NEW c \in Campaigns, AutoPause(s, c) PROVE BackInv'
    <2> DEFINE r == [sync[s] EXCEPT !.todo = sync[s].todo \ {c}]
    <2>1. Becomes(s, r) /\ sync[s].at = "pause" /\ UNCHANGED launchedSince
      BY <1>6 DEF AutoPause
    <2>2. r.at = "pause" /\ r.todo = sync[s].todo \ {c}
      BY <1>2, <2>1 DEF SyncRow
    <2>3. ActiveCampaigns' = ActiveCampaigns \ {c}
      BY <1>2, <1>6 DEF AutoPause, ActiveCampaigns, CampaignRow
    <2> HIDE DEF r
    <2> QED
      BY <1>1, <2>1, <2>2, <2>3, BackStep DEF Watched
  <1>7. ASSUME BudgetExceeded(s) \/ Plan(s) \/ SyncFails(s) \/ \E c \in Campaigns : Apply(s, c)
          \/ SkipMove(s, c)
        PROVE  BackInv'
    <2>1. \E r : Becomes(s, r) /\ r.at \notin {"insights", "pause"}
      BY <1>7, MovesOn
    <2>2. UNCHANGED launchedSince
      BY <1>7 DEF BudgetExceeded, Plan, SyncFails, Apply, SkipMove, Quiet
    <2>3. ActiveCampaigns' \subseteq ActiveCampaigns
      <3>1. \/ UNCHANGED campaign
            \/ \E c \in Campaigns : campaign' = [campaign EXCEPT ![c].status = "paused"]
            \/ \E c \in Campaigns, b \in Amounts : campaign' = [campaign EXCEPT ![c].budget = b]
        BY <1>2, <1>7 DEF BudgetExceeded, Plan, SyncFails, Apply, SkipMove, Quiet, SyncRow
      <3>2. ASSUME NEW c \in Campaigns, NEW b \in Amounts, campaign' = [campaign EXCEPT ![c].budget = b]
            PROVE  \A x \in Campaigns : campaign'[x].status = campaign[x].status
        BY <1>2, <3>2 DEF CampaignRow
      <3>3. ASSUME NEW c \in Campaigns, campaign' = [campaign EXCEPT ![c].status = "paused"]
            PROVE  \A x \in Campaigns : campaign'[x].status \in {campaign[x].status, "paused"}
        BY <1>2, <3>3 DEF CampaignRow
      <3>4. \A x \in Campaigns : campaign'[x].status \in {campaign[x].status, "paused"}
        BY <3>1, <3>2, <3>3
      <3> QED
        BY <3>4 DEF ActiveCampaigns
    <2> QED
      BY <2>1, <2>2, <2>3, BackStep
  <1> QED
    BY <1>3, <1>4, <1>5, <1>6, <1>7 DEF SyncStep

\* So do the steps of a tool call: what it launches is recorded beside every watching sync.
LEMMA BackTool ==
  ASSUME AdTyped, BackInv, NEW w \in Calls, Tool(w)
  PROVE  BackInv'
  <1>1. call[w].campaign \in Campaigns /\ campaign \in [Campaigns -> CampaignRow]
        /\ launchedSince \in [Syncs -> SUBSET Campaigns]
    BY DEF AdTyped, CallRow
  <1>2. CASE Launch(w)
    <2> DEFINE c == call[w].campaign
    <2>1. ActiveCampaigns' \subseteq ActiveCampaigns \cup {c}
      <3>1. \A x \in Campaigns \ {c} : campaign'[x] = campaign[x]
        BY <1>1, <1>2 DEF Launch
      <3> QED
        BY <3>1 DEF ActiveCampaigns
    <2>2. UNCHANGED sync /\ \A s \in Syncs :
            sync[s].at \in AfterSnapshot => launchedSince'[s] = launchedSince[s] \cup {c}
      BY <1>1, <1>2 DEF Launch
    <2> QED
      BY <2>1, <2>2 DEF BackInv, Watched, AfterSnapshot
  <1>3. CASE SetBudget(w)
    <2>1. \A x \in Campaigns : campaign'[x].status = campaign[x].status
      BY <1>1, <1>3 DEF SetBudget, CampaignRow
    <2>2. ActiveCampaigns' = ActiveCampaigns
      BY <2>1 DEF ActiveCampaigns
    <2> QED
      BY <1>3, <2>2, BackSame DEF SetBudget
  <1>4. ASSUME Tool(w), ~Launch(w), ~SetBudget(w) PROVE BackInv'
    <2>1. UNCHANGED <<sync, launchedSince, campaign>>
      BY <1>4 DEF Tool, CallTool, Gate, Approve, Drop
    <2> QED
      BY <2>1, BackSame DEF ActiveCampaigns
  <1> QED
    BY <1>2, <1>3, <1>4

\* So does every step.
LEMMA BackKeeps == AdTyped /\ BackInv /\ [Next]_vars => BackInv'
  <1> SUFFICES ASSUME AdTyped, BackInv, [Next]_vars PROVE BackInv'
    OBVIOUS
  <1>1. ASSUME NEW c \in Campaigns, (\E b \in Budgets : CreateCampaign(c, b)) \/ PauseCampaign(c)
          PROVE BackInv'
    <2>1. UNCHANGED <<sync, launchedSince>>
      BY <1>1 DEF CreateCampaign, PauseCampaign
    <2>2. \E r : r.status = "paused" /\ campaign' = [campaign EXCEPT ![c] = r]
      <3>1. campaign[c] \in CampaignRow
        BY DEF AdTyped
      <3>2. [campaign[c] EXCEPT !.status = "paused"].status = "paused"
        BY <3>1 DEF CampaignRow
      <3> QED
        BY <1>1, <3>2 DEF CreateCampaign, PauseCampaign
    <2>3. ActiveCampaigns' \subseteq ActiveCampaigns
      BY <2>2 DEF ActiveCampaigns, AdTyped
    <2> QED
      BY <2>1, <2>3, BackSame
  <1>2. CASE Midnight \/ UNCHANGED vars \/ \E n \in Caps : SetCap(n)
    <2>1. UNCHANGED <<sync, launchedSince, campaign>>
      BY <1>2 DEF Midnight, SetCap, vars
    <2> QED
      BY <2>1, BackSame DEF ActiveCampaigns
  <1> QED
    BY <1>1, <1>2, BackTool, BackSync DEF Next

\* A sync that has nothing left to pause has left active only what was launched since.
LEMMA BackstopFollows == AdTyped /\ BackInv => BackstopHolds
  BY DEF BackInv, Watched, BackstopHolds

----------------------------------------------------------------------------
(* The audit.                                                              *)

\* What a sync that mirrors the spend has added is at most the month's growth since its
\* first read; what it added to a month that has ended is no part of this one.
Accounted(r) ==
  /\ r.day <= today
  /\ IF MonthStartDay(today) <= r.day THEN unannounced <= MonthSpend - r.before ELSE unannounced <= 0
\* The syncs that mirror the spend.
Mirrors == {s \in Syncs : sync[s].at = "insights"}
\* While no two of them have met there is one at most, and it answers for its additions.
AuditInv ==
  ~overlapped =>
    /\ \A s, t \in Mirrors : s = t
    /\ \A s \in Mirrors : Accounted(sync[s])
    /\ Mirrors = {} => unannounced <= 0

\* When none mirrors the spend, nothing is unannounced.
LEMMA AuditFollows == AuditInv => AuditCovers
  BY DEF AuditInv, Mirrors, AuditCovers

\* None does at the start.
LEMMA AuditStart == Init => AuditInv
  <1> SUFFICES ASSUME Init PROVE AuditInv
    OBVIOUS
  <1>1. Mirrors = {}
    BY DEF Init, Mirrors, IdleSync
  <1> QED
    BY <1>1 DEF Init, AuditInv

\* A month's spend is the recursion's value of today.
LEMMA MonthUnfolds ==
  ASSUME NEW rows
  PROVE  MonthOf(rows) = (CHOOSE g : Running1(rows, MonthStartDay(today), today, g))[today]
  BY DEF MonthOf, Running1

\* The day's spend of one campaign, written over what was there.
LEMMA UpsertSpend ==
  ASSUME AdTyped, NEW c \in Campaigns, NEW rows \in Spending, spend' = [spend EXCEPT ![c] = rows],
         UNCHANGED today
  PROVE  MonthSpend' = MonthSpend + MonthOf(rows) - SpendOf(c)
  <1> DEFINE v == MonthOf(rows)
  <1>1. Monthly \in [Campaigns -> Nat] /\ IsFiniteSet(Campaigns) /\ MaxBudget \in Nat
    BY MonthSpendType, AdBudgetsAssumption
  <1>2. v \in Nat
    <2>1. rows \in [Days -> Nat] /\ today \in Days
      BY <1>1 DEF Spending, AdTyped
    <2> QED
      BY <2>1, MonthOfType
  <1>3. \A x \in Campaigns : SpendOf(x)' = IF x = c THEN v ELSE SpendOf(x)
    <2>1. \A x \in Campaigns : spend'[x] = IF x = c THEN rows ELSE spend[x]
      BY DEF AdTyped
    <2>2. ASSUME NEW x \in Campaigns PROVE SpendOf(x)' = MonthOf(IF x = c THEN rows ELSE spend[x])
      <3>1. SpendOf(x)' = (CHOOSE g : Running1(spend'[x], MonthStartDay(today'), today', g))[today']
        BY DEF SpendOf, MonthOf, Running1
      <3>2. spend'[x] = IF x = c THEN rows ELSE spend[x]
        BY <2>1
      <3> QED
        BY <3>1, <3>2, MonthUnfolds
    <2> QED
      BY <2>2 DEF SpendOf
  <1> HIDE DEF v
  <1>4. [x \in Campaigns |-> SpendOf(x)]' = [Monthly EXCEPT ![c] = v]
    BY <1>3 DEF Monthly
  <1>5. Monthly \in [Campaigns -> Int] /\ v \in Int /\ IsFiniteSet(Campaigns)
    BY <1>1, <1>2
  <1>6. SumFunction([Monthly EXCEPT ![c] = v]) = SumFunction(Monthly) - Monthly[c] + v
    BY <1>5, SumExcept
  <1>7. SumFunction(Monthly) \in Int /\ Monthly[c] \in Int
    BY <1>1, <1>5, SumType
  <1>8. MonthSpend' = SumFunction([Monthly EXCEPT ![c] = v])
    BY <1>4 DEF MonthSpend
  <1>9. MonthSpend = SumFunction(Monthly) /\ SpendOf(c) = Monthly[c]
    BY DEF MonthSpend, Monthly
  <1> QED
    BY <1>2, <1>6, <1>7, <1>8, <1>9 DEF v

\* A sync of a day before this month rewrites no day of this month.
LEMMA EarlierMonth ==
  ASSUME AdTyped, NEW s \in Syncs, NEW c \in Campaigns, sync[s].day < MonthStartDay(today)
  PROVE  MonthOf(Insights(s, c)) = SpendOf(c)
  <1>1. MaxBudget \in Nat /\ today \in Days /\ sync[s].day \in Days
    BY AdBudgetsAssumption DEF AdTyped, SyncRow
  <1>2. Insights(s, c) \in [Days -> Int] /\ spend[c] \in [Days -> Int]
    BY <1>1, InsightsFit DEF Spending, AdTyped
  <1>3. MonthStartDay(today) \in Nat /\ MonthStartDay(today)..today \subseteq Days
          /\ sync[s].day \in Nat
    BY <1>1, Calendar DEF Days
  <1>4. \A d \in MonthStartDay(today)..today : Insights(s, c)[d] = spend[c][d]
    <2> SUFFICES ASSUME NEW d \in MonthStartDay(today)..today PROVE Insights(s, c)[d] = spend[c][d]
      OBVIOUS
    <2>1. d \in Days /\ ~(d <= sync[s].day)
      BY <1>3
    <2>2. d \notin SinceDay(c, sync[s].day)..sync[s].day
      BY <2>1
    <2> QED
      BY <2>1, <2>2 DEF Insights
  <1> QED
    BY <1>1, <1>2, <1>4, SameMonth DEF SpendOf

\* A new day of the same month takes nothing from what the month has cost.
LEMMA NextDay ==
  ASSUME AdTyped, today < MaxDay, today' = today + 1, UNCHANGED spend,
         MonthStartDay(today') = MonthStartDay(today)
  PROVE  MonthSpend <= MonthSpend' /\ MonthSpend' \in Int
  <1>1. MaxDay \in Nat /\ today' \in Days /\ today' \in Nat \ {0} /\ today \in Nat \ {0}
          /\ MaxBudget \in Nat
        /\ IsFiniteSet(Campaigns) /\ today' <= MaxDay /\ MonthStartDay(today) \in Nat \ {0}
        /\ MonthStartDay(today) <= today
    BY Calendar, AdBudgetsAssumption DEF Days, AdTyped
  <1>2. ASSUME NEW c \in Campaigns PROVE SpendOf(c)' \in Int /\ SpendOf(c) <= SpendOf(c)'
    <2> DEFINE rows == spend[c]
               from == MonthStartDay(today)
               n == today + 1
    <2>1. rows \in [1..MaxDay -> Nat]
      BY <1>1 DEF AdTyped, Spending, Days
    <2>2. SpendOf(c) = SumFunction(Restrict(rows, from..today))
      <3>1. rows \in [Days -> Int]
        BY <2>1 DEF Days
      <3> HIDE DEF rows
      <3>2. MonthOf(rows) = SumFunction(Restrict(rows, MonthStartDay(today)..today))
        BY <3>1, MonthIsASum DEF AdTyped
      <3> QED
        BY <3>2 DEF SpendOf, rows
    <2>3. SpendOf(c)' = (CHOOSE g : Running1(rows, MonthStartDay(today'), today', g))[today']
      BY DEF SpendOf, MonthOf, Running1
    <2>4. SpendOf(c)' = (CHOOSE g : Running1(rows, from, n, g))[n]
      BY <2>3
    <2> HIDE DEF rows, from
    <2>5. rows \in [1..MaxDay -> Int] /\ from \in Nat \ {0} /\ n \in Nat /\ n <= MaxDay
            /\ n \in from..MaxDay /\ n - 1 = today
      BY <1>1, <2>1 DEF from
    <2> HIDE DEF n
    <2>6. SpendOf(c)' = SumFunction(Restrict(rows, from..n))
      BY <1>1, <2>4, <2>5, RunningSum
    <2>7. SumFunction(Restrict(rows, from..n)) = SumFunction(Restrict(rows, from..(n - 1))) + rows[n]
      <3>1. MaxDay \in Nat
        BY <1>1
      <3> QED
        BY <2>5, <3>1, OneMoreDay
    <2>8. rows[n] \in Nat
      BY <1>1, <2>1, <2>5
    <2>9. SpendOf(c) \in Nat
      BY MonthSpendType
    <2> QED
      BY <2>2, <2>5, <2>6, <2>7, <2>8, <2>9
  <1> DEFINE after == [c \in Campaigns |-> SpendOf(c)']
  <1>3. Monthly \in [Campaigns -> Int] /\ after \in [Campaigns -> Int]
          /\ \A c \in Campaigns : Monthly[c] <= after[c]
    BY <1>2, MonthSpendType DEF Monthly
  <1>4. MonthSpend = SumFunction(Monthly) /\ MonthSpend' = SumFunction(after)
    BY DEF MonthSpend, Monthly
  <1> HIDE DEF after
  <1> QED
    BY <1>1, <1>3, <1>4, SumMonotone, SumType

\* Steps that mirror nothing and write no spend.
LEMMA AuditSame ==
  ASSUME AuditInv, UNCHANGED <<today, spend, unannounced, overlapped>>,
         Mirrors' = Mirrors, \A s \in Mirrors : sync'[s] = sync[s]
  PROVE  AuditInv'
  <1>1. MonthSpend' = MonthSpend
    BY DEF MonthSpend, SpendOf, MonthOf
  <1> QED
    BY <1>1 DEF AuditInv, Accounted

\* A sync that moves on mirrors the spend exactly if its new state does.
LEMMA MirrorsAfter ==
  ASSUME AdTyped, NEW s \in Syncs, NEW r, Becomes(s, r)
  PROVE  /\ Mirrors' = IF r.at = "insights" THEN Mirrors \cup {s} ELSE Mirrors \ {s}
         /\ sync'[s] = r /\ \A t \in Syncs \ {s} : sync'[t] = sync[t]
  <1>1. sync'[s] = r /\ \A t \in Syncs \ {s} : sync'[t] = sync[t]
    BY DEF Becomes, AdTyped
  <1> QED
    BY <1>1 DEF Mirrors

\* A sync begins with nothing unannounced, and knows whether it met another.
LEMMA AuditStartSync ==
  ASSUME AdTyped, AuditInv, NEW s \in Syncs, StartSync(s)
  PROVE  AuditInv'
  <1> DEFINE r == [at |-> "insights", cap |-> cap, day |-> today, before |-> MonthSpend,
                   todo |-> ActiveCampaigns, snapshot |-> ActiveCampaigns,
                   budget |-> [c \in Campaigns |-> campaign[c].budget],
                   action |-> IdleSync.action]
  <1>1. Becomes(s, r) /\ r.at = "insights" /\ r.day = today /\ r.before = MonthSpend
    BY DEF StartSync
  <1> HIDE DEF r
  <1>2. unannounced' = 0 /\ UNCHANGED <<spend, today>>
          /\ overlapped' = (\E t \in Others(s) : sync[t].at = "insights")
    BY DEF StartSync
  <1>3. Mirrors' = Mirrors \cup {s} /\ sync'[s] = r
    BY <1>1, MirrorsAfter
  <1>4. ~overlapped' => Mirrors \subseteq {s}
    BY <1>2 DEF Mirrors, Others
  <1>5. MonthSpend' = MonthSpend /\ MonthSpend \in Nat
    BY <1>2, MonthSpendType DEF MonthSpend, SpendOf, MonthOf
  <1>6. today \in Nat /\ MonthStartDay(today) <= today /\ MonthStartDay(today') = MonthStartDay(today)
    BY <1>2, Calendar DEF AdTyped
  <1>7. Accounted(sync[s])'
    BY <1>1, <1>2, <1>3, <1>5, <1>6 DEF Accounted
  <1> QED
    BY <1>3, <1>4, <1>7 DEF AuditInv

\* What an upsert adds to the month it adds to the account.
LEMMA AuditUpsert ==
  ASSUME AdTyped, AuditInv, NEW s \in Syncs, NEW c \in Campaigns, Upsert(s, c)
  PROVE  AuditInv'
  <1> SUFFICES ASSUME ~overlapped' PROVE AuditInv'
    BY DEF AuditInv
  <1> DEFINE r == [sync[s] EXCEPT !.todo = sync[s].todo \ {c}]
             rows == Insights(s, c)
  <1>1. /\ sync[s].at = "insights" /\ ~overlapped /\ Becomes(s, r) /\ UNCHANGED today
        /\ spend' = [spend EXCEPT ![c] = rows]
        /\ unannounced' = unannounced + MonthOf(rows) - SpendOf(c)
    BY DEF Upsert
  <1>2. r.at = "insights" /\ r.day = sync[s].day /\ r.before = sync[s].before /\ sync[s].day \in Days
        /\ sync[s].before \in Int
    BY <1>1 DEF AdTyped, SyncRow
  <1>3. rows \in Spending
    BY InsightsFit
  <1>4. MonthOf(rows) \in Nat /\ SpendOf(c) \in Nat /\ MonthSpend \in Nat
    <2>1. rows \in [Days -> Nat] /\ today \in Days
      BY <1>3, AdBudgetsAssumption DEF Spending, AdTyped
    <2> HIDE DEF rows
    <2> QED
      BY <2>1, MonthOfType, MonthSpendType
  <1>5. MonthSpend' = MonthSpend + MonthOf(rows) - SpendOf(c)
    <2> HIDE DEF rows
    <2> QED
      BY <1>1, <1>3, UpsertSpend
  <1>6. sync[s].day < MonthStartDay(today) => MonthOf(rows) = SpendOf(c)
    BY EarlierMonth
  <1> HIDE DEF r, rows
  <1>7. Mirrors = {s} /\ Mirrors' = {s} /\ sync'[s] = r
    BY <1>1, <1>2, MirrorsAfter DEF AuditInv, Mirrors
  <1>8. Accounted(sync[s]) /\ unannounced \in Int /\ MonthStartDay(today') = MonthStartDay(today)
    BY <1>1, <1>7 DEF AuditInv, AdTyped
  <1>9. today \in Int /\ MonthStartDay(today) \in Int /\ sync[s].day \in Int
    BY <1>2, Calendar DEF AdTyped, Days
  <1>10. Accounted(sync[s])'
    <2>1. CASE MonthStartDay(today) <= sync[s].day
      BY <1>1, <1>2, <1>4, <1>5, <1>7, <1>8, <1>9, <2>1 DEF Accounted
    <2>2. CASE ~(MonthStartDay(today) <= sync[s].day)
      <3>1. unannounced' = unannounced
        BY <1>1, <1>4, <1>6, <1>8, <1>9, <2>2
      <3> QED
        BY <1>1, <1>2, <1>7, <1>8, <2>2, <3>1 DEF Accounted
    <2> QED
      BY <2>1, <2>2
  <1> QED
    BY <1>7, <1>10 DEF AuditInv

\* The event covers the month's growth, and so the account.
LEMMA AuditAnnounce ==
  ASSUME AdTyped, AuditInv, NEW s \in Syncs, Announce(s)
  PROVE  AuditInv'
  <1> SUFFICES ASSUME ~overlapped' PROVE AuditInv'
    BY DEF AuditInv
  <1> DEFINE r == IF OverCap(s) THEN [IdleSync EXCEPT !.at = "pause", !.snapshot = sync[s].snapshot,
                                                      !.todo = sync[s].snapshot]
                                ELSE [IdleSync EXCEPT !.at = "optimize"]
  <1>1. sync[s].at = "insights" /\ ~overlapped /\ Becomes(s, r)
          /\ unannounced' = unannounced - Increase(s)
    BY DEF Announce
  <1>2. r.at # "insights"
    BY DEF IdleSync
  <1> HIDE DEF r
  <1>3. Mirrors = {s} /\ Mirrors' = {}
    BY <1>1, <1>2, MirrorsAfter DEF AuditInv, Mirrors
  <1>4. Accounted(sync[s]) /\ unannounced \in Int /\ MonthSpend \in Nat /\ sync[s].before \in Int
    BY <1>1, <1>3, MonthSpendType DEF AuditInv, AdTyped, SyncRow
  <1>5. Increase(s) = IF MonthSpend - sync[s].before >= 0 THEN MonthSpend - sync[s].before ELSE 0
    <2> DEFINE n == MonthSpend - sync[s].before
    <2>1. n \in Int /\ 0 \in Int
      BY <1>4
    <2> HIDE DEF n
    <2>2. Max({n, 0}) = IF n >= 0 THEN n ELSE 0
      BY <2>1, MaxIs
    <2> QED
      BY <2>2 DEF Increase, n
  <1>6. unannounced' <= 0
    BY <1>1, <1>4, <1>5 DEF Accounted
  <1> QED
    BY <1>3, <1>6 DEF AuditInv

\* A sync that fails takes its account with it; another's is not touched.
LEMMA AuditSyncFails ==
  ASSUME AdTyped, AuditInv, NEW s \in Syncs, SyncFails(s)
  PROVE  AuditInv'
  <1>1. Becomes(s, IdleSync) /\ UNCHANGED <<today, spend, overlapped>> /\ IdleSync.at = "idle"
        /\ unannounced' = IF sync[s].at = "insights" THEN 0 ELSE unannounced
    BY IdleSyncTyped DEF SyncFails
  <1>2. Mirrors' = Mirrors \ {s} /\ \A t \in Syncs \ {s} : sync'[t] = sync[t]
    BY <1>1, MirrorsAfter
  <1>3. CASE sync[s].at = "insights"
    BY <1>1, <1>2, <1>3 DEF AuditInv, Mirrors
  <1>4. CASE sync[s].at # "insights"
    <2>1. s \notin Mirrors /\ Mirrors \subseteq Syncs
      BY <1>4 DEF Mirrors
    <2>2. Mirrors' = Mirrors /\ \A t \in Mirrors : sync'[t] = sync[t]
      BY <1>2, <2>1
    <2> QED
      BY <1>1, <1>4, <2>2, AuditSame
  <1> QED
    BY <1>3, <1>4

\* A new day adds nothing to the account, and a new month closes it.
LEMMA AuditMidnight ==
  ASSUME AdTyped, AuditInv, Midnight
  PROVE  AuditInv'
  <1> SUFFICES ASSUME ~overlapped' PROVE AuditInv'
    BY DEF AuditInv
  <1>1. /\ today < MaxDay /\ today' = today + 1 /\ UNCHANGED <<spend, sync, overlapped>>
        /\ unannounced' = IF MonthStartDay(today + 1) = today + 1 THEN 0 ELSE unannounced
    BY DEF Midnight
  <1>2. today \in Nat \ {0} /\ MonthStartDay(today) \in 1..today
    BY Calendar DEF AdTyped
  <1>3. MonthStartDay(today + 1) \in {MonthStartDay(today), today + 1}
    BY <1>2, MonthStart
  <1>4. Mirrors' = Mirrors /\ MonthStartDay(today') = MonthStartDay(today + 1)
          /\ Mirrors \subseteq Syncs
    BY <1>1 DEF Mirrors
  <1>5. ASSUME NEW s \in Mirrors PROVE Accounted(sync[s])'
    <2>1. Accounted(sync[s]) /\ sync'[s] = sync[s] /\ sync[s].day \in Nat /\ sync[s].before \in Int
      BY <1>1, <1>4, <1>5 DEF AuditInv, AdTyped, SyncRow, Days
    <2>2. CASE MonthStartDay(today + 1) = today + 1
      BY <1>1, <1>2, <1>4, <2>1, <2>2 DEF Accounted
    <2>3. CASE MonthStartDay(today + 1) # today + 1
      <3>1. MonthStartDay(today') = MonthStartDay(today) /\ unannounced' = unannounced
        BY <1>1, <1>3, <1>4, <2>3
      <3>2. MonthSpend <= MonthSpend' /\ MonthSpend' \in Int
        BY <1>1, <3>1, NextDay
      <3>3. MonthSpend \in Nat /\ unannounced \in Int
        BY MonthSpendType DEF AdTyped
      <3> QED
        BY <1>1, <1>2, <2>1, <3>1, <3>2, <3>3 DEF Accounted
    <2> QED
      BY <2>2, <2>3
  <1>6. Mirrors = {} => unannounced' <= 0
    BY <1>1 DEF AuditInv
  <1> QED
    BY <1>1, <1>4, <1>5, <1>6 DEF AuditInv

\* Every step keeps the audit's invariant.
LEMMA AuditKeeps == AdTyped /\ AuditInv /\ [Next]_vars => AuditInv'
  <1> SUFFICES ASSUME AdTyped, AuditInv, [Next]_vars PROVE AuditInv'
    OBVIOUS
  <1>1. ASSUME UNCHANGED <<today, spend, unannounced, overlapped, sync>> PROVE AuditInv'
    BY <1>1, AuditSame DEF Mirrors
  <1>2. ASSUME NEW s \in Syncs, sync[s].at # "insights",
               \E r : Becomes(s, r) /\ r.at # "insights",
                       UNCHANGED <<today, spend, unannounced, overlapped>>
        PROVE  AuditInv'
    <2>1. Mirrors' = Mirrors \ {s} /\ \A t \in Syncs \ {s} : sync'[t] = sync[t]
      BY <1>2, MirrorsAfter
    <2>2. s \notin Mirrors /\ Mirrors \subseteq Syncs
      BY <1>2 DEF Mirrors
    <2>3. Mirrors' = Mirrors /\ \A t \in Mirrors : sync'[t] = sync[t]
      BY <2>1, <2>2
    <2> QED
      BY <1>2, <2>3, AuditSame
  <1>3. ASSUME NEW s \in Syncs, NEW c \in Campaigns, SkipInsights(s, c) PROVE AuditInv'
    <2> DEFINE r == [sync[s] EXCEPT !.todo = sync[s].todo \ {c}]
    <2>1. sync[s].at = "insights" /\ Becomes(s, r)
            /\ UNCHANGED <<today, spend, unannounced, overlapped>>
      BY <1>3 DEF SkipInsights, Quiet, audit
    <2>2. r.at = "insights" /\ r.day = sync[s].day /\ r.before = sync[s].before
      BY <2>1 DEF AdTyped, SyncRow
    <2> HIDE DEF r
    <2>3. Mirrors' = Mirrors /\ sync'[s] = r /\ (\A t \in Syncs \ {s} : sync'[t] = sync[t])
            /\ Mirrors \subseteq Syncs
      BY <2>1, <2>2, MirrorsAfter DEF Mirrors
    <2>4. MonthSpend' = MonthSpend
      BY <2>1 DEF MonthSpend, SpendOf, MonthOf
    <2>5. ~overlapped => \A t \in Mirrors : Accounted(sync[t])'
      BY <2>1, <2>2, <2>3, <2>4 DEF AuditInv, Accounted
    <2> QED
      BY <2>1, <2>3, <2>5 DEF AuditInv
  <1>4. ASSUME NEW s \in Syncs, NEW c \in Campaigns, AutoPause(s, c) PROVE AuditInv'
    <2> DEFINE r == [sync[s] EXCEPT !.todo = sync[s].todo \ {c}]
    <2>1. sync[s].at = "pause" /\ Becomes(s, r) /\ UNCHANGED <<today, spend, unannounced, overlapped>>
      BY <1>4 DEF AutoPause, audit
    <2>2. r.at = "pause"
      BY <2>1 DEF AdTyped, SyncRow
    <2> HIDE DEF r
    <2> QED
      BY <1>2, <2>1, <2>2
  <1>5. ASSUME NEW s \in Syncs, BudgetExceeded(s) \/ Plan(s) \/ \E c \in Campaigns : Apply(s, c)
          \/ SkipMove(s, c)
        PROVE  AuditInv'
    <2>1. sync[s].at # "insights" /\ UNCHANGED <<today, spend, unannounced, overlapped>>
      BY <1>5 DEF BudgetExceeded, Plan, Apply, SkipMove, Quiet, audit
    <2>2. \E r : Becomes(s, r) /\ r.at \notin {"insights", "pause"}
      BY <1>5, MovesOn
    <2> QED
      BY <1>2, <2>1, <2>2
  <1>6. CASE \/ \E c \in Campaigns, b \in Budgets : CreateCampaign(c, b)
             \/ \E c \in Campaigns : PauseCampaign(c)
             \/ \E n \in Caps : SetCap(n)
             \/ UNCHANGED vars
    BY <1>1, <1>6 DEF CreateCampaign, PauseCampaign, SetCap, vars, audit
  <1>7. CASE \E w \in Calls : Tool(w)
    BY <1>1, <1>7 DEF Tool, CallTool, Gate, Approve, Drop, SetBudget, Launch, audit
  <1>8. CASE \E s \in Syncs : SyncStep(s) \/ SyncFails(s)
    BY <1>4, <1>5, <1>8, AuditStartSync, AuditUpsert, AuditAnnounce, AuditSyncFails DEF SyncStep
  <1>9. CASE \E s \in Syncs, c \in Campaigns : SkipInsights(s, c) \/ SkipMove(s, c)
    BY <1>3, <1>5, <1>9
  <1> QED
    BY <1>6, <1>7, <1>8, <1>9, AuditMidnight DEF Next

\* The inductive invariant of the first half.
AdInv == AdTyped /\ BackInv /\ AuditInv

\* It holds at the start,
LEMMA AdStart == Init => AdInv
  BY AdTypedStart, BackStart, AuditStart DEF AdInv

\* every step keeps it,
LEMMA AdStep == AdInv /\ [Next]_vars => AdInv'
  BY AdTypedStep, BackKeeps, AuditKeeps DEF AdInv

\* and it implies what the runs check.
LEMMA AdFollows == AdInv => AdSpendKept
  BY TypesAreKept, BackstopFollows, AuditFollows DEF AdInv, AdSpendKept, SpendAudited

\* The cap's backstop leaves active only what was launched after it looked, and the public
\* ledger accounts for all that a sync mirrored into the month, unless the sync failed or
\* met another: for any campaigns, budgets, caps, months and numbers of heartbeats.
THEOREM AdSpendStaysKept == Spec => []AdSpendKept
  <1> QED
    BY AdStart, AdStep, AdFollows, PTL DEF Spec

----------------------------------------------------------------------------
(* What is for sale.                                                       *)

\* The product rows of the shop.
Mints == {"none", "product", "price", "link", "insert", "announce", "done", "failed"}
Drops == {"off", "deactivate", "remove"}
Rows == [mint : Mints, via : Nat, live : BOOLEAN, row : BOOLEAN, offered : BOOLEAN,
         drop : Drops, by : Nat]

\* The types of keys and products.
ShopTyped == key \in Nat /\ platform \in Nat /\ product \in [Products -> Rows]

\* Until its link is minted it is not for sale; until its row is inserted nobody has the link.
Unlisted(r) ==
  /\ r.mint \in {"none", "product", "price", "link", "insert"} => ~r.row /\ ~r.offered /\ r.drop = "off"
  /\ r.mint \in {"none", "product", "price", "link"} => ~r.live
  /\ r.mint = "insert" /\ r.via # Selling!Local => r.live
\* What the local checkout sells was never at Stripe.
LocalOnly(r) == r.via = Selling!Local => ~r.live /\ r.mint \notin {"product", "price", "link"}
\* A deletion is of a listed product, by an account of Stripe if it was minted there.
Deleted(r) ==
  /\ r.drop # "off" => r.row
  /\ r.drop # "off" /\ r.via # Selling!Local => r.by # Selling!Local
  /\ r.drop = "remove" => ~r.live
\* A link a customer can open has its row.
Known(r) == r.offered /\ r.live => r.row

\* What every product's row satisfies.
ProductInv(r) == Unlisted(r) /\ LocalOnly(r) /\ Deleted(r) /\ Known(r)
\* Where Stripe has minted there is a key.
Keyed == \A p \in Products : product[p].via # Selling!Local => Selling!SecretOf # Selling!Local
\* The invariant of keys and products.
ShopInv == ShopTyped /\ Keyed /\ \A p \in Products : ProductInv(product[p])

\* A step that only rewrites one product keeps the invariant if the new product has it.
LEMMA ProductStep ==
  ASSUME ShopInv, NEW p \in Products, NEW r \in Rows, Selling!Becomes(p, r),
          UNCHANGED <<key, platform>>,
         ProductInv(r), r.via # Selling!Local => Selling!SecretOf # Selling!Local
  PROVE  ShopInv'
<1>1. product' = [product EXCEPT ![p] = r] /\ product \in [Products -> Rows]
  BY DEF Selling!Becomes, ShopInv, ShopTyped
<1>2. product' \in [Products -> Rows] /\ product'[p] = r
      /\ \A q \in Products \ {p} : product'[q] = product[q]
  BY <1>1
<1>3. ShopTyped'
  BY <1>2 DEF ShopInv, ShopTyped
<1>4. Selling!SecretOf' = Selling!SecretOf
  BY DEF Selling!SecretOf
<1>5. Keyed'
  BY <1>2, <1>4 DEF ShopInv, Keyed
<1>6. ASSUME NEW q \in Products PROVE ProductInv(product'[q])
  <2>1. CASE q = p  BY <2>1, <1>2
  <2>2. CASE q # p  BY <2>2, <1>2 DEF ShopInv
  <2> QED BY <2>1, <2>2
<1> QED BY <1>3, <1>5, <1>6 DEF ShopInv

\* A step that leaves the products alone and does not take the key away keeps it.
LEMMA ProductsSame ==
  ASSUME ShopInv, UNCHANGED <<platform, product>>, key' \in Nat,
          key # Selling!Local => key' # Selling!Local
  PROVE  ShopInv'
<1>1. ShopTyped'
  BY DEF ShopInv, ShopTyped
<1>2. Selling!SecretOf # Selling!Local => Selling!SecretOf' # Selling!Local
  BY DEF Selling!SecretOf, Selling!Local
<1> QED BY <1>1, <1>2 DEF ShopInv, Keyed

\* Nothing is minted at the start.
LEMMA ShopStart == ASSUME Selling!Init PROVE ShopInv
<1>1. platform \in Nat  BY CommerceAssumption DEF Selling!ShopAssumption, Selling!Init
<1>2. Selling!Unminted \in Rows  BY DEF Selling!Unminted, Rows, Mints, Drops, Selling!Local
<1>3. ShopTyped  BY <1>1, <1>2 DEF Selling!Init, ShopTyped, Selling!Local
<1>4. \A p \in Products : product[p] = Selling!Unminted  BY DEF Selling!Init
<1>5. ProductInv(Selling!Unminted)
  BY DEF Selling!Unminted, ProductInv, Unlisted, LocalOnly, Deleted, Known
<1> QED BY <1>3, <1>4, <1>5 DEF ShopInv, Keyed, Selling!Unminted

\* The secrets' requests never take a key away.
LEMMA ShopSecrets == ASSUME ShopInv, Selling!Secrets PROVE ShopInv'
<1>1. key \in Nat  BY DEF ShopInv, ShopTyped
<1>2. UNCHANGED <<platform, product>> /\ key' \in {key, key + 1, 1}
  BY DEF Selling!Secrets, Selling!SetKey, Selling!EnsureFolder, Selling!CreateSecret,
          Selling!UpdateSecret, Selling!AnnounceSecret, Selling!SetterFails, Selling!AFault
<1>3. key' \in Nat /\ (key # Selling!Local => key' # Selling!Local)
  BY <1>1, <1>2 DEF Selling!Local
<1> QED BY <1>2, <1>3, ProductsSame

\* Minting keeps the invariant.
LEMMA ShopMints == ASSUME ShopInv, NEW p \in Products, Selling!create_product(p) PROVE ShopInv'
<1> DEFINE o == product[p]
<1>1. /\ o \in Rows /\ ProductInv(o) /\ Selling!SecretOf \in Nat
      /\ o.via # Selling!Local => Selling!SecretOf # Selling!Local
  BY DEF ShopInv, ShopTyped, Keyed, Selling!SecretOf
<1>2. CASE Selling!StartMint(p)
  <2> DEFINE r == [o EXCEPT !.via = Selling!paymentsFor,
                            !.mint = IF Selling!paymentsFor = Selling!Local THEN "insert" ELSE "product"]
  <2>1. o.mint = "none" /\ Selling!Becomes(p, r) /\ UNCHANGED <<key, platform>>
    BY <1>2 DEF Selling!StartMint
  <2>2. r \in Rows /\ r.via = Selling!SecretOf  BY <1>1 DEF Rows, Mints, Selling!paymentsFor
  <2>3. ~o.live
    BY <1>1, <2>1 DEF ProductInv, LocalOnly, Known, Unlisted
  <2>4. ProductInv(r)
    BY <1>1, <2>1, <2>2, <2>3 DEF ProductInv, Unlisted, LocalOnly, Deleted, Known, Rows,
            Selling!paymentsFor
  <2> QED BY <2>1, <2>2, <2>4, ProductStep
<1>3. CASE Selling!MintAtStripe(p)
  <2> DEFINE r == CASE o.mint = "product" -> [o EXCEPT !.mint = "price"]
                    [] o.mint = "price" -> [o EXCEPT !.mint = "link"]
                    [] o.mint = "link" -> [o EXCEPT !.mint = "insert", !.live = TRUE]
  <2>1. o.mint \in {"product", "price", "link"} /\ Selling!Becomes(p, r) /\ UNCHANGED <<key, platform>>
    BY <1>3 DEF Selling!MintAtStripe
  <2>2. r \in Rows /\ r.via = o.via  BY <1>1, <2>1 DEF Rows, Mints
  <2>3. ProductInv(r)
    BY <1>1, <2>1 DEF ProductInv, Unlisted, LocalOnly, Deleted, Known, Rows
  <2> QED BY <1>1, <2>1, <2>2, <2>3, ProductStep
<1>4. CASE Selling!InsertProduct(p)
  <2> DEFINE r == [o EXCEPT !.mint = "announce", !.row = TRUE, !.offered = TRUE]
  <2>1. o.mint = "insert" /\ Selling!Becomes(p, r) /\ UNCHANGED <<key, platform>>
    BY <1>4 DEF Selling!InsertProduct
  <2>2. r \in Rows /\ r.via = o.via  BY <1>1 DEF Rows, Mints
  <2>3. ProductInv(r)
    BY <1>1, <2>1 DEF ProductInv, Unlisted, LocalOnly, Deleted, Known, Rows
  <2> QED BY <1>1, <2>1, <2>2, <2>3, ProductStep
<1>5. CASE Selling!AnnounceProduct(p) \/ Selling!MintFails(p)
  <2> DEFINE r(m) == [o EXCEPT !.mint = m]
  <2>1. PICK m \in {"done", "failed"} : Selling!Becomes(p, r(m)) /\ UNCHANGED <<key, platform>>
    BY <1>5 DEF Selling!AnnounceProduct, Selling!MintFails
  <2>2. r(m) \in Rows /\ r(m).via = o.via  BY <1>1 DEF Rows, Mints
  <2>3. ProductInv(r(m))
    BY <1>1 DEF ProductInv, Unlisted, LocalOnly, Deleted, Known, Rows
  <2> QED BY <1>1, <2>1, <2>2, <2>3, ProductStep
<1> QED BY <1>2, <1>3, <1>4, <1>5 DEF Selling!create_product

\* Deleting keeps it: the account that deactivates is the one that minted.
LEMMA ShopDrops == ASSUME ShopInv, NEW p \in Products, Selling!delete_product(p) PROVE ShopInv'
<1> DEFINE o == product[p]
<1>1. /\ o \in Rows /\ ProductInv(o) /\ Selling!SecretOf \in Nat
      /\ o.via # Selling!Local => Selling!SecretOf # Selling!Local
  BY DEF ShopInv, ShopTyped, Keyed, Selling!SecretOf
<1>2. CASE Selling!StartDelete(p)
  <2> DEFINE r == [o EXCEPT !.drop = "deactivate", !.by = Selling!paymentsFor]
  <2>1. o.row /\ Selling!Becomes(p, r) /\ UNCHANGED <<key, platform>>
    BY <1>2 DEF Selling!StartDelete
  <2>2. r \in Rows /\ r.via = o.via /\ r.by = Selling!SecretOf
    BY <1>1 DEF Rows, Drops, Selling!paymentsFor
  <2>3. ProductInv(r)
    BY <1>1, <2>1, <2>2 DEF ProductInv, Unlisted, LocalOnly, Deleted, Known, Rows
  <2> QED BY <1>1, <2>1, <2>2, <2>3, ProductStep
<1>3. CASE Selling!Deactivate(p)
  <2> DEFINE r == [o EXCEPT !.drop = "remove", !.live = o.live /\ o.by = Selling!Local]
  <2>1. o.drop = "deactivate" /\ Selling!Becomes(p, r) /\ UNCHANGED <<key, platform>>
    BY <1>3 DEF Selling!Deactivate
  <2>2. r \in Rows /\ r.via = o.via  BY <1>1 DEF Rows, Drops
  <2>3. ~r.live
    BY <1>1, <2>1 DEF ProductInv, LocalOnly, Deleted, Rows
  <2>4. ProductInv(r)
    BY <1>1, <2>1, <2>3 DEF ProductInv, Unlisted, LocalOnly, Deleted, Known, Rows
  <2> QED BY <1>1, <2>1, <2>2, <2>4, ProductStep
<1>4. CASE Selling!UnknownAtStripe(p) \/ Selling!StillReferenced(p)
  <2> DEFINE r == [o EXCEPT !.drop = "off"]
  <2>1. Selling!Becomes(p, r) /\ UNCHANGED <<key, platform>>
    BY <1>4 DEF Selling!UnknownAtStripe, Selling!StillReferenced
  <2>2. r \in Rows /\ r.via = o.via  BY <1>1 DEF Rows, Drops
  <2>3. ProductInv(r)
    BY <1>1 DEF ProductInv, Unlisted, LocalOnly, Deleted, Known, Rows
  <2> QED BY <1>1, <2>1, <2>2, <2>3, ProductStep
<1>5. CASE Selling!RemoveRow(p)
  <2> DEFINE r == [o EXCEPT !.drop = "off", !.row = FALSE]
  <2>1. o.drop = "remove" /\ Selling!Becomes(p, r) /\ UNCHANGED <<key, platform>>
    BY <1>5 DEF Selling!RemoveRow
  <2>2. r \in Rows /\ r.via = o.via  BY <1>1 DEF Rows, Drops
  <2>3. ProductInv(r)
    BY <1>1, <2>1 DEF ProductInv, Unlisted, LocalOnly, Deleted, Known, Rows
  <2> QED BY <1>1, <2>1, <2>2, <2>3, ProductStep
<1>6. CASE Selling!DeleteFails(p)
  <2> DEFINE r(lost) == [o EXCEPT !.drop = "off", !.live = o.live /\ (lost \/ o.by # o.via)]
  <2>1. /\ o.drop # "off"
        /\ \E lost \in BOOLEAN : Selling!Becomes(p, r(lost)) /\ UNCHANGED <<key, platform>>
    BY <1>6 DEF Selling!DeleteFails
  <2>4. PICK lost \in BOOLEAN : Selling!Becomes(p, r(lost)) /\ UNCHANGED <<key, platform>>
    BY <2>1
  <2>2. r(lost) \in Rows /\ r(lost).via = o.via  BY <1>1 DEF Rows, Drops
  <2>3. ProductInv(r(lost))
    BY <1>1, <2>1 DEF ProductInv, Unlisted, LocalOnly, Deleted, Known, Rows
  <2> QED BY <1>1, <2>2, <2>3, <2>4, ProductStep
<1> QED BY <1>2, <1>3, <1>4, <1>5, <1>6 DEF Selling!delete_product

\* Customers change neither keys nor products.
LEMMA ShopCustomers ==
  ASSUME ShopInv, UNCHANGED <<key, platform, product>> PROVE ShopInv'
<1>1. key' \in Nat  BY DEF ShopInv, ShopTyped
<1> QED BY <1>1, ProductsSame

\* Every step of the shop keeps the invariant.
LEMMA ShopStep == ASSUME ShopInv, [Selling!Next]_(Selling!vars) PROVE ShopInv'
<1>1. CASE Selling!Secrets  BY <1>1, ShopSecrets
<1>2. CASE \E p \in Products : Selling!create_product(p)  BY <1>2, ShopMints
<1>3. CASE \E p \in Products : Selling!delete_product(p)  BY <1>3, ShopDrops
<1>4. CASE \E p \in Products : Selling!Advertise(p)
  BY <1>4, ShopCustomers DEF Selling!Advertise
<1>5. CASE \E o \in Orders : \/ Selling!OpenCheckout(o) \/ Selling!PayAtStripe(o)
        \/ Selling!SubmitLocal(o) \/ Selling!DeliverEvent(o)
                              \/ Selling!recordPayment(o) \/ Selling!RecordFails(o)
  BY <1>5, ShopCustomers
  DEF Selling!OpenCheckout, Selling!PayAtStripe, Selling!SubmitLocal, Selling!DeliverEvent,
      Selling!recordPayment, Selling!RecordSale, Selling!AlreadyRecorded, Selling!ProductGone,
      Selling!RecordFails, Selling!shop
<1>6. CASE UNCHANGED Selling!vars
  BY <1>6, ShopCustomers DEF Selling!vars, Selling!shop
<1> QED BY <1>1, <1>2, <1>3, <1>4, <1>5, <1>6 DEF Selling!Next


----------------------------------------------------------------------------
(* The till.                                                               *)

\* The rows of visits, confirmations and sales.
Visits == [at : {"none", "open", "paid"}, via : Nat]
Confirmations == [at : {"off", "record"}, fee : {0, Fee}]
Sales == [rows : Nat, net : Int]
\* The types of the till.
TillTyped ==
  /\ order \in [Orders -> Visits] /\ handler \in [Orders -> Confirmations]
  /\ sale \in [Orders -> Sales] /\ balance \in Int /\ mishaps \in Nat

\* What the visit o has left in the books.
Booked(o) ==
  /\ handler[o].at = "record" => order[o].at = "paid"
  /\ sale[o].rows = 0 => sale[o].net = 0
  /\ sale[o].rows > 0 =>
       /\ sale[o].rows = 1 /\ order[o].at = "paid" /\ sale[o].net \in {Price, Price - Fee}
       /\ product[ProductOf[o]].row
\* What each visit nets.
Nets == [o \in Orders |-> sale[o].net]
\* The invariant of the till: the balance is the sum of what the visits net.
TillInv == TillTyped /\ balance = SumFunction(Nets) /\ \A o \in Orders : Booked(o)

\* What the constants' assumption says, piece by piece.
LEMMA ShopConstants ==
  /\ IsFiniteSet(Orders) /\ Price \in Nat /\ Fee \in Nat /\ Price - Fee \in Int
  /\ \A o \in Orders : ProductOf[o] \in Products
<1>1. Selling!ShopAssumption  BY CommerceAssumption
<1>2. IsFiniteSet(Orders)
  BY <1>1 DEF Selling!ShopAssumption, Selling!IsFiniteSet, IsFiniteSet
<1>3. Price \in Nat /\ Fee \in 0..Price  BY <1>1 DEF Selling!ShopAssumption
<1>4. \A o \in Orders : ProductOf[o] \in Products  BY <1>1 DEF Selling!ShopAssumption
<1> QED BY <1>2, <1>3, <1>4

\* The till is empty at the start.
LEMMA TillStart == Selling!Init => TillInv
<1> SUFFICES ASSUME Selling!Init PROVE TillInv
  OBVIOUS
<1>1. IsFiniteSet(Orders)
  BY ShopConstants
<1>2. /\ order = [o \in Orders |-> [at |-> "none", via |-> 0]]
      /\ handler = [o \in Orders |-> [at |-> "off", fee |-> 0]]
      /\ sale = [o \in Orders |-> [rows |-> 0, net |-> 0]] /\ balance = 0 /\ mishaps = 0
  BY DEF Selling!Init, Selling!Idle, Selling!Local
<1>3. TillTyped
  <2>1. order \in [Orders -> Visits]  BY <1>2 DEF Visits
  <2>2. handler \in [Orders -> Confirmations]  BY <1>2 DEF Confirmations
  <2>3. sale \in [Orders -> Sales]  BY <1>2 DEF Sales
  <2> QED BY <1>2, <2>1, <2>2, <2>3 DEF TillTyped
<1>4. Nets = [o \in Orders |-> 0]
  BY <1>2 DEF Nets
<1>5. SumFunction(Nets) = 0
  BY <1>1, <1>4, SumZero
<1>6. \A o \in Orders : Booked(o)
  BY <1>2 DEF Booked
<1> QED BY <1>2, <1>3, <1>5, <1>6 DEF TillInv

\* Steps that leave the till alone keep the books, as long as what was sold stays listed.
LEMMA TillSame ==
  ASSUME TillInv, UNCHANGED <<order, handler, sale, balance>>, mishaps' \in Nat,
         \A p \in Products : Selling!Sold(p) /\ product[p].row => product'[p].row
  PROVE  TillInv'
<1>1. TillTyped' /\ Nets' = Nets
  BY DEF TillInv, TillTyped, Nets
<1>2. ASSUME NEW o \in Orders PROVE Booked(o)'
  <2>1. Booked(o) /\ ProductOf[o] \in Products
    BY CommerceAssumption DEF TillInv, Selling!ShopAssumption
  <2>2. sale[o].rows > 0 => Selling!Sold(ProductOf[o])
    BY DEF Selling!Sold
  <2> QED BY <2>1, <2>2 DEF Booked
<1> QED BY <1>1, <1>2 DEF TillInv

\* A step about one visit that writes no payment.
LEMMA TillVisit ==
  ASSUME TillInv, NEW o \in Orders, NEW v \in Visits, NEW h \in Confirmations,
         order' = [order EXCEPT ![o] = v], handler' = [handler EXCEPT ![o] = h],
         UNCHANGED <<product, sale, balance>>, mishaps' \in Nat,
         order[o].at = "paid" => v.at = "paid", h.at = "record" => v.at = "paid"
  PROVE  TillInv'
<1>1. order \in [Orders -> Visits] /\ handler \in [Orders -> Confirmations]
  BY DEF TillInv, TillTyped
<1>2. /\ order' \in [Orders -> Visits] /\ order'[o] = v /\ handler' \in [Orders -> Confirmations]
      /\ handler'[o] = h
  BY <1>1
<1>3. \A x \in Orders \ {o} : order'[x] = order[x] /\ handler'[x] = handler[x]
  BY <1>1
<1>4. TillTyped' /\ Nets' = Nets
  BY <1>2 DEF TillInv, TillTyped, Nets
<1>5. ASSUME NEW x \in Orders PROVE Booked(x)'
  <2>1. Booked(x)
    BY DEF TillInv
  <2>2. CASE x = o  BY <1>2, <2>1, <2>2 DEF Booked
  <2>3. CASE x # o  BY <1>3, <2>1, <2>3 DEF Booked
  <2> QED BY <2>2, <2>3
<1> QED BY <1>4, <1>5 DEF TillInv

\* recordPayment's transaction: the row, the balance.
LEMMA TillRecords ==
  ASSUME TillInv, NEW o \in Orders, Selling!RecordSale(o)
  PROVE  TillInv'
<1> DEFINE n == Price - handler[o].fee
<1>1. TillTyped /\ Booked(o) /\ IsFiniteSet(Orders) /\ Price \in Nat /\ Fee \in Nat
  BY ShopConstants DEF TillInv
<1>2. /\ handler[o].at = "record" /\ sale[o].rows = 0 /\ product[ProductOf[o]].row
      /\ sale' = [sale EXCEPT ![o] = [rows |-> sale[o].rows + 1,
              net |-> sale[o].net + Price - handler[o].fee]]
      /\ balance' = balance + Price - handler[o].fee
      /\ handler' = [handler EXCEPT ![o] = [at |-> "off", fee |-> 0]]
      /\ UNCHANGED <<product, order, mishaps>>
  BY DEF Selling!RecordSale, Selling!Idle, Selling!shop
<1>3. handler[o].fee \in {0, Fee} /\ sale[o].net = 0 /\ balance \in Int /\ order[o].at = "paid"
  BY <1>1, <1>2 DEF TillTyped, Confirmations, Booked
<1>4. n \in {Price, Price - Fee} /\ n \in Int
  BY <1>1, <1>3
<1>5. sale' = [sale EXCEPT ![o] = [rows |-> 1, net |-> n]] /\ balance' = balance + n
  <2>1. sale[o].rows + 1 = 1 /\ sale[o].net + Price - handler[o].fee = n
    BY <1>1, <1>2, <1>3
  <2>2. balance + Price - handler[o].fee = balance + n
    BY <1>1, <1>3
  <2> HIDE DEF n
  <2> QED BY <1>2, <2>1, <2>2
<1> HIDE DEF n
<1>6. [rows |-> 1, net |-> n] \in Sales /\ [at |-> "off", fee |-> 0] \in Confirmations
  BY <1>4 DEF Sales, Confirmations
<1>7. TillTyped'
  <2>1. sale' \in [Orders -> Sales]  BY <1>1, <1>5, <1>6 DEF TillTyped
  <2>2. handler' \in [Orders -> Confirmations]  BY <1>1, <1>2, <1>6 DEF TillTyped
  <2>3. balance' \in Int  BY <1>3, <1>4, <1>5
  <2> QED BY <1>1, <1>2, <2>1, <2>2, <2>3 DEF TillTyped
<1>8. /\ sale'[o] = [rows |-> 1, net |-> n] /\ handler'[o] = [at |-> "off", fee |-> 0]
      /\ \A x \in Orders \ {o} : sale'[x] = sale[x] /\ handler'[x] = handler[x]
  BY <1>1, <1>2, <1>5 DEF TillTyped
<1>9. balance' = SumFunction(Nets')
  <2>1. Nets \in [Orders -> Int]
    BY <1>1 DEF Nets, TillTyped, Sales
  <2>2. Nets' = [Nets EXCEPT ![o] = n]
    <3>1. \A x \in Orders : sale'[x].net = IF x = o THEN n ELSE sale[x].net
      BY <1>8
    <3>2. Nets' = [x \in Orders |-> sale'[x].net]
      BY DEF Nets
    <3> QED BY <3>1, <3>2 DEF Nets
  <2>3. SumFunction([Nets EXCEPT ![o] = n]) = SumFunction(Nets) - Nets[o] + n
    BY <1>1, <1>4, <2>1, SumExcept
  <2>4. Nets[o] = 0 /\ balance = SumFunction(Nets)
    BY <1>3 DEF Nets, TillInv
  <2> QED BY <1>3, <1>4, <1>5, <2>2, <2>3, <2>4
<1>10. ASSUME NEW x \in Orders PROVE Booked(x)'
  <2>1. Booked(x)
    BY DEF TillInv
  <2>2. CASE x = o
    BY <1>2, <1>3, <1>4, <1>8, <2>2 DEF Booked
  <2>3. CASE x # o
    BY <1>2, <1>8, <2>1, <2>3 DEF Booked
  <2> QED BY <2>2, <2>3
<1> QED BY <1>7, <1>9, <1>10 DEF TillInv

\* Visits, payments and their confirmations keep the books.
LEMMA TillCustomers ==
  ASSUME TillInv, ShopInv, NEW o \in Orders,
         \/ Selling!OpenCheckout(o) \/ Selling!PayAtStripe(o) \/ Selling!SubmitLocal(o)
         \/ Selling!DeliverEvent(o) \/ Selling!recordPayment(o) \/ Selling!RecordFails(o)
  PROVE  TillInv'
<1>1. /\ order \in [Orders -> Visits] /\ handler \in [Orders -> Confirmations] /\ mishaps \in Nat
      /\ order[o] \in Visits /\ handler[o] \in Confirmations /\ Booked(o)
  BY DEF TillInv, TillTyped
<1>2. order = [order EXCEPT ![o] = order[o]] /\ handler = [handler EXCEPT ![o] = handler[o]]
  BY <1>1
<1>3. ProductOf[o] \in Products /\ product[ProductOf[o]].via \in Nat
  BY CommerceAssumption DEF Selling!ShopAssumption, ShopInv, ShopTyped, Rows
<1>4. CASE Selling!OpenCheckout(o)
  <2> DEFINE v == [at |-> "open", via |-> product[ProductOf[o]].via]
  <2>1. v \in Visits  BY <1>3 DEF Visits
  <2>2. order' = [order EXCEPT ![o] = v] /\ UNCHANGED <<product, handler, sale, balance, mishaps>>
        /\ order[o].at = "none"
    BY <1>4 DEF Selling!OpenCheckout, Selling!shop
  <2>3. handler[o].at # "record"
    BY <1>1, <2>2 DEF Booked
  <2> HIDE DEF v
  <2> QED BY <1>1, <1>2, <2>1, <2>2, <2>3, TillVisit
<1>5. CASE Selling!PayAtStripe(o)
  <2> DEFINE v == [order[o] EXCEPT !.at = "paid"]
  <2>1. v \in Visits /\ v.at = "paid"  BY <1>1 DEF Visits
  <2>2. order' = [order EXCEPT ![o] = v] /\ UNCHANGED <<product, handler, sale, balance, mishaps>>
    BY <1>5 DEF Selling!PayAtStripe, Selling!shop
  <2> HIDE DEF v
  <2> QED BY <1>1, <1>2, <2>1, <2>2, TillVisit
<1>6. CASE Selling!SubmitLocal(o)
  <2> DEFINE v == [order[o] EXCEPT !.at = "paid"]
             h == [at |-> "record", fee |-> 0]
  <2>1. v \in Visits /\ v.at = "paid" /\ h \in Confirmations
    BY <1>1 DEF Visits, Confirmations
  <2>2. order' = [order EXCEPT ![o] = v] /\ handler' = [handler EXCEPT ![o] = h]
        /\ UNCHANGED <<product, sale, balance, mishaps>>
    BY <1>6 DEF Selling!SubmitLocal, Selling!shop
  <2> HIDE DEF v, h
  <2> QED BY <1>1, <2>1, <2>2, TillVisit
<1>7. CASE Selling!DeliverEvent(o)
  <2>1. PICK fee \in {0, Fee} : handler' = [handler EXCEPT ![o] = [at |-> "record", fee |-> fee]]
    BY <1>7 DEF Selling!DeliverEvent
  <2> DEFINE h == [at |-> "record", fee |-> fee]
  <2>2. h \in Confirmations
    BY DEF Confirmations
  <2>3. order[o].at = "paid" /\ UNCHANGED <<product, order, sale, balance, mishaps>>
    BY <1>7 DEF Selling!DeliverEvent, Selling!shop
  <2> QED
    <3>1. handler' = [handler EXCEPT ![o] = h]
      BY <2>1
    <3> HIDE DEF h
    <3> QED BY <1>1, <1>2, <2>2, <2>3, <3>1, TillVisit
<1>8. CASE Selling!RecordSale(o)
  BY <1>8, TillRecords
<1>9. CASE Selling!AlreadyRecorded(o) \/ Selling!ProductGone(o) \/ Selling!RecordFails(o)
  <2> DEFINE h == [at |-> "off", fee |-> 0]
  <2>1. h \in Confirmations /\ h.at # "record"
    BY DEF Confirmations
  <2>2. handler' = [handler EXCEPT ![o] = h] /\ UNCHANGED <<product, order, sale, balance>>
        /\ mishaps' \in {mishaps, mishaps + 1}
    BY <1>9 DEF Selling!AlreadyRecorded, Selling!ProductGone, Selling!RecordFails, Selling!AFault,
                Selling!Idle, Selling!shop
  <2>3. mishaps' \in Nat /\ (order[o].at = "paid" => order[o].at = "paid")
    BY <1>1, <2>2
  <2>4. order' = [order EXCEPT ![o] = order[o]]
    BY <1>2, <2>2
  <2> HIDE DEF h
  <2> QED BY <1>1, <2>1, <2>2, <2>3, <2>4, TillVisit
<1> QED BY <1>4, <1>5, <1>6, <1>7, <1>8, <1>9 DEF Selling!recordPayment

----------------------------------------------------------------------------
(* What is listed.                                                         *)

\* Shop's sum is the sum of module Sums.
LEMMA SameSum == \A f : Selling!SumFunction(f) = SumFunction(f)
  BY DEF Selling!SumFunction, Selling!SumFunctionOnSet, Selling!FoldFunctionOnSet,
          Selling!MapThenFoldSet,
         SumFunction, SumFunctionOnSet, FoldFunctionOnSet, MapThenFoldSet

\* The till's invariant implies what the runs check of it.
LEMMA BooksFollow == TillInv => Selling!BooksOfSales
<1> SUFFICES ASSUME TillInv PROVE Selling!BooksOfSales
  OBVIOUS
<1>1. balance = Selling!SumFunction([o \in Orders |-> sale[o].net])
  BY SameSum DEF TillInv, Nets
<1>2. \A o \in Orders : Booked(o)
  BY DEF TillInv
<1> QED BY <1>1, <1>2 DEF Booked, Selling!BooksOfSales

\* What one product asks of ListedIsOnSale.
Excused(p, r) == r.drop = "remove" \/ mishaps > 0 \/ Selling!Sold(p) \/ p \in advertised
\* A listed product is live unless it is excused.
Listed(p, r) == r.row /\ r.via # Selling!Local /\ ~r.live => Excused(p, r)
\* So is every product.
ListInv == \A p \in Products : Listed(p, product[p])

\* Which is what the runs check.
LEMMA ListFollows == ListInv => Selling!ListedIsOnSale
BY DEF ListInv, Listed, Excused, Selling!ListedIsOnSale

\* Nothing is listed at the start.
LEMMA ListStart == Selling!Init => ListInv
BY DEF Selling!Init, Selling!Unminted, ListInv, Listed

\* What excuses a product once does so for good, but for a deletion under way.
LEMMA StillExcused ==
  ASSUME TillInv, mishaps' \in {mishaps, mishaps + 1}, advertised \subseteq advertised',
         \A o \in Orders : sale[o].rows > 0 => sale'[o].rows > 0
  PROVE  \A p : (mishaps > 0 => mishaps' > 0) /\ (Selling!Sold(p) => Selling!Sold(p)')
                /\ (p \in advertised => p \in advertised')
<1>1. mishaps \in Nat
  BY DEF TillInv, TillTyped
<1>2. mishaps > 0 => mishaps' > 0
  BY <1>1
<1> QED BY <1>2 DEF Selling!Sold

\* A step that leaves the products alone.
LEMMA ListSame ==
  ASSUME ListInv, TillInv, UNCHANGED product, mishaps' \in {mishaps, mishaps + 1},
         advertised \subseteq advertised', \A o \in Orders : sale[o].rows > 0 => sale'[o].rows > 0
  PROVE  ListInv'
BY StillExcused DEF ListInv, Listed, Excused

\* A step that rewrites one product.
LEMMA ListStep ==
  ASSUME ListInv, TillInv, ShopInv, NEW p \in Products, NEW r, Selling!Becomes(p, r),
         UNCHANGED <<advertised, sale>>, mishaps' \in {mishaps, mishaps + 1},
         r.row /\ r.via # Selling!Local /\ ~r.live =>
           r.drop = "remove" \/ mishaps' > 0 \/ Selling!Sold(p) \/ p \in advertised
  PROVE  ListInv'
<1>1. product'[p] = r /\ \A q \in Products \ {p} : product'[q] = product[q]
  BY DEF Selling!Becomes, ShopInv, ShopTyped
<1>2. \A q : (mishaps > 0 => mishaps' > 0) /\ Selling!Sold(q)' = Selling!Sold(q)
  <2>1. mishaps \in Nat
    BY DEF TillInv, TillTyped
  <2>2. mishaps > 0 => mishaps' > 0
    BY <2>1
  <2> QED BY <2>2 DEF Selling!Sold
<1>3. ASSUME NEW q \in Products PROVE (Listed(q, product[q]))'
  <2>1. CASE q = p
    BY <1>1, <1>2, <2>1 DEF Listed, Excused
  <2>2. CASE q # p
    <3>1. product'[q] = product[q] /\ Listed(q, product[q])
      BY <1>1, <2>2 DEF ListInv
    <3> QED BY <1>2, <3>1 DEF Listed, Excused
  <2> QED BY <2>1, <2>2
<1> QED BY <1>3 DEF ListInv

\* What a step of the worker's product tools does to the rest of the shop.
LEMMA ToolFrame ==
  ASSUME TillInv, NEW p \in Products, Selling!create_product(p) \/ Selling!delete_product(p)
  PROVE  /\ UNCHANGED <<advertised, order, handler, sale, balance>>
         /\ mishaps' \in {mishaps, mishaps + 1} /\ mishaps' \in Nat
<1>1. mishaps \in Nat
  BY DEF TillInv, TillTyped
<1>2. mishaps' \in {mishaps, mishaps + 1}
  BY DEF Selling!create_product, Selling!StartMint, Selling!MintAtStripe, Selling!InsertProduct,
         Selling!AnnounceProduct, Selling!MintFails, Selling!delete_product, Selling!StartDelete,
         Selling!Deactivate, Selling!UnknownAtStripe, Selling!RemoveRow, Selling!StillReferenced,
         Selling!DeleteFails, Selling!AFault
<1>3. UNCHANGED <<advertised, order, handler, sale, balance>>
  BY DEF Selling!create_product, Selling!StartMint, Selling!MintAtStripe, Selling!InsertProduct,
         Selling!AnnounceProduct, Selling!MintFails, Selling!delete_product, Selling!StartDelete,
         Selling!Deactivate, Selling!UnknownAtStripe, Selling!RemoveRow, Selling!StillReferenced,
         Selling!DeleteFails, Selling!till
<1> QED BY <1>1, <1>2, <1>3

\* The product tools keep it, and never take a sold product's row.
LEMMA ListTools ==
  ASSUME ListInv, TillInv, ShopInv, NEW p \in Products, Selling!create_product(p)
          \/ Selling!delete_product(p)
  PROVE  ListInv' /\ (Selling!Sold(p) /\ product[p].row => product'[p].row)
<1> DEFINE o == product[p]
           Keeps(r) == Selling!Sold(p) /\ o.row => r.row
<1>1. o \in Rows /\ ProductInv(o) /\ Listed(p, o) /\ mishaps \in Nat
  BY DEF ShopInv, ShopTyped, ListInv, TillInv, TillTyped
<1>2. UNCHANGED <<advertised, sale>> /\ mishaps' \in {mishaps, mishaps + 1}
  BY ToolFrame
<1>3. SUFFICES \E r : /\ Selling!Becomes(p, r) /\ Keeps(r)
                      /\ r.row /\ r.via # Selling!Local /\ ~r.live =>
                           r.drop = "remove" \/ mishaps' > 0 \/ Selling!Sold(p) \/ p \in advertised
  <2>1. ASSUME NEW r, Selling!Becomes(p, r) PROVE product'[p] = r
    BY <2>1 DEF Selling!Becomes, ShopInv, ShopTyped
  <2> QED BY <1>2, <1>3, <2>1, ListStep
<1>4. CASE Selling!StartMint(p) \/ Selling!MintAtStripe(p)
  <2>1. PICK m, v, l : Selling!Becomes(p, [o EXCEPT !.mint = m, !.via = v, !.live = l])
    <3>1. CASE Selling!StartMint(p)
      <4>1. \E m : Selling!Becomes(p, [o EXCEPT !.via = Selling!paymentsFor, !.mint = m])
        BY <3>1 DEF Selling!StartMint
      <4>2. \A m : [o EXCEPT !.via = Selling!paymentsFor, !.mint = m]
                   = [o EXCEPT !.mint = m, !.via = Selling!paymentsFor, !.live = o.live]
        BY <1>1 DEF Rows
      <4> QED BY <4>1, <4>2
    <3>2. CASE Selling!MintAtStripe(p)
      <4>1. (\E m : Selling!Becomes(p, [o EXCEPT !.mint = m]))
            \/ Selling!Becomes(p, [o EXCEPT !.mint = "insert", !.live = TRUE])
        BY <3>2 DEF Selling!MintAtStripe
      <4>2. \A m : [o EXCEPT !.mint = m] = [o EXCEPT !.mint = m, !.via = o.via, !.live = o.live]
        BY <1>1 DEF Rows
      <4>3. [o EXCEPT !.mint = "insert", !.live = TRUE]
              = [o EXCEPT !.mint = "insert", !.via = o.via, !.live = TRUE]
        BY <1>1 DEF Rows
      <4>4. CASE \E m : Selling!Becomes(p, [o EXCEPT !.mint = m])
        <5>1. PICK m : Selling!Becomes(p, [o EXCEPT !.mint = m])
          BY <4>4
        <5>2. Selling!Becomes(p, [o EXCEPT !.mint = m, !.via = o.via, !.live = o.live])
          BY <4>2, <5>1
        <5> QED BY <5>2
      <4>5. CASE Selling!Becomes(p, [o EXCEPT !.mint = "insert", !.live = TRUE])
        BY <4>3, <4>5
      <4> QED BY <4>1, <4>4, <4>5
    <3> QED BY <1>4, <3>1, <3>2
  <2> DEFINE r == [o EXCEPT !.mint = m, !.via = v, !.live = l]
  <2>3. Selling!Becomes(p, r) /\ r.row = o.row
    BY <1>1, <2>1 DEF Rows
  <2> HIDE DEF r
  <2>2. ~o.row
    BY <1>1, <1>4 DEF Selling!StartMint, Selling!MintAtStripe, ProductInv, Unlisted
  <2> QED BY <2>2, <2>3
<1>5. CASE Selling!InsertProduct(p)
  <2> DEFINE r == [o EXCEPT !.mint = "announce", !.row = TRUE, !.offered = TRUE]
  <2>1. Selling!Becomes(p, r) /\ o.mint = "insert"
    BY <1>5 DEF Selling!InsertProduct
  <2>2. r.row /\ r.live = o.live /\ r.via = o.via
    BY <1>1 DEF Rows
  <2>3. o.via # Selling!Local => o.live
    BY <1>1, <2>1 DEF ProductInv, Unlisted
  <2> HIDE DEF r
  <2> QED BY <2>1, <2>2, <2>3
<1>6. CASE Selling!AnnounceProduct(p) \/ Selling!MintFails(p)
  <2>1. \E m : Selling!Becomes(p, [o EXCEPT !.mint = m])
    BY <1>6 DEF Selling!AnnounceProduct, Selling!MintFails
  <2>2. PICK m : Selling!Becomes(p, [o EXCEPT !.mint = m])
    BY <2>1
  <2> DEFINE r == [o EXCEPT !.mint = m]
  <2>3. r.row = o.row /\ r.live = o.live /\ r.via = o.via /\ r.drop = o.drop
    BY <1>1 DEF Rows
  <2>4. Selling!Becomes(p, r)
    BY <2>2
  <2> HIDE DEF r
  <2> QED BY <1>1, <1>2, <2>3, <2>4 DEF Listed, Excused
<1>7. CASE Selling!StartDelete(p) \/ Selling!UnknownAtStripe(p)
  <2>1. PICK r : Selling!Becomes(p, r) /\ r.row = o.row /\ r.live = o.live /\ r.via = o.via
          /\ o.drop # "remove"
    BY <1>1, <1>7 DEF Selling!StartDelete, Selling!UnknownAtStripe, Rows
  <2> QED BY <1>1, <1>2, <2>1 DEF Listed, Excused
<1>8. CASE Selling!Deactivate(p)
  <2> DEFINE r == [o EXCEPT !.drop = "remove", !.live = o.live /\ o.by = Selling!Local]
  <2>1. Selling!Becomes(p, r)
    BY <1>8 DEF Selling!Deactivate
  <2>2. r.row = o.row /\ r.drop = "remove"
    BY <1>1 DEF Rows
  <2> HIDE DEF r
  <2> QED BY <2>1, <2>2
<1>9. CASE Selling!RemoveRow(p)
  <2> DEFINE r == [o EXCEPT !.drop = "off", !.row = FALSE]
  <2>1. Selling!Becomes(p, r) /\ ~Selling!Sold(p)
    BY <1>9 DEF Selling!RemoveRow
  <2>2. ~r.row
    BY <1>1 DEF Rows
  <2> HIDE DEF r
  <2> QED BY <2>1, <2>2
<1>10. CASE Selling!StillReferenced(p)
  <2>1. PICK r : Selling!Becomes(p, r) /\ r.row = o.row /\ (Selling!Sold(p) \/ p \in advertised)
    BY <1>1, <1>10 DEF Selling!StillReferenced, Rows
  <2> QED BY <2>1
<1>11. CASE Selling!DeleteFails(p)
  <2>1. mishaps' > 0
    BY <1>1, <1>11 DEF Selling!DeleteFails, Selling!AFault
  <2>2. PICK l : Selling!Becomes(p, [o EXCEPT !.drop = "off", !.live = l])
    BY <1>11 DEF Selling!DeleteFails
  <2> DEFINE r == [o EXCEPT !.drop = "off", !.live = l]
  <2>3. Selling!Becomes(p, r) /\ r.row = o.row
    BY <1>1, <2>2 DEF Rows
  <2> HIDE DEF r
  <2> QED BY <2>1, <2>3
<1> QED
  BY <1>4, <1>5, <1>6, <1>7, <1>8, <1>9, <1>10, <1>11 DEF Selling!create_product, Selling!delete_product

\* So the product tools keep the books.
LEMMA ToolsKeepBooks ==
  ASSUME ListInv, TillInv, ShopInv, NEW p \in Products, Selling!create_product(p)
          \/ Selling!delete_product(p)
  PROVE  TillInv'
<1>1. UNCHANGED <<order, handler, sale, balance>> /\ mishaps' \in Nat
  BY ToolFrame
<1>2. Selling!Sold(p) /\ product[p].row => product'[p].row
  BY ListTools
<1>3. \A q \in Products \ {p} : product'[q] = product[q]
  <2>1. \E r : Selling!Becomes(p, r)
    BY DEF Selling!create_product, Selling!StartMint, Selling!MintAtStripe, Selling!InsertProduct,
           Selling!AnnounceProduct, Selling!MintFails, Selling!delete_product, Selling!StartDelete,
           Selling!Deactivate, Selling!UnknownAtStripe, Selling!RemoveRow, Selling!StillReferenced,
           Selling!DeleteFails
  <2> QED BY <2>1 DEF Selling!Becomes, ShopInv, ShopTyped
<1> QED BY <1>1, <1>2, <1>3, TillSame

\* The inductive invariant of the second half.
StoreInv == ShopInv /\ TillInv /\ ListInv

\* Every step of the shop keeps all three.
LEMMA StoreStep == StoreInv /\ [Selling!Next]_(Selling!vars) => StoreInv'
<1> SUFFICES ASSUME ShopInv, TillInv, ListInv, [Selling!Next]_(Selling!vars) PROVE TillInv' /\ ListInv'
  BY ShopStep DEF StoreInv
<1>1. mishaps \in Nat
  BY DEF TillInv, TillTyped
<1>2. CASE Selling!Secrets \/ \E p \in Products : Selling!Advertise(p)
  <2>1. UNCHANGED <<product, order, handler, sale, balance>> /\ advertised \subseteq advertised'
        /\ mishaps' \in {mishaps, mishaps + 1}
    BY <1>2 DEF Selling!Secrets, Selling!SetKey, Selling!EnsureFolder, Selling!CreateSecret,
                Selling!UpdateSecret, Selling!AnnounceSecret, Selling!SetterFails, Selling!AFault,
                Selling!Advertise, Selling!till
  <2>2. mishaps' \in Nat
    BY <1>1, <2>1
  <2>3. TillInv'
    BY <2>1, <2>2, TillSame
  <2> QED BY <2>1, <2>3, ListSame
<1>3. CASE \E p \in Products : Selling!create_product(p) \/ Selling!delete_product(p)
  BY <1>3, ListTools, ToolsKeepBooks
<1>4. ASSUME NEW o \in Orders,
             \/ Selling!OpenCheckout(o) \/ Selling!PayAtStripe(o) \/ Selling!SubmitLocal(o)
             \/ Selling!DeliverEvent(o) \/ Selling!recordPayment(o) \/ Selling!RecordFails(o)
      PROVE  TillInv' /\ ListInv'
  <2>1. UNCHANGED <<product, advertised>> /\ mishaps' \in {mishaps, mishaps + 1}
        /\ (UNCHANGED sale \/ Selling!RecordSale(o))
    BY <1>4 DEF Selling!OpenCheckout, Selling!PayAtStripe, Selling!SubmitLocal, Selling!DeliverEvent,
                Selling!recordPayment, Selling!RecordSale, Selling!AlreadyRecorded, Selling!ProductGone,
                Selling!RecordFails, Selling!AFault, Selling!shop
  <2>2. \A x \in Orders : sale[x].rows > 0 => sale'[x].rows > 0
    <3>1. CASE UNCHANGED sale
      BY <3>1
    <3>2. CASE Selling!RecordSale(o)
      <4>1. sale[o].rows = 0 /\ \A x \in Orders \ {o} : sale'[x] = sale[x]
        BY <3>2 DEF Selling!RecordSale, TillInv, TillTyped
      <4> QED BY <4>1
    <3> QED BY <2>1, <3>1, <3>2
  <2> QED BY <1>4, <2>1, <2>2, TillCustomers, ListSame
<1>5. CASE UNCHANGED Selling!vars
  <2>1. UNCHANGED <<product, order, handler, sale, balance, advertised, mishaps>>
    BY <1>5 DEF Selling!vars, Selling!shop, Selling!till
  <2>2. TillInv'
    BY <1>1, <2>1, TillSame
  <2> QED BY <2>1, <2>2, ListSame
<1> QED BY <1>2, <1>3, <1>4, <1>5 DEF Selling!Next

\* They hold at the start,
LEMMA StoreStart == Selling!Init => StoreInv
  BY ShopStart, TillStart, ListStart DEF StoreInv

\* and imply what the runs check.
LEMMA StoreFollows == StoreInv => ShopKept
  BY BooksFollow, ListFollows
  DEF StoreInv, ShopKept, Selling!ShopKept, ShopInv, ProductInv, Known, Selling!OnSaleIsKnown

\* delete_product deactivates at Stripe before it deletes the row, so a link a customer can
\* open is always of a product the books know, for any keys, products and failures.
THEOREM OnSaleStaysKnown == Selling!Spec => []Selling!OnSaleIsKnown
  <1>1. StoreInv => Selling!OnSaleIsKnown
    BY StoreFollows DEF ShopKept, Selling!ShopKept
  <1> QED
    BY <1>1, StoreStart, StoreStep, PTL DEF Selling!Spec

\* What is listed is for sale, and the balance is what the paid orders net, each counted
\* once and of a product still listed, whatever keys change and whatever fails on the way.
THEOREM ShopStaysKept == Selling!Spec => []ShopKept
  <1> QED
    BY StoreStart, StoreStep, StoreFollows, PTL DEF Selling!Spec

----------------------------------------------------------------------------
(* The company.                                                            *)

\* A step of the composition is a step of one half and leaves the other alone.
LEMMA HalfStep ==
  ASSUME [NextHalf]_All
  PROVE  [Next]_vars /\ [Selling!Next]_(Selling!vars)
<1>1. CASE Advertise(Next)
  <2>1. UNCHANGED Selling!vars
    BY <1>1 DEF Advertise, shopVars, Selling!vars, Selling!shop, Selling!till
  <2> QED BY <1>1, <2>1 DEF Advertise
<1>2. CASE Sell(Selling!Next)
  BY <1>2 DEF Sell
<1>3. CASE UNCHANGED All
  <2>1. UNCHANGED <<vars, shopVars>>
    BY <1>3 DEF All
  <2> QED BY <2>1 DEF shopVars, Selling!vars, Selling!shop, Selling!till
<1> QED BY <1>1, <1>2, <1>3 DEF NextHalf

\* Both halves of the composition the runs check keep what each promises alone, whatever
\* the campaigns, budgets, caps, syncs, products, orders, keys and failures.
THEOREM CommerceIsKept == Halves => [](AdSpendKept /\ ShopKept)
<1>1. InitHalf => AdInv /\ StoreInv
  BY AdStart, StoreStart DEF InitHalf
<1>2. AdInv /\ StoreInv /\ [NextHalf]_All => (AdInv /\ StoreInv)'
  BY HalfStep, AdStep, StoreStep
<1>3. AdInv /\ StoreInv => AdSpendKept /\ ShopKept
  BY AdFollows, StoreFollows
<1> QED BY <1>1, <1>2, <1>3, PTL DEF Halves
=============================================================================
