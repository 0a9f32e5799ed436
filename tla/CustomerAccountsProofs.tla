------------------------ MODULE CustomerAccountsProofs ------------------------
(***************************************************************************)
(* The wallets' grants and the owners at the door, for any conglomerates,  *)
(* plans, calendars, calls, sessions, owners, requests, limits, failures.  *)
(*                                                                         *)
(* Grants. The calendar is a recursion over the months, shown to exist by  *)
(* a sum (module Sums), so that a month on is later and a period advances. *)
(* Of a period no two calls raced for, at most one call is about to insert *)
(* its only grant. What makes the covered periods inductive: a run that    *)
(* has passed a period found or inserted its grant, and an answered event  *)
(* is credited.                                                            *)
(*                                                                         *)
(* The door. The guard records before it counts: the calls that went       *)
(* through and those that have recorded and not counted yet have a row     *)
(* each. While one onboarding is open no account is stored, and once one   *)
(* is stored none is open.                                                 *)
(***************************************************************************)
EXTENDS CustomerAccounts, Sums

----------------------------------------------------------------------------
(* The calendar.                                                           *)

Months == 1..Len(MonthLengths)

\* The calendar has months, and every month has days.
LEMMA CalendarGiven ==
  /\ Len(MonthLengths) \in Nat \ {0}
  /\ \A m \in Months : MonthLengths[m] \in Nat \ {0}
<1>1. MonthLengths \in Seq(Nat \ {0}) /\ Len(MonthLengths) > 0
  BY CreditGrantsAssumption
<1> QED
  BY <1>1 DEF Months

\* The days of the months, and of those before month m.
DaysOfMonths == [m \in Months |-> MonthLengths[m]]
DaysBefore(m) == SumFunction(Restrict(DaysOfMonths, 1..(m - 1)))
Calendar(f) == f = [m \in 1..(Len(MonthLengths) + 1) |->
                      IF m = 1 THEN 1 ELSE f[m - 1] + MonthLengths[m - 1]]

\* The recursion that defines the first days of the months is met by a sum, so by StartOfMonth.
LEMMA MonthsFollow ==
  /\ StartOfMonth[1] = 1
  /\ \A m \in Months : StartOfMonth[m + 1] = StartOfMonth[m] + MonthLengths[m]
<1> DEFINE n == Len(MonthLengths)
<1>1. n \in Nat /\ DaysOfMonths \in [1..n -> Int]
  BY CalendarGiven DEF Months, DaysOfMonths
<1>2. DaysBefore(1) = 0
  <2>1. Restrict(DaysOfMonths, 1..0) \in [{} -> Int]
    BY DEF Restrict
  <2> QED BY <2>1, SumEmpty DEF DaysBefore
<1>3. ASSUME NEW m \in 2..(n + 1) PROVE DaysBefore(m) = DaysBefore(m - 1) + MonthLengths[m - 1]
  <2>1. m - 1 \in 1..n /\ DaysOfMonths[m - 1] = MonthLengths[m - 1]
    BY <1>1 DEF Months, DaysOfMonths
  <2>2. SumFunction(Restrict(DaysOfMonths, 1..(m - 1)))
          = SumFunction(Restrict(DaysOfMonths, 1..((m - 1) - 1))) + DaysOfMonths[m - 1]
    BY <1>1, <2>1, OneMoreDay
  <2> QED BY <2>1, <2>2 DEF DaysBefore
<1>4. ASSUME NEW m \in 1..(n + 1) PROVE DaysBefore(m) \in Int
  <2> DEFINE D == 1..n
             X == 1..(m - 1)
  <2>1. IsFiniteSet(D) /\ X \in SUBSET D
    BY <1>1, FS_Interval
  <2> HIDE DEF D, X
  <2>2. DaysOfMonths \in [D -> Int]
    BY <1>1 DEF D
  <2>3. SumFunction(Restrict(DaysOfMonths, X)) \in Int
    BY <2>1, <2>2, SumOverType
  <2> QED BY <2>3 DEF X, DaysBefore
<1> DEFINE h == [m \in 1..(n + 1) |-> 1 + DaysBefore(m)]
<1>5. Calendar(h)
  <2>1. ASSUME NEW m \in 1..(n + 1)
        PROVE  h[m] = IF m = 1 THEN 1 ELSE h[m - 1] + MonthLengths[m - 1]
    <3>1. CASE m = 1  BY <1>2, <3>1
    <3>2. CASE m # 1
      <4>1. m \in 2..(n + 1) /\ m - 1 \in 1..(n + 1) /\ m - 1 \in Months
        BY <1>1, <3>2 DEF Months
      <4>2. MonthLengths[m - 1] \in Int
        BY <4>1, CalendarGiven
      <4> QED BY <1>3, <1>4, <3>2, <4>1, <4>2
    <3> QED BY <3>1, <3>2
  <2> HIDE DEF h
  <2>2. h = [m \in 1..(n + 1) |-> IF m = 1 THEN 1 ELSE h[m - 1] + MonthLengths[m - 1]]
    <3>1. h = [m \in 1..(n + 1) |-> h[m]]
      BY DEF h
    <3> QED BY <2>1, <3>1
  <2> QED BY <2>2 DEF Calendar
<1>6. Calendar(StartOfMonth)
  <2>1. StartOfMonth = CHOOSE f : Calendar(f)
    BY DEF StartOfMonth, Calendar
  <2> QED BY <1>5, <2>1
<1>7. StartOfMonth = [m \in 1..(Len(MonthLengths) + 1) |->
                        IF m = 1 THEN 1 ELSE StartOfMonth[m - 1] + MonthLengths[m - 1]]
  BY <1>6 DEF Calendar
<1> HIDE DEF h
<1>8. 1 \in 1..(n + 1) /\ \A m \in Months : m + 1 \in 1..(n + 1) /\ m + 1 # 1 /\ (m + 1) - 1 = m
  BY <1>1 DEF Months
<1> QED BY <1>7, <1>8

\* A month begins after the one before it.
LEMMA MonthsGrow ==
  /\ \A m \in 1..(Len(MonthLengths) + 1) : StartOfMonth[m] \in Nat \ {0}
  /\ \A m \in Months : StartOfMonth[m + 1] > StartOfMonth[m]
  /\ MaxDay \in Nat \ {0}
<1> DEFINE n == Len(MonthLengths)
           T == {m \in Nat : m <= n => StartOfMonth[m + 1] \in Nat \ {0}}
<1>0. n \in Nat \ {0}
  BY CalendarGiven
<1> HIDE DEF n
<1>1. 0 \in T
  BY MonthsFollow
<1>2. ASSUME NEW m \in Nat, m \in T PROVE m + 1 \in T
  <2> SUFFICES ASSUME m + 1 <= n PROVE StartOfMonth[(m + 1) + 1] \in Nat \ {0}
    BY m + 1 \in Nat
  <2>1. m + 1 \in Months
    BY <1>0 DEF Months, n
  <2>2. StartOfMonth[(m + 1) + 1] = StartOfMonth[m + 1] + MonthLengths[m + 1]
    BY <2>1, MonthsFollow
  <2>3. StartOfMonth[m + 1] \in Nat \ {0} /\ MonthLengths[m + 1] \in Nat \ {0}
    BY <1>0, <1>2, <2>1, CalendarGiven
  <2> QED BY <2>2, <2>3
<1>3. Nat \subseteq T
  <2> HIDE DEF T
  <2> QED BY <1>1, <1>2, NatInduct
<1>4. ASSUME NEW m \in 1..(n + 1) PROVE StartOfMonth[m] \in Nat \ {0}
  <2>1. m - 1 \in Nat /\ m - 1 <= n /\ (m - 1) + 1 = m
    BY <1>0
  <2> QED BY <1>3, <2>1
<1>5. ASSUME NEW m \in Months PROVE StartOfMonth[m + 1] > StartOfMonth[m]
  <2>1. m \in 1..(n + 1)  BY <1>0 DEF Months, n
  <2>2. StartOfMonth[m + 1] = StartOfMonth[m] + MonthLengths[m]  BY MonthsFollow
  <2>3. StartOfMonth[m] \in Nat /\ MonthLengths[m] \in Nat \ {0}
    BY <1>4, <2>1, CalendarGiven
  <2> QED BY <2>2, <2>3
<1>6. MaxDay \in Nat \ {0}
  <2>1. n \in Months /\ n \in 1..(n + 1) /\ n + 1 \in 1..(n + 1)  BY <1>0 DEF Months, n
  <2>2. StartOfMonth[n + 1] > StartOfMonth[n]  BY <1>5, <2>1
  <2>3. StartOfMonth[n + 1] \in Nat /\ StartOfMonth[n] \in Nat \ {0}  BY <1>4, <2>1
  <2> QED BY <2>2, <2>3 DEF MaxDay, n
<1> QED BY <1>4, <1>5, <1>6 DEF n

\* A nonempty set of numbers up to n has a greatest one.
LEMMA GreatestUpto ==
  ASSUME NEW n \in Nat, NEW S \in SUBSET (1..n), S # {}
  PROVE  Max(S) \in S
<1> DEFINE T == {y \in Nat : n - y \in S}
<1>1. T \in SUBSET Nat /\ T # {}
  <2>1. PICK x \in S : TRUE  OBVIOUS
  <2>2. x \in 1..n /\ n - x \in Nat /\ n - (n - x) = x  BY <2>1
  <2>3. n - x \in T  BY <2>1, <2>2
  <2> QED BY <2>3
<1>2. PICK y \in T : \A z \in T : y <= z
  <2> HIDE DEF T
  <2> QED BY <1>1, LeastNat
<1>3. n - y \in S /\ y \in Nat
  BY <1>2
<1>4. ASSUME NEW z \in S PROVE n - y >= z
  <2>1. z \in 1..n /\ n - z \in Nat /\ n - (n - z) = z  OBVIOUS
  <2>2. n - z \in T  BY <2>1
  <2> QED BY <1>2, <1>3, <2>1, <2>2
<1> QED BY <1>3, <1>4 DEF Max

\* A month on, a period is later.
LEMMA AMonthOn == ASSUME NEW day \in Nat \ {0} PROVE addMonth(day) \in Nat /\ addMonth(day) > day
<1> DEFINE S == {m \in Months : StartOfMonth[m] <= day}
<1>1. 1 \in Months /\ 1 \in S
  BY CalendarGiven, MonthsFollow DEF Months
<1>2. MonthOf(day) \in S
  <2>1. MonthOf(day) = Max(S)
    BY DEF MonthOf, Months
  <2>2. S \in SUBSET (1..Len(MonthLengths)) /\ S # {}
    BY <1>1 DEF Months
  <2> HIDE DEF S
  <2> QED BY <2>1, <2>2, GreatestUpto, CalendarGiven
<1>3. MonthOf(day) \in Months /\ StartOfMonth[MonthOf(day)] <= day
  BY <1>2
<1>4. MonthOf(day) \in 1..(Len(MonthLengths) + 1) /\ MonthOf(day) + 1 \in 1..(Len(MonthLengths) + 1)
  BY <1>3, CalendarGiven DEF Months
<1>5. /\ StartOfMonth[MonthOf(day) + 1] \in Nat /\ StartOfMonth[MonthOf(day)] \in Nat
      /\ StartOfMonth[MonthOf(day) + 1] > StartOfMonth[MonthOf(day)]
  BY <1>3, <1>4, MonthsGrow
<1> QED BY <1>3, <1>5 DEF addMonth

----------------------------------------------------------------------------
(* The invariant: types and the days of a call.                            *)

ActiveRow == [g : Conglomerates, plan : Recurring, start : Days]
CycleCall == [at : {"idle", "next", "elapsed", "grant", "upsert"}, now : Days,
              todo : SUBSET ActiveRow, row : ActiveRow \cup {<<>>}, start : Days]
OwnerCalls == [at : {"idle", "upsert", "check", "grant"}, g : Conglomerates, plan : Plans, now : Days]
StoredSub == [plan : Plans \cup {"none"}, start : 0..MaxDay, by : Sessions \cup {"period"}]
CheckoutSession == [status : {"none", "open", "paid", "answered"}, kind : {"topup", "subscription"},
                    g : Conglomerates, plan : Plans \cup {"builder"}]
WebhookCall == [at : {"idle", "ref", "activate", "wallet", "insert", "answer"}, session : Sessions]

\* The periods a run of the cycle works on have begun, and advance from the stored one.
InPeriods(c) ==
  /\ c.now <= today /\ c.start <= today /\ \A r \in c.todo : r.start <= today
  /\ c.at \in {"elapsed", "grant", "upsert"} =>
       c.row \in ActiveRow /\ c.row.start <= c.start
  /\ c.at \in {"grant", "upsert"} => c.row.start < c.start
CyclesTyped == cycle \in [Cycles -> CycleCall] /\ \A p \in Cycles : InPeriods(cycle[p])
OwnersTyped == owner \in [Owners -> OwnerCalls] /\ \A o \in Owners : owner[o].now <= today
SubsTyped ==
  /\ sub \in [Conglomerates -> StoredSub]
  /\ \A g \in Conglomerates : sub[g].plan \in Plans => sub[g].start \in 1..today
OfAPlan(s) == session[s].kind = "subscription" => session[s].plan \in Plans
StripeTyped ==
  /\ session \in [Sessions -> CheckoutSession] /\ delivery \in [Deliveries -> WebhookCall]
  /\ \A s \in Sessions : OfAPlan(s)
  /\ \A d \in Deliveries : delivery[d].at # "idle" =>
      session[delivery[d].session].status \in {"paid", "answered"}
  /\ \A d \in Deliveries : delivery[d].at \in {"ref", "activate"} =>
      session[delivery[d].session].kind = "subscription"
Typed ==
  /\ today \in Days /\ grants \in [Conglomerates -> [Periods -> Nat]] /\ credited \in [Sessions -> Nat]
  /\ CyclesTyped /\ OwnersTyped /\ SubsTyped /\ StripeTyped

\* Of a period no two calls raced for, one call at most has still to insert the only grant.
GrantApart(g, k) ==
  /\ grants[g][k] <= 1
  /\ \A p \in GrantingCycles(g, k) :
       /\ grants[g][k] = 0 /\ GrantingOwners(g, k) = {}
       /\ \A q \in GrantingCycles(g, k) : q = p
  /\ \A o \in GrantingOwners(g, k) :
       /\ grants[g][k] = 0
       /\ \A q \in GrantingOwners(g, k) : q = o
Inserting(s) == {e \in Deliveries : delivery[e].at = "insert" /\ delivery[e].session = s}
CreditApart(s) ==
  /\ credited[s] <= 1
  /\ \A d \in Inserting(s) : credited[s] = 0 /\ \A e \in Inserting(s) : e = d
ApartInv ==
  /\ \A g \in Conglomerates, k \in Periods : <<g, k>> \notin raced => GrantApart(g, k)
  /\ \A s \in Sessions : s \notin raced => CreditApart(s)

\* What a call has passed is in the wallet.
Advanced(c) == c.at \in {"elapsed", "upsert"} /\ c.row.start < c.start
Passed ==
  /\ \A p \in Cycles : Advanced(cycle[p]) =>
      hasGrant(cycle[p].row.g, periodKey(cycle[p].row.plan, cycle[p].start))
  /\ \A d \in Deliveries : delivery[d].at = "answer" => credited[delivery[d].session] > 0
  /\ \A s \in Sessions : session[s].status = "answered" => credited[s] > 0
CoverInv == PeriodCovered /\ Passed

----------------------------------------------------------------------------
(* Types.                                                                  *)

\* What the plans and the calendar are assumed to be.
LEMMA PlansGiven ==
  /\ "free" \in Plans /\ "none" \notin Plans /\ Recurring \subseteq Plans
  /\ \A plan \in Plans, day \in Days : periodKey(plan, day) \in Periods
  /\ MaxDay \in Nat \ {0} /\ 1 \in Days
<1>1. "free" \in Plans /\ "none" \notin Plans /\ Recurring \subseteq Plans
  BY CreditGrantsAssumption DEF Recurring
<1>2. MaxDay \in Nat \ {0} /\ 1 \in Days
  BY MonthsGrow DEF Days
<1>3. \A plan \in Plans, day \in Days : periodKey(plan, day) \in Periods
  BY <1>2 DEF periodKey, Periods, Days
<1> QED BY <1>1, <1>2, <1>3

\* Calls and sessions at rest have their types.
LEMMA RestTyped ==
  /\ IdleCycle \in CycleCall /\ IdleOwner \in OwnerCalls /\ NoSub \in StoredSub
  /\ NoSession \in CheckoutSession /\ IdleDelivery \in WebhookCall
<1>1. Somebody \in Conglomerates /\ (CHOOSE s \in Sessions : TRUE) \in Sessions
  BY CreditGrantsAssumption DEF Somebody
<1>2. 0 \in 0..MaxDay
  BY PlansGiven
<1> QED BY <1>1, <1>2, PlansGiven
  DEF IdleCycle, CycleCall, IdleOwner, OwnerCalls, NoSub, StoredSub, NoSession, CheckoutSession,
      IdleDelivery, WebhookCall

\* So has everything at the start.
LEMMA BeginTyped == ASSUME Init PROVE Typed
<1>1. today = 1 /\ today \in Days  BY PlansGiven DEF Init
<1>2. CyclesTyped  BY <1>1, RestTyped DEF Init, CyclesTyped, InPeriods, IdleCycle
<1>3. OwnersTyped  BY <1>1, RestTyped DEF Init, OwnersTyped, IdleOwner
<1>4. SubsTyped  BY RestTyped, PlansGiven DEF Init, SubsTyped, NoSub
<1>5. StripeTyped  BY RestTyped DEF Init, StripeTyped, OfAPlan, NoSession, IdleDelivery
<1>6. grants \in [Conglomerates -> [Periods -> Nat]] /\ credited \in [Sessions -> Nat]  BY DEF Init
<1> QED BY <1>1, <1>2, <1>3, <1>4, <1>5, <1>6 DEF Typed

\* One call of the cycle changes.
LEMMA OneCycle ==
  ASSUME Typed, NEW p \in Cycles, NEW c \in CycleCall, cycle' = [cycle EXCEPT ![p] = c],
         InPeriods(c), today' = today
  PROVE  CyclesTyped'
<1>1. cycle' \in [Cycles -> CycleCall]  BY DEF Typed, CyclesTyped
<1>2. \A q \in Cycles : cycle'[q] = IF q = p THEN c ELSE cycle[q]  BY DEF Typed, CyclesTyped
<1>3. \A q \in Cycles : InPeriods(cycle[q])  BY DEF Typed, CyclesTyped
<1>4. \A q \in Cycles : InPeriods(cycle'[q])  BY <1>2, <1>3
<1>5. \A q \in Cycles : InPeriods(cycle[q])'  BY <1>4 DEF InPeriods
<1> QED BY <1>1, <1>5 DEF CyclesTyped

\* One subscribe call changes.
LEMMA OneOwner ==
  ASSUME Typed, NEW o \in Owners, NEW c \in OwnerCalls, owner' = [owner EXCEPT ![o] = c],
         c.now <= today, today' = today
  PROVE  OwnersTyped'
BY DEF Typed, OwnersTyped

\* One subscription changes.
LEMMA OneSub ==
  ASSUME Typed, NEW g \in Conglomerates, NEW plan \in Plans, NEW day \in Days, day <= today,
         NEW by \in Sessions \cup {"period"},
         sub' = [sub EXCEPT ![g] = [plan |-> plan, start |-> day, by |-> by]], today' = today
  PROVE  SubsTyped'
<1> DEFINE r == [plan |-> plan, start |-> day, by |-> by]
<1>1. MaxDay \in Nat /\ day \in 1..MaxDay /\ today \in 1..MaxDay  BY PlansGiven DEF Days, Typed
<1>2. r \in StoredSub /\ r.start \in 1..today  BY <1>1 DEF StoredSub
<1>3. sub \in [Conglomerates -> StoredSub]  BY DEF Typed, SubsTyped
<1> HIDE DEF r
<1>4. sub' = [sub EXCEPT ![g] = r]  BY DEF r
<1> QED BY <1>2, <1>3, <1>4 DEF Typed, SubsTyped

\* The subscribe call.
LEMMA SubscribeTyped ==
  ASSUME Typed, NEW o \in Owners, NEW g \in Conglomerates, NEW plan \in Plans, Subscribe(o, g, plan)
  PROVE  Typed'
<1> DEFINE c == [at |-> "upsert", g |-> g, plan |-> plan, now |-> today]
<1>1. c \in OwnerCalls /\ c.now <= today  BY PlansGiven DEF OwnerCalls, Typed, Days
<1>2. OwnersTyped'  BY <1>1, OneOwner DEF Subscribe
<1> QED BY <1>2 DEF Subscribe, Typed, CyclesTyped, InPeriods, SubsTyped, StripeTyped, OfAPlan

\* A subscribe call goes on,
LEMMA OwnerGoes ==
  ASSUME Typed, NEW o \in Owners, NEW at \in {"check", "grant"}, owner' = [owner EXCEPT ![o].at = at],
         today' = today
  PROVE  OwnersTyped'
<1> DEFINE c == [owner[o] EXCEPT !.at = at]
<1>1. c \in OwnerCalls /\ c.now = owner[o].now /\ owner[o].now <= today
    BY DEF Typed, OwnersTyped, OwnerCalls
<1> HIDE DEF c
<1>2. owner' = [owner EXCEPT ![o] = c]  BY DEF c
<1> QED BY <1>1, <1>2, OneOwner

\* or is over.
LEMMA OwnerLeaves ==
  ASSUME Typed, NEW o \in Owners, owner' = [owner EXCEPT ![o] = IdleOwner], today' = today
  PROVE  OwnersTyped'
<1>1. IdleOwner \in OwnerCalls /\ IdleOwner.now <= today
  BY RestTyped, PlansGiven DEF IdleOwner, Typed, Days
<1> HIDE DEF IdleOwner
<1> QED BY <1>1, OneOwner

\* The wallet of a conglomerate gets a grant.
LEMMA GrantTyped ==
  ASSUME Typed, NEW g \in Conglomerates, NEW k \in Periods, grant(g, k)
  PROVE  /\ grants' \in [Conglomerates -> [Periods -> Nat]]
         /\ grants'[g][k] = grants[g][k] + 1
         /\ \A h \in Conglomerates, i \in Periods : <<h, i>> # <<g, k>> => grants'[h][i] = grants[h][i]
BY DEF grant, Typed

\* What a subscribe call grants is a period of its conglomerate.
LEMMA OwnersKeyTyped ==
  ASSUME Typed, NEW o \in Owners PROVE owner[o].g \in Conglomerates /\ OwnersKey(o) \in Periods
<1>1. owner[o] \in OwnerCalls  BY DEF Typed, OwnersTyped
<1> QED BY <1>1, PlansGiven DEF OwnerCalls, OwnersKey

\* The steps of subscribe.
LEMMA OwnerCallTyped == ASSUME Typed, NEW o \in Owners, OwnerCall(o) PROVE Typed'
<1>1. CASE \E g \in Conglomerates, plan \in Plans : Subscribe(o, g, plan)
  BY <1>1, SubscribeTyped
<1>2. CASE StoreSubscription(o)
  <2>1. owner[o] \in OwnerCalls /\ owner[o].now <= today  BY DEF Typed, OwnersTyped
  <2>2. SubsTyped'  BY <1>2, <2>1, OneSub DEF StoreSubscription, OwnerCalls
  <2>3. OwnersTyped'  BY <1>2, OwnerGoes DEF StoreSubscription
  <2> QED BY <1>2, <2>2, <2>3 DEF StoreSubscription, Typed, CyclesTyped, InPeriods, StripeTyped, OfAPlan
<1>3. CASE LookUpFirstGrant(o)
  <2>1. OwnersTyped'  BY <1>3, OwnerGoes, OwnerLeaves DEF LookUpFirstGrant
  <2> QED BY <1>3, <2>1 DEF LookUpFirstGrant, Typed, CyclesTyped, InPeriods, SubsTyped, StripeTyped, OfAPlan
<1>4. CASE FirstGrant(o)
  <2>1. OwnersTyped'  BY <1>4, OwnerLeaves DEF FirstGrant
  <2>2. grants' \in [Conglomerates -> [Periods -> Nat]]
    BY <1>4, GrantTyped, OwnersKeyTyped DEF FirstGrant
  <2> QED BY <1>4, <2>1, <2>2 DEF FirstGrant, Typed, CyclesTyped, InPeriods, SubsTyped, StripeTyped, OfAPlan
<1>5. CASE SubscribeFails(o)
  <2>1. OwnersTyped'  BY <1>5, OwnerLeaves DEF SubscribeFails
  <2> QED BY <1>5, <2>1 DEF SubscribeFails, Typed, CyclesTyped, InPeriods, SubsTyped, StripeTyped, OfAPlan
<1> QED BY <1>1, <1>2, <1>3, <1>4, <1>5 DEF OwnerCall

\* The call of the cycle p is on a row it listed.
LEMMA OnARow ==
  ASSUME Typed, NEW p \in Cycles, cycle[p].at \in {"elapsed", "grant", "upsert"}
  PROVE  /\ cycle[p] \in CycleCall /\ InPeriods(cycle[p]) /\ cycle[p].row \in ActiveRow
         /\ cycle[p].row.g \in Conglomerates /\ cycle[p].row.plan \in Recurring
         /\ cycle[p].start \in Days
         /\ periodKey(cycle[p].row.plan, cycle[p].start) \in Periods
<1>1. cycle[p] \in CycleCall /\ InPeriods(cycle[p])  BY DEF Typed, CyclesTyped
<1>2. cycle[p].row \in ActiveRow /\ cycle[p].start \in Days  BY <1>1 DEF InPeriods, CycleCall
<1>3. cycle[p].row.g \in Conglomerates /\ cycle[p].row.plan \in Recurring  BY <1>2 DEF ActiveRow
<1> QED BY <1>1, <1>2, <1>3, PlansGiven

\* A step of the grant cycle: one call changes, with a wallet or a subscription.
LEMMA CycleTyped ==
  ASSUME Typed, NEW p \in Cycles, NEW c \in CycleCall, InPeriods(c), cycle' = [cycle EXCEPT ![p] = c],
         UNCHANGED <<today, owner, session, delivery>>,
         grants' \in [Conglomerates -> [Periods -> Nat]], credited' = credited, SubsTyped'
  PROVE  Typed'
<1>1. CyclesTyped'  BY OneCycle
<1> QED BY <1>1 DEF Typed, OwnersTyped, StripeTyped, OfAPlan

\* Subscriptions that a step leaves alone.
LEMMA SameSubs == ASSUME Typed, UNCHANGED <<sub, today>> PROVE SubsTyped'
BY DEF Typed, SubsTyped

\* A run at rest.
LEMMA IdleInPeriods == ASSUME Typed PROVE IdleCycle \in CycleCall /\ InPeriods(IdleCycle)
BY RestTyped, PlansGiven DEF IdleCycle, InPeriods, Typed, Days

\* The steps of the grant cycle.
LEMMA GrantCycleTyped == ASSUME Typed, NEW p \in Cycles, GrantCycle(p) PROVE Typed'
<1> DEFINE c == cycle[p]
<1>0. c \in CycleCall /\ InPeriods(c) /\ cycle \in [Cycles -> CycleCall]  BY DEF Typed, CyclesTyped
<1>1. CASE ListActive(p)
  <2> DEFINE rows == {[g |-> g, plan |-> sub[g].plan, start |-> sub[g].start] :
                        g \in {h \in Conglomerates : sub[h].plan \in Recurring}}
             d == [IdleCycle EXCEPT !.at = "next", !.now = today, !.todo = rows]
  <2>1. ASSUME NEW g \in Conglomerates, sub[g].plan \in Recurring
        PROVE  sub[g].start \in Days /\ sub[g].start <= today
    BY <2>1, PlansGiven DEF Typed, SubsTyped, Days
  <2>2. rows \subseteq ActiveRow /\ \A r \in rows : r.start <= today
    BY <2>1 DEF ActiveRow
  <2>3. today \in Days /\ 1 <= today /\ 1 \in Days  BY PlansGiven DEF Typed, Days
  <2> HIDE DEF rows
  <2>4. d \in CycleCall /\ InPeriods(d)
    <3>1. IdleCycle \in CycleCall /\ IdleCycle.start = 1  BY RestTyped DEF IdleCycle
    <3> HIDE DEF IdleCycle
    <3>2. d \in CycleCall /\ d.at = "next" /\ d.now = today /\ d.todo = rows /\ d.start = 1
      BY <2>2, <2>3, <3>1 DEF CycleCall
    <3> HIDE DEF d
    <3>3. today <= today  BY <2>3, PlansGiven DEF Days
    <3> QED BY <2>2, <2>3, <3>2, <3>3 DEF InPeriods
  <2>5. cycle' = [cycle EXCEPT ![p] = d]  BY <1>1 DEF ListActive, rows
  <2> HIDE DEF d
  <2> QED BY <1>1, <2>4, <2>5, CycleTyped, SameSubs DEF ListActive, Typed
<1>2. CASE NextSubscription(p)
  <2>1. CASE c.todo = {}
    BY <1>2, <2>1, IdleInPeriods, CycleTyped, SameSubs DEF NextSubscription, Typed
  <2>2. CASE c.todo # {}
    <3>1. PICK r \in c.todo : cycle' = [cycle EXCEPT ![p].at = "elapsed", ![p].todo = @ \ {r},
                                                     ![p].row = r, ![p].start = r.start]
      BY <1>2, <2>2 DEF NextSubscription
    <3>2. r \in ActiveRow /\ r.start \in Days /\ r.start <= today
      BY <1>0 DEF CycleCall, ActiveRow, InPeriods
    <3>3. r.start <= r.start  BY <3>2, PlansGiven DEF Days
    <3> DEFINE d == [c EXCEPT !.at = "elapsed", !.todo = @ \ {r}, !.row = r, !.start = r.start]
    <3>4. d \in CycleCall  BY <1>0, <3>2 DEF CycleCall
    <3>5. InPeriods(d)  BY <1>0, <3>2, <3>3 DEF CycleCall, InPeriods
    <3>6. cycle' = [cycle EXCEPT ![p] = d]  BY <3>1
    <3> HIDE DEF d
    <3> QED BY <1>2, <3>4, <3>5, <3>6, CycleTyped, SameSubs DEF NextSubscription, Typed
  <2> QED BY <2>1, <2>2
<1>3. CASE NextPeriod(p)
  <2>1. c.at = "elapsed"  BY <1>3 DEF NextPeriod
  <2>2. /\ c.row \in ActiveRow /\ c.start \in Days /\ c.now \in Days /\ c.row.start \in Days
        /\ c.row.start <= c.start /\ c.now <= today /\ c.start <= today
    BY <1>0, <2>1 DEF InPeriods, CycleCall, ActiveRow
  <2>3. MaxDay \in Nat /\ c.start \in 1..MaxDay /\ c.now \in 1..MaxDay /\ c.row.start \in 1..MaxDay
    BY <2>2, PlansGiven DEF Days
  <2>4. addMonth(c.start) \in Nat /\ addMonth(c.start) > c.start  BY <2>3, AMonthOn
  <2>5. CASE addMonth(c.start) <= c.now
    <3> DEFINE next == addMonth(c.start)
    <3>1. next \in Days /\ next <= today /\ c.row.start < next
      BY <2>2, <2>3, <2>4, <2>5 DEF Days, Typed
    <3> HIDE DEF next
    <3>2. PICK at \in {"elapsed", "grant"} : cycle' = [cycle EXCEPT ![p].start = next, ![p].at = at]
      BY <1>0, <1>3, <2>1, <2>3, <2>4, <2>5 DEF NextPeriod, next, CycleCall
    <3> DEFINE d == [c EXCEPT !.start = next, !.at = at]
    <3>3. d \in CycleCall  BY <1>0, <3>1 DEF CycleCall
    <3>4. c.row.start <= next  BY <2>3, <3>1 DEF Days
    <3>5. InPeriods(d)  BY <1>0, <2>2, <3>1, <3>4 DEF CycleCall, InPeriods
    <3>6. cycle' = [cycle EXCEPT ![p] = d]  BY <3>2
    <3> HIDE DEF d
    <3> QED BY <1>3, <3>3, <3>5, <3>6, CycleTyped, SameSubs DEF NextPeriod, Typed
  <2>6. CASE addMonth(c.start) > c.now
    <3> DEFINE at == IF c.start > c.row.start THEN "upsert" ELSE "next"
               d == [c EXCEPT !.at = at]
    <3>1. d \in CycleCall  BY <1>0 DEF CycleCall
    <3>2. InPeriods(d)
      <4>1. CASE c.start > c.row.start
        BY <1>0, <2>2, <2>3, <4>1 DEF CycleCall, InPeriods
      <4>2. CASE ~(c.start > c.row.start)
        BY <1>0, <4>2 DEF CycleCall, InPeriods
      <4> QED BY <4>1, <4>2
    <3>3. ~(addMonth(c.start) <= c.now)  BY <2>3, <2>4, <2>6
    <3>4. cycle' = [cycle EXCEPT ![p] = d]  BY <1>3, <3>3 DEF NextPeriod
    <3> HIDE DEF d
    <3> QED BY <1>3, <3>1, <3>2, <3>4, CycleTyped, SameSubs DEF NextPeriod, Typed
  <2> QED BY <2>3, <2>4, <2>5, <2>6
<1>4. CASE GrantPeriod(p)
  <2>1. c.at = "grant"  BY <1>4 DEF GrantPeriod
  <2> DEFINE d == [c EXCEPT !.at = "elapsed"]
  <2>2. d \in CycleCall /\ InPeriods(d)  BY <1>0, <2>1 DEF CycleCall, InPeriods
  <2>3. cycle' = [cycle EXCEPT ![p] = d]  BY <1>4 DEF GrantPeriod
  <2>4. grants' \in [Conglomerates -> [Periods -> Nat]]
    BY <1>4, <2>1, OnARow, GrantTyped DEF GrantPeriod
  <2> HIDE DEF d
  <2> QED BY <1>4, <2>2, <2>3, <2>4, CycleTyped, SameSubs DEF GrantPeriod
<1>5. CASE AdvancePeriod(p)
  <2>1. c.at = "upsert"  BY <1>5 DEF AdvancePeriod
  <2> DEFINE d == [c EXCEPT !.at = "next"]
  <2>2. d \in CycleCall /\ InPeriods(d)  BY <1>0, <2>1 DEF CycleCall, InPeriods
  <2>3. cycle' = [cycle EXCEPT ![p] = d]  BY <1>5 DEF AdvancePeriod
  <2>4. SubsTyped'
    <3>1. c.start <= today /\ c.row.plan \in Plans  BY <2>1, OnARow, PlansGiven DEF InPeriods
    <3> QED BY <1>5, <2>1, <3>1, OnARow, OneSub DEF AdvancePeriod
  <2> HIDE DEF d
  <2> QED BY <1>5, <2>2, <2>3, <2>4, CycleTyped DEF AdvancePeriod, Typed
<1>6. CASE CycleFails(p)
  BY <1>6, IdleInPeriods, CycleTyped, SameSubs DEF CycleFails, Typed
<1> QED BY <1>1, <1>2, <1>3, <1>4, <1>5, <1>6 DEF GrantCycle

\* A webhook call goes on, or is back at rest.
LEMMA StripeGoes ==
  ASSUME Typed, NEW d \in Deliveries, NEW c \in WebhookCall, delivery' = [delivery EXCEPT ![d] = c],
         session' \in [Sessions -> CheckoutSession],
         \A s \in Sessions : /\ session'[s].kind = session[s].kind /\ session'[s].plan = session[s].plan
                             /\ session[s].status \in {"paid", "answered"} =>
                                 session'[s].status \in {"paid", "answered"},
         c.at # "idle" => session[c.session].status \in {"paid", "answered"},
         c.at \in {"ref", "activate"} => session[c.session].kind = "subscription"
  PROVE  StripeTyped'
<1>1. delivery \in [Deliveries -> WebhookCall]  BY DEF Typed, StripeTyped
<1>2. delivery' \in [Deliveries -> WebhookCall]
      /\ \A e \in Deliveries : delivery'[e] = IF e = d THEN c ELSE delivery[e]
  BY <1>1
<1>3. \A e \in Deliveries : delivery'[e].session \in Sessions  BY <1>2 DEF WebhookCall
<1>4. \A e \in Deliveries : delivery'[e].at # "idle" =>
    session'[delivery'[e].session].status \in {"paid", "answered"}
  BY <1>2, <1>3 DEF Typed, StripeTyped
<1>5. \A e \in Deliveries : delivery'[e].at \in {"ref", "activate"} =>
    session'[delivery'[e].session].kind = "subscription"
  BY <1>2, <1>3 DEF Typed, StripeTyped
<1>6. \A s \in Sessions : OfAPlan(s)'  BY DEF Typed, StripeTyped, OfAPlan
<1> QED BY <1>2, <1>4, <1>5, <1>6 DEF StripeTyped

\* A step of the webhook: a delivery or a session changes, with a credit or a subscription.
LEMMA DeliveryTyped ==
  ASSUME Typed, NEW d \in Deliveries, UNCHANGED <<today, grants, cycle, owner>>,
         credited' \in [Sessions -> Nat], SubsTyped', StripeTyped'
  PROVE  Typed'
BY DEF Typed, CyclesTyped, InPeriods, OwnersTyped

\* The steps of the webhook.
LEMMA WebhookTyped ==
  ASSUME Typed, NEW d \in Deliveries, Webhook(d) \/ DeliveryFails(d) PROVE Typed'
<1> DEFINE c == delivery[d]
           s == c.session
<1>0. /\ c \in WebhookCall /\ s \in Sessions /\ session \in [Sessions -> CheckoutSession]
      /\ c.at # "idle" => session[s].status \in {"paid", "answered"}
      /\ c.at \in {"ref", "activate"} => session[s].kind = "subscription"
  BY DEF Typed, StripeTyped, WebhookCall
<1>1. ASSUME NEW at \in {"activate", "wallet", "insert", "answer"}, c.at # "idle",
             at = "activate" => session[s].kind = "subscription",
             delivery' = [delivery EXCEPT ![d].at = at], UNCHANGED session
      PROVE  StripeTyped'
  <2> DEFINE e == [c EXCEPT !.at = at]
  <2>1. e \in WebhookCall /\ e.session = s /\ e.at = at  BY <1>0 DEF WebhookCall
  <2>2. delivery' = [delivery EXCEPT ![d] = e]  BY <1>1
  <2> HIDE DEF e
  <2> QED BY <1>0, <1>1, <2>1, <2>2, StripeGoes
<1>2. ASSUME delivery' = [delivery EXCEPT ![d] = IdleDelivery],
             session' = session \/ session' = [session EXCEPT ![s].status = "answered"]
      PROVE  StripeTyped'
  <2>1. session' \in [Sessions -> CheckoutSession]  BY <1>0, <1>2 DEF CheckoutSession
  <2>2. \A x \in Sessions : /\ session'[x].kind = session[x].kind /\ session'[x].plan = session[x].plan
                            /\ session[x].status \in {"paid", "answered"} =>
                                session'[x].status \in {"paid", "answered"}
    BY <1>0, <1>2 DEF CheckoutSession
  <2>3. IdleDelivery \in WebhookCall /\ IdleDelivery.at = "idle"  BY RestTyped DEF IdleDelivery
  <2> HIDE DEF IdleDelivery
  <2> QED BY <1>2, <2>1, <2>2, <2>3, StripeGoes
<1>3. CASE LookUpActivation(d)
  <2>1. StripeTyped'  BY <1>0, <1>1, <1>3 DEF LookUpActivation
  <2> QED BY <1>3, <2>1, SameSubs, DeliveryTyped DEF LookUpActivation, Typed
<1>4. CASE Activate(d)
  <2>1. StripeTyped'  BY <1>1, <1>4 DEF Activate
  <2>2. session[s].g \in Conglomerates /\ session[s].plan \in Plans
    BY <1>0, <1>4 DEF Activate, CheckoutSession, Typed, StripeTyped, OfAPlan
  <2>3. today \in Days /\ today <= today  BY PlansGiven DEF Typed, Days
  <2>4. SubsTyped'  BY <1>0, <1>4, <2>2, <2>3, OneSub DEF Activate
  <2> QED BY <1>4, <2>1, <2>4, DeliveryTyped DEF Activate, Typed
<1>5. CASE LookUpRef(d)
  <2>1. StripeTyped'  BY <1>1, <1>5 DEF LookUpRef
  <2> QED BY <1>5, <2>1, SameSubs, DeliveryTyped DEF LookUpRef, Typed
<1>6. CASE CreditWallet(d)
  <2>1. StripeTyped'  BY <1>1, <1>6 DEF CreditWallet
  <2>2. credited' \in [Sessions -> Nat]  BY <1>0, <1>6 DEF CreditWallet, Typed
  <2> QED BY <1>6, <2>1, <2>2, SameSubs, DeliveryTyped DEF CreditWallet
<1>7. CASE AnswerStripe(d)
  <2>1. StripeTyped'  BY <1>2, <1>7 DEF AnswerStripe
  <2> QED BY <1>7, <2>1, SameSubs, DeliveryTyped DEF AnswerStripe, Typed
<1>8. CASE DeliveryFails(d)
  <2>1. StripeTyped'  BY <1>2, <1>8 DEF DeliveryFails
  <2> QED BY <1>8, <2>1, SameSubs, DeliveryTyped DEF DeliveryFails, Typed
<1> QED BY <1>3, <1>4, <1>5, <1>6, <1>7, <1>8 DEF Webhook

\* A session opened at Stripe,
LEMMA CheckoutTyped ==
  ASSUME Typed, NEW s \in Sessions, NEW g \in Conglomerates, NEW kind \in {"topup", "subscription"},
         NEW plan \in Plans \cup {"builder"}, kind = "subscription" => plan \in Plans,
         Checkout(s, g, kind, plan)
  PROVE  Typed'
<1> DEFINE x == [status |-> "open", kind |-> kind, g |-> g, plan |-> plan]
<1>1. x \in CheckoutSession /\ session \in [Sessions -> CheckoutSession]
  BY DEF CheckoutSession, Typed, StripeTyped
<1>2. session' = [session EXCEPT ![s] = x] /\ session[s].status = "none" /\ delivery' = delivery
  BY DEF Checkout
<1>3. x.kind = "subscription" => x.plan \in Plans  OBVIOUS
<1> HIDE DEF x
<1>4. session' \in [Sessions -> CheckoutSession] /\ \A y \in Sessions : session'[y]
    = IF y = s THEN x ELSE session[y]
  BY <1>1, <1>2
<1>5. delivery \in [Deliveries -> WebhookCall]  BY DEF Typed, StripeTyped
<1>6. \A d \in Deliveries : delivery[d].at # "idle" =>
    session'[delivery[d].session] = session[delivery[d].session]
  <2>1. \A d \in Deliveries : delivery[d].at # "idle" => delivery[d].session # s
    BY <1>2 DEF Typed, StripeTyped
  <2>2. \A d \in Deliveries : delivery[d].session \in Sessions  BY <1>5 DEF WebhookCall
  <2> QED BY <1>4, <2>1, <2>2
<1>7. \A y \in Sessions : OfAPlan(y)'  BY <1>3, <1>4 DEF Typed, StripeTyped, OfAPlan
<1>8. StripeTyped'
  BY <1>2, <1>4, <1>5, <1>6, <1>7 DEF Typed, StripeTyped
<1> QED BY <1>8 DEF Checkout, Typed, CyclesTyped, InPeriods, OwnersTyped, SubsTyped

\* paid and delivered.
LEMMA OutsideTyped ==
  ASSUME Typed, NEW s \in Sessions, Pay(s) \/ \E d \in Deliveries : Deliver(d, s)
  PROVE  Typed'
<1>0. session \in [Sessions -> CheckoutSession] /\ delivery \in [Deliveries -> WebhookCall]
  BY DEF Typed, StripeTyped
<1>1. CASE Pay(s)
  <2>1. session' \in [Sessions -> CheckoutSession]  BY <1>0, <1>1 DEF Pay, CheckoutSession
  <2>2. \A x \in Sessions : /\ session'[x].kind = session[x].kind /\ session'[x].plan = session[x].plan
                            /\ session[x].status \in {"paid", "answered"} =>
                                session'[x].status \in {"paid", "answered"}
    BY <1>0, <1>1 DEF Pay, CheckoutSession
  <2>3. \A d \in Deliveries : delivery[d].session \in Sessions  BY <1>0 DEF WebhookCall
  <2>4. \A y \in Sessions : OfAPlan(y)'  BY <2>2 DEF Typed, StripeTyped, OfAPlan
  <2>5. StripeTyped'  BY <1>0, <1>1, <2>1, <2>2, <2>3, <2>4 DEF Pay, Typed, StripeTyped
  <2> QED BY <1>1, <2>5 DEF Pay, Typed, CyclesTyped, InPeriods, OwnersTyped, SubsTyped
<1>2. ASSUME NEW d \in Deliveries, Deliver(d, s) PROVE Typed'
  <2> DEFINE c == [at |-> IF session[s].kind = "topup" THEN "wallet" ELSE "ref", session |-> s]
  <2>1. /\ c \in WebhookCall /\ c.session = s
        /\ c.at \in {"ref", "activate"} => session[s].kind = "subscription"
    BY <1>0 DEF WebhookCall, CheckoutSession
  <2>2. delivery' = [delivery EXCEPT ![d] = c] /\ session[s].status \in {"paid", "answered"}
      /\ session' = session
    BY <1>2 DEF Deliver
  <2> HIDE DEF c
  <2>3. StripeTyped'  BY <1>0, <2>1, <2>2, StripeGoes
  <2> QED BY <1>2, <2>3, SameSubs, DeliveryTyped DEF Deliver, Typed
<1> QED BY <1>1, <1>2

\* The next day.
LEMMA MidnightTyped == ASSUME Typed, Midnight PROVE Typed'
<1>1. today \in Days /\ today < MaxDay /\ today' = today + 1 /\ MaxDay \in Nat
      /\ UNCHANGED <<sub, grants, credited, cycle, owner, session, delivery>>
  BY PlansGiven DEF Midnight, Typed
<1>2. today' \in Days /\ \A n \in Days : n <= today => n <= today'  BY <1>1 DEF Days
<1>3. CyclesTyped'
  <2>1. \A p \in Cycles : cycle[p] \in CycleCall /\ InPeriods(cycle[p])  BY DEF Typed, CyclesTyped
  <2>2. ASSUME NEW p \in Cycles PROVE InPeriods(cycle[p])'
    <3>1. cycle[p].now \in Days /\ cycle[p].start \in Days /\ \A r \in cycle[p].todo : r.start \in Days
      BY <2>1 DEF CycleCall, ActiveRow
    <3> QED BY <1>1, <1>2, <2>1, <3>1 DEF InPeriods
  <2> QED BY <1>1, <2>2 DEF Typed, CyclesTyped
<1>4. OwnersTyped'
  <2>1. \A o \in Owners : owner[o].now \in Days /\ owner[o].now <= today
      BY DEF Typed, OwnersTyped, OwnerCalls
  <2> QED BY <1>1, <1>2, <2>1 DEF Typed, OwnersTyped
<1>5. SubsTyped'  BY <1>1 DEF Typed, SubsTyped, Days
<1>6. StripeTyped'  BY <1>1 DEF Typed, StripeTyped, OfAPlan
<1> QED BY <1>1, <1>2, <1>3, <1>4, <1>5, <1>6 DEF Typed

\* Every step keeps the types.
LEMMA NextTyped == ASSUME Typed, [Next]_vars PROVE Typed'
<1>1. CASE UNCHANGED vars
  BY <1>1 DEF vars, Typed, CyclesTyped, InPeriods, OwnersTyped, SubsTyped, StripeTyped, OfAPlan
<1>2. ASSUME NEW s \in Sessions, NEW g \in Conglomerates,
             Checkout(s, g, "topup", "builder")
                 \/ \E plan \in Recurring : Checkout(s, g, "subscription", plan)
      PROVE  Typed'
  BY <1>2, CheckoutTyped, PlansGiven
<1> QED BY <1>1, <1>2, OwnerCallTyped, GrantCycleTyped, OutsideTyped, WebhookTyped, MidnightTyped DEF Next

----------------------------------------------------------------------------
(* One grant per period, one credit per Stripe event.                      *)

\* Where nothing is inserted and no call joins those about to insert, nothing changes.
LEMMA NoNewGrant ==
  ASSUME NEW g \in Conglomerates, NEW k \in Periods, GrantApart(g, k), grants'[g][k] = grants[g][k],
         GrantingCycles(g, k)' \subseteq GrantingCycles(g, k),
         GrantingOwners(g, k)' \subseteq GrantingOwners(g, k)
  PROVE  GrantApart(g, k)'
BY DEF GrantApart

\* The same of the credits.
LEMMA NoNewCredit ==
  ASSUME NEW s \in Sessions, CreditApart(s), credited'[s] = credited[s],
      Inserting(s)' \subseteq Inserting(s)
  PROVE  CreditApart(s)'
BY DEF CreditApart

\* Every step but those of the calls that grant.
LEMMA GrantsElsewhere ==
  ASSUME ApartInv, UNCHANGED grants, raced \subseteq raced',
         \A p \in Cycles : cycle'[p].at = "grant" => cycle'[p] = cycle[p],
         \A o \in Owners : owner'[o].at = "grant" => owner'[o] = owner[o]
  PROVE  \A g \in Conglomerates, k \in Periods : <<g, k>> \notin raced' => GrantApart(g, k)'
<1> SUFFICES ASSUME NEW g \in Conglomerates, NEW k \in Periods, <<g, k>> \notin raced'
    PROVE GrantApart(g, k)'
  OBVIOUS
<1>1. GrantApart(g, k)  BY DEF ApartInv
<1>2. GrantingCycles(g, k)' \subseteq GrantingCycles(g, k)
    /\ GrantingOwners(g, k)' \subseteq GrantingOwners(g, k)
  BY DEF GrantingCycles, GrantingOwners
<1> QED BY <1>1, <1>2, NoNewGrant

\* Every step but those of the deliveries that credit.
LEMMA CreditsElsewhere ==
  ASSUME ApartInv, UNCHANGED credited, raced \subseteq raced',
         \A d \in Deliveries : delivery'[d].at = "insert" => delivery'[d] = delivery[d]
  PROVE  \A s \in Sessions : s \notin raced' => CreditApart(s)'
<1> SUFFICES ASSUME NEW s \in Sessions, s \notin raced' PROVE CreditApart(s)'
  OBVIOUS
<1>1. CreditApart(s)  BY DEF ApartInv
<1>2. Inserting(s)' \subseteq Inserting(s)  BY DEF Inserting
<1> QED BY <1>1, <1>2, NoNewCredit

\* A noted race stays noted.
LEMMA RacesStay == ASSUME NEW g, NEW k, NoteRace(g, k) PROVE raced \subseteq raced'
BY DEF NoteRace

\* subscribe looks for its period's grant before it joins those that insert it.
LEMMA OwnerApart ==
  ASSUME Typed, ApartInv, NEW o \in Owners, OwnerCall(o) PROVE ApartInv'
<1> DEFINE h == owner[o].g
           i == OwnersKey(o)
<1>0. h \in Conglomerates /\ i \in Periods /\ owner \in [Owners -> OwnerCalls]
  BY OwnersKeyTyped DEF Typed, OwnersTyped
<1>1. UNCHANGED <<cycle, credited, delivery>> /\ \A q \in Owners : q # o => owner'[q] = owner[q]
  BY <1>0 DEF OwnerCall, Subscribe, StoreSubscription, LookUpFirstGrant, FirstGrant, SubscribeFails
<1>2. ASSUME UNCHANGED grants, raced \subseteq raced', owner'[o].at # "grant" PROVE ApartInv'
  BY <1>1, <1>2, GrantsElsewhere, CreditsElsewhere DEF ApartInv
<1>3. ASSUME NEW g \in Conglomerates, NEW plan \in Plans, Subscribe(o, g, plan) PROVE ApartInv'
  BY <1>0, <1>2, <1>3 DEF Subscribe
<1>4. CASE StoreSubscription(o)
  <2>1. owner'[o].at = "check"  BY <1>0, <1>4 DEF StoreSubscription, OwnerCalls
  <2> QED BY <1>2, <1>4, <2>1 DEF StoreSubscription
<1>5. CASE SubscribeFails(o)
  BY <1>0, <1>2, <1>5 DEF SubscribeFails, IdleOwner
<1>6. CASE FirstGrant(o)
  <2>1. owner'[o].at # "grant" /\ owner[o].at = "grant" /\ raced' = raced
      BY <1>0, <1>6 DEF FirstGrant, IdleOwner
  <2>2. /\ grants'[h][i] = grants[h][i] + 1
        /\ \A g \in Conglomerates, k \in Periods : <<g, k>> # <<h, i>> => grants'[g][k] = grants[g][k]
    BY <1>0, <1>6, GrantTyped DEF FirstGrant
  <2> HIDE DEF h, i
  <2>3. ASSUME NEW g \in Conglomerates, NEW k \in Periods, <<g, k>> \notin raced' PROVE GrantApart(g, k)'
    <3>1. GrantApart(g, k)  BY <2>1, <2>3 DEF ApartInv
    <3>2. /\ GrantingCycles(g, k)' = GrantingCycles(g, k)
          /\ GrantingOwners(g, k)' \subseteq GrantingOwners(g, k) \ {o}
      BY <1>1, <2>1 DEF GrantingCycles, GrantingOwners
    <3>3. CASE <<g, k>> # <<h, i>>  BY <2>2, <3>1, <3>2, <3>3, NoNewGrant
    <3>4. CASE g = h /\ k = i
      <4>1. o \in GrantingOwners(g, k)  BY <2>1, <3>4 DEF GrantingOwners, OwnersKey, h, i
      <4>2. grants[g][k] = 0 /\ GrantingOwners(g, k) \subseteq {o}  BY <3>1, <4>1 DEF GrantApart
      <4>3. GrantingCycles(g, k) = {}  BY <3>1, <4>1 DEF GrantApart
      <4>4. GrantingCycles(g, k)' = {} /\ GrantingOwners(g, k)' = {} /\ grants'[g][k] = 1
        BY <2>2, <3>2, <3>4, <4>2, <4>3
      <4> QED BY <4>4 DEF GrantApart
    <3> QED BY <3>3, <3>4
  <2> QED BY <1>1, <2>1, <2>3, CreditsElsewhere DEF ApartInv
<1>7. CASE LookUpFirstGrant(o)
  <2>1. CASE hasGrant(h, i)
    <3>1. owner' = [owner EXCEPT ![o] = IdleOwner] /\ UNCHANGED <<raced, grants>>
      BY <1>7, <2>1 DEF LookUpFirstGrant
    <3> QED BY <1>0, <1>2, <3>1 DEF IdleOwner
  <2>2. CASE ~hasGrant(h, i)
    <3>1. owner' = [owner EXCEPT ![o].at = "grant"] /\ NoteRace(h, i) /\ UNCHANGED grants
      BY <1>7, <2>2 DEF LookUpFirstGrant
    <3>2. owner'[o].at = "grant" /\ owner'[o].g = h /\ periodKey(owner'[o].plan, owner'[o].now) = i
      BY <1>0, <3>1 DEF OwnersKey, OwnerCalls
    <3>3. grants[h][i] = 0  BY <1>0, <2>2 DEF hasGrant, Typed
    <3>4. raced \subseteq raced'  BY <3>1, RacesStay
    <3> HIDE DEF h, i
    <3>5. ASSUME NEW g \in Conglomerates, NEW k \in Periods, <<g, k>> \notin raced' PROVE GrantApart(g, k)'
      <4>1. GrantApart(g, k)  BY <3>4, <3>5 DEF ApartInv
      <4>2. GrantingCycles(g, k)' = GrantingCycles(g, k)  BY <1>1 DEF GrantingCycles
      <4>3. CASE ~(g = h /\ k = i)
        <5>1. GrantingOwners(g, k)' \subseteq GrantingOwners(g, k)
          BY <1>1, <3>2, <4>3 DEF GrantingOwners
        <5> QED BY <3>1, <4>1, <4>2, <5>1, NoNewGrant
      <4>4. CASE g = h /\ k = i
        <5>1. GrantingCycles(g, k) = {} /\ GrantingOwners(g, k) = {}
          BY <3>1, <3>5, <4>4 DEF NoteRace
        <5>2. GrantingOwners(g, k)' \subseteq {o}  BY <1>1, <5>1 DEF GrantingOwners
        <5>3. grants'[g][k] = 0  BY <3>1, <3>3, <4>4
        <5>4. GrantingCycles(g, k)' = {}  BY <4>2, <5>1
        <5> QED BY <5>2, <5>3, <5>4 DEF GrantApart
      <4> QED BY <4>3, <4>4
    <3> QED BY <1>1, <3>4, <3>5, CreditsElsewhere DEF ApartInv
  <2> QED BY <2>1, <2>2
<1> QED BY <1>3, <1>4, <1>5, <1>6, <1>7 DEF OwnerCall

\* So does the grant cycle, for every period it advances to.
LEMMA CycleApart ==
  ASSUME Typed, ApartInv, NEW p \in Cycles, GrantCycle(p) PROVE ApartInv'
<1> DEFINE c == cycle[p]
<1>0. cycle \in [Cycles -> CycleCall] /\ c \in CycleCall  BY DEF Typed, CyclesTyped
<1>1. UNCHANGED <<owner, credited, delivery>> /\ \A q \in Cycles : q # p => cycle'[q] = cycle[q]
  BY <1>0 DEF GrantCycle, ListActive, NextSubscription, NextPeriod, GrantPeriod, AdvancePeriod, CycleFails
<1>2. ASSUME UNCHANGED grants, raced \subseteq raced', cycle'[p].at # "grant" PROVE ApartInv'
  BY <1>1, <1>2, GrantsElsewhere, CreditsElsewhere DEF ApartInv
<1>3. CASE ListActive(p)
  <2>1. cycle'[p].at = "next"  BY <1>0, <1>3 DEF ListActive, IdleCycle
  <2> QED BY <1>2, <1>3, <2>1 DEF ListActive
<1>4. CASE NextSubscription(p)
  <2>1. cycle'[p].at # "grant"
    <3>1. CASE c.todo = {}  BY <1>0, <1>4, <3>1 DEF NextSubscription, IdleCycle
    <3>2. CASE c.todo # {}
      <4>1. PICK r \in c.todo : cycle' = [cycle EXCEPT ![p].at = "elapsed", ![p].todo = @ \ {r},
                                                       ![p].row = r, ![p].start = r.start]
        BY <1>4, <3>2 DEF NextSubscription
      <4>2. cycle'[p].at = "elapsed"  BY <1>0, <4>1 DEF CycleCall
      <4> QED BY <4>2
    <3> QED BY <3>1, <3>2
  <2> QED BY <1>2, <1>4, <2>1 DEF NextSubscription
<1>5. CASE AdvancePeriod(p)
  <2>1. cycle'[p].at = "next"  BY <1>0, <1>5 DEF AdvancePeriod, CycleCall
  <2> QED BY <1>2, <1>5, <2>1 DEF AdvancePeriod
<1>6. CASE CycleFails(p)
  BY <1>0, <1>2, <1>6 DEF CycleFails, IdleCycle
<1>7. CASE GrantPeriod(p)
  <2> DEFINE h == c.row.g
             i == periodKey(c.row.plan, c.start)
  <2>1. c.at = "grant" /\ raced' = raced /\ cycle'[p].at = "elapsed"
    BY <1>0, <1>7 DEF GrantPeriod, CycleCall
  <2>0. h \in Conglomerates /\ i \in Periods  BY <2>1, OnARow
  <2>2. /\ grants'[h][i] = grants[h][i] + 1
        /\ \A g \in Conglomerates, k \in Periods : <<g, k>> # <<h, i>> => grants'[g][k] = grants[g][k]
    BY <1>7, <2>0, GrantTyped DEF GrantPeriod
  <2> HIDE DEF h, i
  <2>3. ASSUME NEW g \in Conglomerates, NEW k \in Periods, <<g, k>> \notin raced' PROVE GrantApart(g, k)'
    <3>1. GrantApart(g, k)  BY <2>1, <2>3 DEF ApartInv
    <3>2. /\ GrantingOwners(g, k)' = GrantingOwners(g, k)
          /\ GrantingCycles(g, k)' \subseteq GrantingCycles(g, k) \ {p}
      BY <1>1, <2>1 DEF GrantingCycles, GrantingOwners
    <3>3. CASE <<g, k>> # <<h, i>>  BY <2>2, <3>1, <3>2, <3>3, NoNewGrant
    <3>4. CASE g = h /\ k = i
      <4>1. p \in GrantingCycles(g, k)  BY <2>1, <3>4 DEF GrantingCycles, h, i
      <4>2. grants[g][k] = 0 /\ GrantingOwners(g, k) = {} /\ GrantingCycles(g, k) \subseteq {p}
        BY <3>1, <4>1 DEF GrantApart
      <4>3. GrantingCycles(g, k)' = {} /\ GrantingOwners(g, k)' = {} /\ grants'[g][k] = 1
        BY <2>2, <3>2, <3>4, <4>2
      <4> QED BY <4>3 DEF GrantApart
    <3> QED BY <3>3, <3>4
  <2> QED BY <1>1, <2>1, <2>3, CreditsElsewhere DEF ApartInv
<1>8. CASE NextPeriod(p)
  <2> DEFINE next == addMonth(c.start)
             h == c.row.g
             i == periodKey(c.row.plan, next)
  <2>1. c.at = "elapsed" /\ UNCHANGED grants  BY <1>8 DEF NextPeriod
  <2>2. CASE cycle' = [cycle EXCEPT ![p].start = next, ![p].at = "grant"] /\ NoteRace(h, i)
             /\ ~hasGrant(h, i) /\ next <= c.now
    <3>1. cycle'[p].at = "grant" /\ cycle'[p].row = c.row /\ cycle'[p].start = next
      BY <1>0, <2>2 DEF CycleCall
    <3>2. next \in Days
      <4>1. c.start \in Days /\ c.now \in Days  BY <1>0 DEF CycleCall
      <4>2. c.start \in 1..MaxDay /\ c.now \in 1..MaxDay /\ MaxDay \in Nat  BY <4>1, PlansGiven DEF Days
      <4>3. next \in Nat /\ next > c.start  BY <4>2, AMonthOn
      <4> HIDE DEF next
      <4> QED BY <2>2, <4>2, <4>3 DEF Days
    <3>3. h \in Conglomerates /\ i \in Periods
      <4>1. h \in Conglomerates /\ c.row.plan \in Plans  BY <2>1, OnARow, PlansGiven
      <4> HIDE DEF next
      <4> QED BY <3>2, <4>1, PlansGiven
    <3>4. grants[h][i] = 0  BY <2>2, <3>3 DEF hasGrant, Typed
    <3>5. raced \subseteq raced' /\ NoteRace(h, i)  BY <2>2, RacesStay
    <3>6. cycle'[p].row.g = h /\ periodKey(cycle'[p].row.plan, cycle'[p].start) = i  BY <3>1
    <3> HIDE DEF h, i
    <3>7. ASSUME NEW g \in Conglomerates, NEW k \in Periods, <<g, k>> \notin raced' PROVE GrantApart(g, k)'
      <4>1. GrantApart(g, k)  BY <3>5, <3>7 DEF ApartInv
      <4>2. GrantingOwners(g, k)' = GrantingOwners(g, k)  BY <1>1 DEF GrantingOwners
      <4>3. CASE ~(g = h /\ k = i)
        <5>1. GrantingCycles(g, k)' \subseteq GrantingCycles(g, k)
          BY <1>1, <3>6, <4>3 DEF GrantingCycles
        <5> QED BY <2>1, <4>1, <4>2, <5>1, NoNewGrant
      <4>4. CASE g = h /\ k = i
        <5>1. GrantingCycles(g, k) = {} /\ GrantingOwners(g, k) = {}
          BY <3>5, <3>7, <4>4 DEF NoteRace
        <5>2. GrantingCycles(g, k)' \subseteq {p}  BY <1>1, <5>1 DEF GrantingCycles
        <5>3. grants'[g][k] = 0  BY <2>1, <3>4, <4>4
        <5>4. GrantingOwners(g, k)' = {}  BY <4>2, <5>1
        <5> QED BY <5>2, <5>3, <5>4 DEF GrantApart
      <4> QED BY <4>3, <4>4
    <3> QED BY <1>1, <3>5, <3>7, CreditsElsewhere DEF ApartInv
  <2>3. CASE cycle' = [cycle EXCEPT ![p].start = next] /\ UNCHANGED raced
    <3>1. cycle'[p].at = "elapsed"  BY <1>0, <2>1, <2>3 DEF CycleCall
    <3> QED BY <1>2, <2>1, <2>3, <3>1
  <2>4. CASE cycle' = [cycle EXCEPT ![p].at = IF c.start > c.row.start THEN "upsert" ELSE "next"]
      /\ UNCHANGED raced
    <3>1. cycle'[p].at \in {"upsert", "next"}  BY <1>0, <2>4 DEF CycleCall
    <3> QED BY <1>2, <2>1, <2>4, <3>1
  <2> QED BY <1>8, <2>2, <2>3, <2>4 DEF NextPeriod
<1> QED BY <1>3, <1>4, <1>5, <1>6, <1>7, <1>8 DEF GrantCycle

\* So does the webhook, for the event it credits.
LEMMA WebhookApart ==
  ASSUME Typed, ApartInv, NEW d \in Deliveries, Webhook(d) \/ DeliveryFails(d) PROVE ApartInv'
<1> DEFINE x == delivery[d].session
<1>0. delivery \in [Deliveries -> WebhookCall] /\ x \in Sessions  BY DEF Typed, StripeTyped, WebhookCall
<1>1. UNCHANGED <<owner, cycle, grants>> /\ \A e \in Deliveries : e # d => delivery'[e] = delivery[e]
  BY <1>0 DEF Webhook, LookUpActivation, Activate, LookUpRef, CreditWallet, AnswerStripe, DeliveryFails
<1>2. ASSUME UNCHANGED <<credited, raced>>, delivery'[d].at # "insert" PROVE ApartInv'
  BY <1>1, <1>2, GrantsElsewhere, CreditsElsewhere DEF ApartInv
<1>3. CASE LookUpActivation(d)
  <2>1. delivery'[d].at \in {"answer", "activate"}  BY <1>0, <1>3 DEF LookUpActivation, WebhookCall
  <2> QED BY <1>2, <1>3, <2>1 DEF LookUpActivation
<1>4. CASE Activate(d)
  <2>1. delivery'[d].at = "wallet"  BY <1>0, <1>4 DEF Activate, WebhookCall
  <2> QED BY <1>2, <1>4, <2>1 DEF Activate
<1>5. CASE AnswerStripe(d) \/ DeliveryFails(d)
  BY <1>0, <1>2, <1>5 DEF AnswerStripe, DeliveryFails, IdleDelivery
<1>6. CASE CreditWallet(d)
  <2>1. /\ delivery[d].at = "insert" /\ delivery'[d].at = "answer" /\ raced' = raced
        /\ credited'[x] = credited[x] + 1 /\ \A s \in Sessions : s # x => credited'[s] = credited[s]
    BY <1>0, <1>6 DEF CreditWallet, WebhookCall, Typed
  <2> HIDE DEF x
  <2>2. ASSUME NEW s \in Sessions, s \notin raced' PROVE CreditApart(s)'
    <3>1. CreditApart(s)  BY <2>1, <2>2 DEF ApartInv
    <3>2. Inserting(s)' \subseteq Inserting(s) \ {d}  BY <1>1, <2>1 DEF Inserting
    <3>3. CASE s # x  BY <2>1, <3>1, <3>2, <3>3, NoNewCredit
    <3>4. CASE s = x
      <4>1. d \in Inserting(s)  BY <2>1, <3>4 DEF Inserting, x
      <4>2. credited[s] = 0 /\ Inserting(s)' = {}  BY <3>1, <3>2, <4>1 DEF CreditApart
      <4>3. credited'[s] = 1  BY <2>1, <3>4, <4>2
      <4> QED BY <4>2, <4>3 DEF CreditApart
    <3> QED BY <3>3, <3>4
  <2> QED BY <1>1, <2>1, <2>2, GrantsElsewhere DEF ApartInv
<1>7. CASE LookUpRef(d)
  <2>1. CASE credited[x] > 0
    <3>1. delivery'[d].at = "answer" /\ UNCHANGED <<credited, raced>>
      BY <1>0, <1>7, <2>1 DEF LookUpRef, WebhookCall
    <3> QED BY <1>2, <3>1
  <2>2. CASE ~(credited[x] > 0)
    <3>1. /\ delivery'[d].at = "insert" /\ delivery'[d].session = x /\ UNCHANGED credited
          /\ raced' = IF {e \in Deliveries : delivery[e] = [at |-> "insert", session |-> x]} = {} THEN raced ELSE raced \cup {x}
      BY <1>0, <1>7, <2>2 DEF LookUpRef, WebhookCall
    <3>2. {e \in Deliveries : delivery[e] = [at |-> "insert", session |-> x]} = Inserting(x)
      BY <1>0 DEF Inserting, WebhookCall
    <3>3. raced \subseteq raced' /\ credited[x] = 0  BY <1>0, <2>2, <3>1 DEF Typed
    <3> HIDE DEF x
    <3>4. ASSUME NEW s \in Sessions, s \notin raced' PROVE CreditApart(s)'
      <4>1. CreditApart(s)  BY <3>3, <3>4 DEF ApartInv
      <4>2. CASE s # x
        <5>1. Inserting(s)' \subseteq Inserting(s)  BY <1>1, <3>1, <4>2 DEF Inserting
        <5> QED BY <3>1, <4>1, <5>1, NoNewCredit
      <4>3. CASE s = x
        <5>1. Inserting(s) = {}  BY <3>1, <3>2, <3>4, <4>3
        <5>2. Inserting(s)' \subseteq {d}  BY <1>1, <5>1 DEF Inserting
        <5> QED BY <3>1, <3>3, <4>3, <5>2 DEF CreditApart
      <4> QED BY <4>2, <4>3
    <3> QED BY <1>1, <3>3, <3>4, GrantsElsewhere DEF ApartInv
  <2> QED BY <2>1, <2>2
<1> QED BY <1>3, <1>4, <1>5, <1>6, <1>7 DEF Webhook

\* Every step keeps the grants and the credits apart.
LEMMA NextApart == ASSUME Typed, ApartInv, [Next]_vars PROVE ApartInv'
<1>1. ASSUME UNCHANGED <<grants, credited, cycle, owner, raced>>,
             \A d \in Deliveries : delivery'[d].at = "insert" => delivery'[d] = delivery[d]
      PROVE  ApartInv'
  BY <1>1, GrantsElsewhere, CreditsElsewhere DEF ApartInv
<1>2. CASE UNCHANGED vars  BY <1>1, <1>2 DEF vars
<1>3. CASE Midnight  BY <1>1, <1>3 DEF Midnight
<1>4. ASSUME NEW s \in Sessions, NEW g, NEW kind, NEW plan, Checkout(s, g, kind, plan) PROVE ApartInv'
  BY <1>1, <1>4 DEF Checkout
<1>5. ASSUME NEW s \in Sessions, Pay(s) PROVE ApartInv'
  BY <1>1, <1>5 DEF Pay
<1>6. ASSUME NEW s \in Sessions, NEW d \in Deliveries, Deliver(d, s) PROVE ApartInv'
  BY <1>1, <1>6 DEF Deliver, Typed, StripeTyped
<1> QED BY <1>2, <1>3, <1>4, <1>5, <1>6, OwnerApart, CycleApart, WebhookApart DEF Next

\* Nothing is granted at the start.
LEMMA BeginApart == ASSUME Init PROVE ApartInv
<1>1. ASSUME NEW g \in Conglomerates, NEW k \in Periods PROVE GrantApart(g, k)
  BY DEF Init, GrantApart, GrantingCycles, GrantingOwners, IdleCycle, IdleOwner
<1>2. ASSUME NEW s \in Sessions PROVE CreditApart(s)
  BY DEF Init, CreditApart, Inserting, IdleDelivery
<1> QED BY <1>1, <1>2 DEF ApartInv

\* That is what the runs check.
LEMMA ApartKept == ASSUME Typed, ApartInv PROVE GrantedOnceApart
BY DEF Typed, ApartInv, GrantApart, CreditApart, GrantedOnceApart

----------------------------------------------------------------------------
(* No subscription stands in a period nobody paid out.                     *)

OnItsWay(o, g, plan, day) == owner[o] \in [at : {"check", "grant"}, g : {g}, plan : {plan}, now : {day}]
PaidOut(g, r) ==
  r.plan \in Recurring =>
    \/ r.by = "period" /\ hasGrant(g, periodKey(r.plan, r.start))
    \/ r.by = "period" /\ <<g, r.plan, r.start>> \in cut
    \/ r.by = "period" /\ \E o \in Owners : OnItsWay(o, g, r.plan, r.start)
    \/ r.by \in Sessions /\ (credited[r.by] > 0 \/ session[r.by].status = "paid")

\* What is granted, credited or cut off stays so, and a payment is credited before its answer.
WalletsGrow ==
  /\ \A g \in Conglomerates, k \in Periods : grants[g][k] > 0 => grants'[g][k] > 0
  /\ cut \subseteq cut'
  /\ \A s \in Sessions : credited[s] > 0 => credited'[s] > 0
  /\ \A s \in Sessions : session[s].status = "paid" => credited'[s] > 0 \/ session'[s].status = "paid"

\* A subscribe call on its way to its grant goes on, has granted, or is cut off.
OwnersGoOn ==
  \A o \in Owners : owner[o].at \in {"check", "grant"} =>
    \/ owner'[o] = owner[o] \/ owner'[o] = [owner[o] EXCEPT !.at = "grant"]
    \/ grants'[owner[o].g][periodKey(owner[o].plan, owner[o].now)] > 0
    \/ <<owner[o].g, owner[o].plan, owner[o].now>> \in cut'

\* A period paid out, on its way or cut off is so after every step.
LEMMA StillPaidOut ==
  ASSUME Typed, WalletsGrow, OwnersGoOn, NEW g \in Conglomerates, NEW r,
         periodKey(r.plan, r.start) \in Periods, PaidOut(g, r)
  PROVE  PaidOut(g, r)'
<1> SUFFICES ASSUME r.plan \in Recurring PROVE PaidOut(g, r)'
  BY DEF PaidOut
<1>1. CASE r.by = "period" /\ hasGrant(g, periodKey(r.plan, r.start))
  BY <1>1 DEF WalletsGrow, hasGrant, PaidOut
<1>2. CASE r.by = "period" /\ <<g, r.plan, r.start>> \in cut
  BY <1>2 DEF WalletsGrow, PaidOut
<1>3. ASSUME r.by = "period", NEW o \in Owners, OnItsWay(o, g, r.plan, r.start) PROVE PaidOut(g, r)'
  <2>1. /\ owner[o].at \in {"check", "grant"} /\ owner[o].g = g
        /\ owner[o].plan = r.plan /\ owner[o].now = r.start
    BY <1>3 DEF OnItsWay
  <2>2. CASE owner'[o] = owner[o] \/ owner'[o] = [owner[o] EXCEPT !.at = "grant"]
    <3>1. OnItsWay(o, g, r.plan, r.start)'
      BY <1>3, <2>2 DEF OnItsWay
    <3> QED BY <1>3, <3>1 DEF PaidOut
  <2>3. CASE grants'[g][periodKey(r.plan, r.start)] > 0
    BY <1>3, <2>3 DEF PaidOut, hasGrant
  <2>4. CASE <<g, r.plan, r.start>> \in cut'
    BY <1>3, <2>4 DEF PaidOut
  <2> QED BY <2>1, <2>2, <2>3, <2>4 DEF OwnersGoOn
<1>4. CASE r.by \in Sessions /\ (credited[r.by] > 0 \/ session[r.by].status = "paid")
  BY <1>4 DEF WalletsGrow, PaidOut
<1> QED BY <1>1, <1>2, <1>3, <1>4 DEF PaidOut

\* A conglomerate whose subscription a step leaves alone.
LEMMA SubStays ==
  ASSUME Typed, PeriodCovered, WalletsGrow, OwnersGoOn, NEW g \in Conglomerates, sub'[g] = sub[g]
  PROVE  PaidOut(g, sub[g])'
<1> SUFFICES ASSUME NEW r, r = sub[g] PROVE PaidOut(g, r)'
  BY DEF PaidOut, OnItsWay
<1>1. PaidOut(g, r)  BY DEF PeriodCovered, PaidOut, OnItsWay
<1>2. CASE r.plan \in Plans
  <2>1. r.start \in 1..today /\ today \in 1..MaxDay /\ MaxDay \in Nat
    BY <1>2, PlansGiven DEF Typed, SubsTyped, Days
  <2>2. periodKey(r.plan, r.start) \in Periods  BY <1>2, <2>1, PlansGiven DEF Days
  <2> QED BY <1>1, <2>2, StillPaidOut
<1>3. CASE r.plan \notin Plans  BY <1>3, PlansGiven DEF PaidOut
<1> QED BY <1>2, <1>3

\* All subscriptions together.
LEMMA AllPaidOut == ASSUME \A g \in Conglomerates : PaidOut(g, sub[g])' PROVE PeriodCovered'
BY DEF PeriodCovered, PaidOut, OnItsWay

\* Steps that store no subscription.
LEMMA SubsStay ==
  ASSUME Typed, PeriodCovered, WalletsGrow, OwnersGoOn, sub' = sub PROVE PeriodCovered'
BY SubStays, AllPaidOut

\* Steps that store the subscription r of g.
LEMMA SubStored ==
  ASSUME Typed, PeriodCovered, WalletsGrow, OwnersGoOn, NEW g \in Conglomerates, NEW r,
         sub' = [sub EXCEPT ![g] = r], PaidOut(g, r)'
  PROVE  PeriodCovered'
<1>1. \A h \in Conglomerates : sub'[h] = IF h = g THEN r ELSE sub[h]  BY DEF Typed, SubsTyped
<1>2. PaidOut(g, sub[g])'
  <2>1. sub'[g] = r  BY <1>1
  <2> QED BY <2>1 DEF PaidOut, OnItsWay
<1>3. \A h \in Conglomerates : h # g => PaidOut(h, sub[h])'  BY <1>1, SubStays
<1> QED BY <1>2, <1>3, AllPaidOut

\* A run that a step leaves alone.
LEMMA CyclePassed ==
  ASSUME Typed, CoverInv, WalletsGrow, NEW p \in Cycles, cycle'[p] = cycle[p], Advanced(cycle'[p])
  PROVE  grants'[cycle'[p].row.g][periodKey(cycle'[p].row.plan, cycle'[p].start)] > 0
<1>1. cycle[p].at \in {"elapsed", "grant", "upsert"}  BY DEF Advanced
<1>2. cycle[p].row.g \in Conglomerates /\ periodKey(cycle[p].row.plan, cycle[p].start) \in Periods
  BY <1>1, OnARow
<1>3. hasGrant(cycle[p].row.g, periodKey(cycle[p].row.plan, cycle[p].start))  BY DEF CoverInv, Passed
<1> QED BY <1>2, <1>3 DEF hasGrant, WalletsGrow

\* The cycles, deliveries and sessions a step leaves alone.
LEMMA StillPassed ==
  ASSUME Typed, CoverInv, WalletsGrow,
         \A p \in Cycles : cycle'[p] = cycle[p] \/ ~Advanced(cycle'[p])
                           \/ grants'[cycle'[p].row.g][periodKey(cycle'[p].row.plan, cycle'[p].start)] > 0,
         \A d \in Deliveries : delivery'[d] = delivery[d] \/ delivery'[d].at # "answer"
                               \/ credited'[delivery'[d].session] > 0,
         \A s \in Sessions : session'[s] = session[s] \/ session'[s].status # "answered" \/ credited'[s] > 0
  PROVE  Passed'
<1>1. ASSUME NEW p \in Cycles, Advanced(cycle[p])'
      PROVE  hasGrant(cycle[p].row.g, periodKey(cycle[p].row.plan, cycle[p].start))'
  <2>1. Advanced(cycle'[p])  BY <1>1 DEF Advanced
  <2>2. grants'[cycle'[p].row.g][periodKey(cycle'[p].row.plan, cycle'[p].start)] > 0  BY <2>1, CyclePassed
  <2> QED BY <2>2 DEF hasGrant, periodKey
<1>2. \A d \in Deliveries : delivery'[d].at = "answer" => credited'[delivery'[d].session] > 0
  <2>1. \A d \in Deliveries : delivery[d].session \in Sessions  BY DEF Typed, StripeTyped, WebhookCall
  <2> QED BY <2>1 DEF CoverInv, Passed, WalletsGrow
<1>3. \A s \in Sessions : session'[s].status = "answered" => credited'[s] > 0
  BY DEF CoverInv, Passed, WalletsGrow
<1> QED BY <1>1, <1>2, <1>3 DEF Passed

\* The two parts of the invariant.
LEMMA CoverByParts == ASSUME PeriodCovered', Passed' PROVE CoverInv'
BY DEF CoverInv, Passed

\* subscribe stores a plan with its first grant on its way.
LEMMA OwnerCovers ==
  ASSUME Typed, CoverInv, NEW o \in Owners, OwnerCall(o) PROVE CoverInv'
<1>0. /\ owner \in [Owners -> OwnerCalls] /\ owner[o] \in OwnerCalls /\ PeriodCovered
      /\ owner[o].g \in Conglomerates /\ OwnersKey(o) \in Periods
  BY OwnersKeyTyped DEF Typed, OwnersTyped, CoverInv, Passed
<1>1. UNCHANGED <<cycle, credited, delivery, session>> /\ \A q \in Owners : q # o => owner'[q] = owner[q]
  BY <1>0 DEF OwnerCall, Subscribe, StoreSubscription, LookUpFirstGrant, FirstGrant, SubscribeFails
<1>2. WalletsGrow
  <2>1. cut \subseteq cut'
    BY DEF OwnerCall, Subscribe, StoreSubscription, LookUpFirstGrant, FirstGrant, SubscribeFails
  <2>2. UNCHANGED grants \/ grant(owner[o].g, OwnersKey(o))
    BY DEF OwnerCall, Subscribe, StoreSubscription, LookUpFirstGrant, FirstGrant, SubscribeFails
  <2>3. ASSUME NEW g \in Conglomerates, NEW k \in Periods, grants[g][k] > 0 PROVE grants'[g][k] > 0
    <3>1. CASE UNCHANGED grants  BY <2>3, <3>1
    <3>2. CASE grant(owner[o].g, OwnersKey(o))
      <4>1. grants[g][k] \in Nat  BY DEF Typed
      <4>2. grants'[g][k] \in {grants[g][k], grants[g][k] + 1}  BY <1>0, <3>2, GrantTyped
      <4> QED BY <2>3, <4>1, <4>2
    <3> QED BY <2>2, <3>1, <3>2
  <2> QED BY <1>1, <2>1, <2>3 DEF WalletsGrow
<1>3. Passed'  BY <1>1, <1>2, StillPassed
<1>4. ASSUME sub' = sub, OwnersGoOn PROVE CoverInv'
  BY <1>0, <1>2, <1>3, <1>4, SubsStay, CoverByParts
<1>5. ASSUME NEW g \in Conglomerates, NEW plan \in Plans, Subscribe(o, g, plan) PROVE CoverInv'
  <2>1. OwnersGoOn  BY <1>1, <1>5 DEF OwnersGoOn, Subscribe
  <2> QED BY <1>4, <1>5, <2>1 DEF Subscribe
<1>6. CASE StoreSubscription(o)
  <2> DEFINE r == [plan |-> owner[o].plan, start |-> owner[o].now, by |-> "period"]
             g == owner[o].g
  <2>1. OwnersGoOn  BY <1>1, <1>6 DEF OwnersGoOn, StoreSubscription
  <2>2. /\ owner'[o].at = "check" /\ owner'[o].g = g /\ owner'[o].plan = r.plan /\ owner'[o].now = r.start
        /\ owner'[o] \in OwnerCalls
    BY <1>0, <1>6 DEF StoreSubscription, OwnerCalls
  <2>3. sub' = [sub EXCEPT ![g] = r] /\ g \in Conglomerates /\ r.by = "period"
      BY <1>0, <1>6 DEF StoreSubscription
  <2> HIDE DEF r, g
  <2>4. \A x, y : x = g /\ y = r => PaidOut(x, y)'
    <3> SUFFICES ASSUME NEW x, NEW y, x = g, y = r PROVE PaidOut(x, y)'
      OBVIOUS
    <3>1. OnItsWay(o, x, y.plan, y.start)'  BY <2>2 DEF OnItsWay, OwnerCalls
    <3> QED BY <2>3, <3>1 DEF PaidOut
  <2>5. PeriodCovered'
    <3> SUFFICES ASSUME NEW x \in Conglomerates, NEW y, x = g, y = r PROVE PeriodCovered'
      BY <2>3
    <3> QED BY <1>0, <1>2, <2>1, <2>3, <2>4, SubStored
  <2> QED BY <1>3, <2>5, CoverByParts
<1>7. CASE LookUpFirstGrant(o)
  <2>1. CASE hasGrant(owner[o].g, OwnersKey(o))
    <3>1. grants'[owner[o].g][periodKey(owner[o].plan, owner[o].now)] > 0
      BY <1>7, <2>1 DEF LookUpFirstGrant, hasGrant, OwnersKey
    <3>2. OwnersGoOn  BY <1>1, <3>1 DEF OwnersGoOn
    <3> QED BY <1>4, <1>7, <3>2 DEF LookUpFirstGrant
  <2>2. CASE ~hasGrant(owner[o].g, OwnersKey(o))
    <3>1. owner'[o] = [owner[o] EXCEPT !.at = "grant"]  BY <1>0, <1>7, <2>2 DEF LookUpFirstGrant
    <3>2. OwnersGoOn  BY <1>1, <3>1 DEF OwnersGoOn
    <3> QED BY <1>4, <1>7, <3>2 DEF LookUpFirstGrant
  <2> QED BY <2>1, <2>2
<1>8. CASE FirstGrant(o)
  <2>1. grants[owner[o].g][OwnersKey(o)] \in Nat  BY <1>0 DEF Typed
  <2>2. grants'[owner[o].g][OwnersKey(o)] > 0  BY <1>0, <1>8, <2>1, GrantTyped DEF FirstGrant
  <2>3. OwnersGoOn  BY <1>1, <2>2 DEF OwnersGoOn, OwnersKey
  <2> QED BY <1>4, <1>8, <2>3 DEF FirstGrant
<1>9. CASE SubscribeFails(o)
  <2>1. owner[o].at \in {"check", "grant"} => <<owner[o].g, owner[o].plan, owner[o].now>> \in cut'
    BY <1>9 DEF SubscribeFails
  <2>2. OwnersGoOn  BY <1>1, <2>1 DEF OwnersGoOn
  <2> QED BY <1>4, <1>9, <2>2 DEF SubscribeFails
<1> QED BY <1>5, <1>6, <1>7, <1>8, <1>9 DEF OwnerCall

\* The grant cycle stores a period only after its grant.
LEMMA CycleCovers ==
  ASSUME Typed, CoverInv, NEW p \in Cycles, GrantCycle(p) PROVE CoverInv'
<1> DEFINE c == cycle[p]
<1>0. cycle \in [Cycles -> CycleCall] /\ c \in CycleCall /\ PeriodCovered
    BY DEF Typed, CyclesTyped, CoverInv, Passed
<1>1. UNCHANGED <<owner, credited, delivery, session, cut>> /\ \A q \in Cycles : q # p =>
    cycle'[q] = cycle[q]
  BY <1>0 DEF GrantCycle, ListActive, NextSubscription, NextPeriod, GrantPeriod, AdvancePeriod, CycleFails
<1>2. OwnersGoOn  BY <1>1 DEF OwnersGoOn
<1>3. ASSUME WalletsGrow,
             ~Advanced(cycle'[p]) \/ grants'[cycle'[p].row.g][periodKey(cycle'[p].row.plan, cycle'[p].start)] > 0
      PROVE  Passed'
  BY <1>1, <1>3, StillPassed
<1>4. ASSUME UNCHANGED grants PROVE WalletsGrow
  BY <1>1, <1>4 DEF WalletsGrow
<1>5. ASSUME UNCHANGED <<grants, sub>>,
             ~Advanced(cycle'[p]) \/ grants[cycle'[p].row.g][periodKey(cycle'[p].row.plan, cycle'[p].start)] > 0
      PROVE  CoverInv'
  BY <1>0, <1>2, <1>3, <1>4, <1>5, SubsStay, CoverByParts
<1>6. CASE ListActive(p)
  <2>1. cycle'[p].at = "next"  BY <1>0, <1>6 DEF ListActive, IdleCycle
  <2> QED BY <1>5, <1>6, <2>1 DEF ListActive, Advanced
<1>7. CASE NextSubscription(p)
  <2>1. ~Advanced(cycle'[p])
    <3>1. CASE c.todo = {}  BY <1>0, <1>7, <3>1 DEF NextSubscription, IdleCycle, Advanced
    <3>2. CASE c.todo # {}
      <4>1. PICK r \in c.todo : cycle' = [cycle EXCEPT ![p].at = "elapsed", ![p].todo = @ \ {r},
                                                       ![p].row = r, ![p].start = r.start]
        BY <1>7, <3>2 DEF NextSubscription
      <4>2. cycle'[p].row = r /\ cycle'[p].start = r.start /\ r.start \in Days
        BY <1>0, <4>1 DEF CycleCall, ActiveRow
      <4>3. ~(r.start < r.start)  BY <4>2, PlansGiven DEF Days
      <4> QED BY <4>2, <4>3 DEF Advanced
    <3> QED BY <3>1, <3>2
  <2> QED BY <1>5, <1>7, <2>1 DEF NextSubscription
<1>8. CASE NextPeriod(p)
  <2> DEFINE next == addMonth(c.start)
             i == periodKey(c.row.plan, next)
  <2>1. c.at = "elapsed" /\ UNCHANGED <<grants, sub>>  BY <1>8 DEF NextPeriod
  <2>2. CASE cycle' = [cycle EXCEPT ![p].start = next, ![p].at = "grant"]
    <3>1. cycle'[p].at = "grant"  BY <1>0, <2>2 DEF CycleCall
    <3> QED BY <1>5, <2>1, <3>1 DEF Advanced
  <2>3. CASE cycle' = [cycle EXCEPT ![p].start = next] /\ hasGrant(c.row.g, i)
    <3>1. cycle'[p].row = c.row /\ cycle'[p].start = next  BY <1>0, <2>3 DEF CycleCall
    <3>2. grants[c.row.g][i] > 0  BY <2>3 DEF hasGrant
    <3> HIDE DEF next
    <3>3. grants[cycle'[p].row.g][periodKey(cycle'[p].row.plan, cycle'[p].start)] > 0  BY <3>1, <3>2
    <3> QED BY <1>5, <2>1, <3>3
  <2>4. CASE cycle' = [cycle EXCEPT ![p].at = IF c.start > c.row.start THEN "upsert" ELSE "next"]
    <3>1. cycle'[p].row = c.row /\ cycle'[p].start = c.start  BY <1>0, <2>4 DEF CycleCall
    <3>2. cycle'[p].at = IF c.start > c.row.start THEN "upsert" ELSE "next"  BY <1>0, <2>4 DEF CycleCall
    <3>3. CASE c.row.start < c.start
      <4>1. Advanced(c)  BY <2>1, <3>3 DEF Advanced
      <4>2. grants[c.row.g][periodKey(c.row.plan, c.start)] > 0  BY <4>1 DEF CoverInv, Passed, hasGrant
      <4> QED BY <1>5, <2>1, <3>1, <4>2
    <3>4. CASE ~(c.row.start < c.start)
      <4>1. ~Advanced(cycle'[p])  BY <3>1, <3>4 DEF Advanced
      <4> QED BY <1>5, <2>1, <4>1
    <3> QED BY <3>3, <3>4
  <2> QED BY <1>8, <2>2, <2>3, <2>4 DEF NextPeriod
<1>9. CASE GrantPeriod(p)
  <2> DEFINE h == c.row.g
             i == periodKey(c.row.plan, c.start)
  <2>1. c.at = "grant" /\ cycle'[p].row = c.row /\ cycle'[p].start = c.start /\ sub' = sub /\ grant(h, i)
    BY <1>0, <1>9 DEF GrantPeriod, CycleCall
  <2>2. h \in Conglomerates /\ i \in Periods  BY <2>1, OnARow
  <2>3. grants'[cycle'[p].row.g][periodKey(cycle'[p].row.plan, cycle'[p].start)] = grants'[h][i]  BY <2>1
  <2>4. grants[h][i] \in Nat  BY <2>2 DEF Typed
  <2> HIDE DEF h, i
  <2>5. grants'[h][i] > 0  BY <2>1, <2>2, <2>4, GrantTyped
  <2>6. WalletsGrow
    <3>1. ASSUME NEW g \in Conglomerates, NEW k \in Periods, grants[g][k] > 0 PROVE grants'[g][k] > 0
      <4>1. grants'[g][k] = grants[g][k] \/ grants'[g][k] = grants'[h][i]  BY <2>1, <2>2, GrantTyped
      <4> QED BY <2>5, <3>1, <4>1
    <3> QED BY <1>1, <3>1 DEF WalletsGrow
  <2>7. Passed'  BY <1>3, <2>3, <2>5, <2>6
  <2> QED BY <1>0, <1>2, <2>1, <2>6, <2>7, SubsStay, CoverByParts
<1>10. CASE AdvancePeriod(p)
  <2> DEFINE r == [plan |-> c.row.plan, start |-> c.start, by |-> "period"]
             g == c.row.g
  <2>1. /\ c.at = "upsert" /\ cycle'[p].at = "next" /\ UNCHANGED grants
        /\ sub' = [sub EXCEPT ![g] = r] /\ r.by = "period"
    BY <1>0, <1>10 DEF AdvancePeriod, CycleCall
  <2>2. WalletsGrow /\ Passed'  BY <1>3, <1>4, <2>1 DEF Advanced
  <2>3. grants[g][periodKey(r.plan, r.start)] > 0
    <3>1. c.row.start < c.start  BY <2>1, OnARow DEF InPeriods
    <3>2. Advanced(c)  BY <2>1, <3>1 DEF Advanced
    <3> QED BY <3>2 DEF CoverInv, Passed, hasGrant
  <2>4. g \in Conglomerates  BY <2>1, OnARow
  <2> HIDE DEF r, g
  <2>5. PeriodCovered'
    <3> SUFFICES ASSUME NEW x \in Conglomerates, NEW y, x = g, y = r PROVE PeriodCovered'
      BY <2>4
    <3>1. PaidOut(x, y)'  BY <2>1, <2>3 DEF PaidOut, hasGrant
    <3> QED BY <1>0, <1>2, <2>1, <2>2, <3>1, SubStored
  <2> QED BY <2>2, <2>5, CoverByParts
<1>11. CASE CycleFails(p)
  BY <1>0, <1>5, <1>11 DEF CycleFails, IdleCycle, Advanced
<1> QED BY <1>6, <1>7, <1>8, <1>9, <1>10, <1>11 DEF GrantCycle

\* The webhook stores a plan for an event that is credited, or delivered again until it is.
LEMMA WebhookCovers ==
  ASSUME Typed, CoverInv, NEW d \in Deliveries, Webhook(d) \/ DeliveryFails(d) PROVE CoverInv'
<1> DEFINE x == delivery[d].session
<1>0. /\ delivery \in [Deliveries -> WebhookCall] /\ x \in Sessions /\ PeriodCovered
      /\ session \in [Sessions -> CheckoutSession] /\ \A s \in Sessions : credited[s] \in Nat
      /\ delivery[d].at # "idle" => session[x].status \in {"paid", "answered"}
  BY DEF Typed, StripeTyped, WebhookCall, CoverInv, Passed
<1>1. UNCHANGED <<owner, cycle, grants, cut>> /\ \A e \in Deliveries : e # d => delivery'[e] = delivery[e]
  BY <1>0 DEF Webhook, LookUpActivation, Activate, LookUpRef, CreditWallet, AnswerStripe, DeliveryFails
<1>2. OwnersGoOn  BY <1>1 DEF OwnersGoOn
<1>3. ASSUME UNCHANGED <<session, credited>> PROVE WalletsGrow
  BY <1>1, <1>3 DEF WalletsGrow
<1>4. ASSUME WalletsGrow, UNCHANGED session, delivery'[d].at # "answer"
    \/ credited'[delivery'[d].session] > 0
      PROVE  Passed'
  BY <1>1, <1>4, StillPassed
<1>5. ASSUME WalletsGrow, UNCHANGED <<sub, session>>, delivery'[d].at # "answer"
    \/ credited'[delivery'[d].session] > 0
      PROVE  CoverInv'
  BY <1>0, <1>2, <1>4, <1>5, SubsStay, CoverByParts
<1>6. CASE LookUpActivation(d)
  <2>1. /\ delivery'[d].session = x /\ UNCHANGED <<sub, session, credited>>
        /\ delivery'[d].at = "answer" => credited[x] > 0
    BY <1>0, <1>6 DEF LookUpActivation, WebhookCall, AlreadyActivated
  <2> HIDE DEF x
  <2> QED BY <1>3, <1>5, <2>1
<1>7. CASE Activate(d)
  <2> DEFINE r == [plan |-> session[x].plan, start |-> today, by |-> x]
             g == session[x].g
  <2>1. /\ delivery[d].at = "activate" /\ delivery'[d].at = "wallet" /\ UNCHANGED <<session, credited>>
        /\ sub' = [sub EXCEPT ![g] = r] /\ r.by = x
    BY <1>0, <1>7 DEF Activate, WebhookCall
  <2>2. WalletsGrow /\ Passed'  BY <1>3, <1>4, <2>1
  <2>3. credited[x] > 0 \/ session[x].status = "paid"  BY <1>0, <2>1 DEF CoverInv, Passed
  <2>4. g \in Conglomerates  BY <1>0 DEF CheckoutSession
  <2> HIDE DEF r, g, x
  <2>5. PeriodCovered'
    <3> SUFFICES ASSUME NEW z \in Conglomerates, NEW y, z = g, y = r PROVE PeriodCovered'
      BY <2>4
    <3>1. PaidOut(z, y)'  BY <1>0, <2>1, <2>3 DEF PaidOut
    <3> QED BY <1>0, <1>2, <2>1, <2>2, <3>1, SubStored
  <2> QED BY <2>2, <2>5, CoverByParts
<1>8. CASE LookUpRef(d)
  <2>1. /\ UNCHANGED <<sub, session, credited>> /\ delivery'[d].session = x
        /\ delivery'[d].at = "answer" => credited[x] > 0
    BY <1>0, <1>8 DEF LookUpRef, WebhookCall
  <2> HIDE DEF x
  <2> QED BY <1>3, <1>5, <2>1
<1>9. CASE CreditWallet(d)
  <2>1. /\ UNCHANGED <<sub, session>> /\ delivery'[d].session = x /\ credited'[x] > 0
        /\ \A s \in Sessions : s # x => credited'[s] = credited[s]
    BY <1>0, <1>9 DEF CreditWallet, WebhookCall, Typed
  <2> HIDE DEF x
  <2>2. WalletsGrow  BY <1>1, <2>1 DEF WalletsGrow
  <2> QED BY <1>5, <2>1, <2>2
<1>10. CASE AnswerStripe(d)
  <2>1. /\ delivery[d].at = "answer" /\ UNCHANGED <<sub, credited>> /\ delivery'[d].at = "idle"
        /\ \A s \in Sessions : s # x => session'[s] = session[s]
    BY <1>0, <1>10 DEF AnswerStripe, IdleDelivery
  <2>2. credited[x] > 0  BY <2>1 DEF CoverInv, Passed
  <2> HIDE DEF x
  <2>3. WalletsGrow  BY <1>1, <2>1, <2>2 DEF WalletsGrow
  <2>4. Passed'
    <3>1. \A s \in Sessions : session'[s] = session[s] \/ credited'[s] > 0  BY <2>1, <2>2
    <3>2. \A e \in Deliveries : delivery'[e] = delivery[e] \/ delivery'[e].at # "answer"  BY <1>1, <2>1
    <3> QED BY <1>1, <2>3, <3>1, <3>2, StillPassed
  <2> QED BY <1>0, <1>2, <2>1, <2>3, <2>4, SubsStay, CoverByParts
<1>11. CASE DeliveryFails(d)
  BY <1>0, <1>3, <1>5, <1>11 DEF DeliveryFails, IdleDelivery
<1> QED BY <1>6, <1>7, <1>8, <1>9, <1>10, <1>11 DEF Webhook

\* Every step keeps the periods covered.
LEMMA NextCovers == ASSUME Typed, CoverInv, [Next]_vars PROVE CoverInv'
<1>0. PeriodCovered  BY DEF CoverInv, Passed
<1>1. ASSUME UNCHANGED <<sub, grants, credited, cycle, owner, cut>>,
             \A s \in Sessions : session[s].status = "paid" => session'[s].status = "paid",
             \A s \in Sessions : session'[s] = session[s] \/ session'[s].status # "answered",
             \A d \in Deliveries : delivery'[d] = delivery[d] \/ delivery'[d].at # "answer"
      PROVE  CoverInv'
  <2>1. WalletsGrow /\ OwnersGoOn  BY <1>1 DEF WalletsGrow, OwnersGoOn
  <2>2. Passed'  BY <1>1, <2>1, StillPassed
  <2> QED BY <1>0, <1>1, <2>1, <2>2, SubsStay, CoverByParts
<1>2. CASE UNCHANGED vars  BY <1>1, <1>2 DEF vars
<1>3. CASE Midnight  BY <1>1, <1>3 DEF Midnight
<1>4. ASSUME NEW s \in Sessions, NEW g, NEW kind, NEW plan, Checkout(s, g, kind, plan) PROVE CoverInv'
  <2>1. session \in [Sessions -> CheckoutSession]  BY DEF Typed, StripeTyped
  <2>2. session[s].status = "none" /\ session'[s].status = "open" /\ \A y \in Sessions : y # s =>
      session'[y] = session[y]
    BY <1>4, <2>1 DEF Checkout
  <2> QED BY <1>1, <1>4, <2>2 DEF Checkout
<1>5. ASSUME NEW s \in Sessions, Pay(s) PROVE CoverInv'
  <2>1. session \in [Sessions -> CheckoutSession]  BY DEF Typed, StripeTyped
  <2>2. session'[s].status = "paid" /\ \A y \in Sessions : y # s => session'[y] = session[y]
    BY <1>5, <2>1 DEF Pay, CheckoutSession
  <2> QED BY <1>1, <1>5, <2>2 DEF Pay
<1>6. ASSUME NEW s \in Sessions, NEW d \in Deliveries, Deliver(d, s) PROVE CoverInv'
  <2>1. delivery \in [Deliveries -> WebhookCall]  BY DEF Typed, StripeTyped
  <2>2. delivery'[d].at \in {"wallet", "ref"} /\ \A e \in Deliveries : e # d => delivery'[e] = delivery[e]
    BY <1>6, <2>1 DEF Deliver
  <2> QED BY <1>1, <1>6, <2>2 DEF Deliver
<1> QED BY <1>2, <1>3, <1>4, <1>5, <1>6, OwnerCovers, CycleCovers, WebhookCovers DEF Next

\* Nobody has a plan at the start.
LEMMA BeginCovered == ASSUME Init PROVE CoverInv
<1>1. PeriodCovered  BY PlansGiven DEF Init, PeriodCovered, NoSub
<1> QED BY <1>1 DEF Init, CoverInv, Passed, Advanced, IdleCycle, IdleDelivery, NoSession

----------------------------------------------------------------------------
\* The types the runs check.
LEMMA TypesShown == ASSUME Typed PROVE TypeOK
<1>1. \A g \in Conglomerates : /\ sub[g].plan \in Plans \cup {"none"} /\ sub[g].start \in 0..MaxDay
                               /\ sub[g].by \in Sessions \cup {"period"}
  BY DEF Typed, SubsTyped, StoredSub
<1>2. ASSUME NEW p \in Cycles
      PROVE  /\ cycle[p].at \in {"idle", "next", "elapsed", "grant", "upsert"}
             /\ cycle[p].at \in {"grant", "upsert"} => cycle[p].start > cycle[p].row.start
             /\ cycle[p].start \in Days /\ cycle[p].start <= today
  <2>1. cycle[p] \in CycleCall /\ InPeriods(cycle[p])  BY DEF Typed, CyclesTyped
  <2> QED BY <2>1 DEF CycleCall, InPeriods
<1>3. \A o \in Owners : owner[o].at \in {"idle", "upsert", "check", "grant"}
  BY DEF Typed, OwnersTyped, OwnerCalls
<1>4. \A s \in Sessions : session[s].status \in {"none", "open", "paid", "answered"}
  BY DEF Typed, StripeTyped, CheckoutSession
<1>5. \A d \in Deliveries : delivery[d].at \in {"idle", "ref", "activate", "wallet", "insert", "answer"}
  BY DEF Typed, StripeTyped, WebhookCall
<1> QED BY <1>1, <1>2, <1>3, <1>4, <1>5 DEF TypeOK, Typed

\* A wallet gets one grant per period and one credit per payment, unless two calls looked before
\* either inserted, and no subscription stands in a period that was not paid out, is not on its way
\* and was not cut off by a failure (billing.ts, billing-checkout.ts).
THEOREM GrantsStayKept == Spec => []GrantsKept
<1>1. Init => Typed /\ ApartInv /\ CoverInv  BY BeginTyped, BeginApart, BeginCovered
<1>2. Typed /\ ApartInv /\ CoverInv /\ [Next]_vars => (Typed /\ ApartInv /\ CoverInv)'
  BY NextTyped, NextApart, NextCovers
<1>3. Typed /\ ApartInv /\ CoverInv => GrantsKept
  BY TypesShown, ApartKept DEF GrantsKept, CoverInv, Passed
<1> QED BY <1>1, <1>2, <1>3, PTL DEF Spec

----------------------------------------------------------------------------
(* The door: types.                                                        *)

\* What the door's constants are assumed to be.
LEMMA DoorGiven ==
  /\ IsFiniteSet(Requests) /\ Limit \in [Door!Tools -> Nat] /\ "create_company" \in Door!Tools
  /\ Accounts \subseteq Nat \ {Door!NoAccount}
<1>1. Door!IsFiniteSet(Requests) => IsFiniteSet(Requests)
  BY DEF Door!IsFiniteSet, IsFiniteSet
<1> QED BY <1>1, CustomerAccountsAssumption DEF Door!OwnersAssumption, Door!Tools, Door!NoAccount

OpenRequest == [at : {"idle", "hit", "count", "create", "store", "link"}, tool : Door!Tools \cup {"none"},
            of : Users \cup {"none"}, account : Accounts \cup {Door!NoAccount}]
PastRecord == [through : [Users -> [Door!Tools -> Nat]], broken : SUBSET Users, met : SUBSET Users,
          lost : SUBSET Accounts, faults : Nat]
Guarding(q) == q.at \in {"hit", "count"}
Banking(q) == q.at \in {"create", "store", "link"}

DoorTyped ==
  /\ congs \subseteq Users /\ owns \in [Companies -> Users \cup {"none"}]
  /\ hits \in [Users -> [Door!Tools -> Nat]] /\ past \in PastRecord
  /\ request \in [Requests -> OpenRequest]
  /\ account \in [Users -> Accounts \cup {Door!NoAccount}] /\ made \in [Users -> SUBSET Accounts]
  /\ links \in [Users -> SUBSET (Accounts \cup {Door!NoAccount})]
  /\ \A r \in Requests :
       /\ Guarding(request[r]) => request[r].tool \in Door!Tools /\ request[r].of \in Users
       /\ Banking(request[r]) => request[r].of \in Users
       /\ request[r].at = "store" => request[r].account \in Accounts

\* Requests that have left their row and not counted yet.
Counting(u, t) == {r \in Requests : request[r].at = "count" /\ request[r].of = u /\ request[r].tool = t}
RowEach(u, t) == past.through[u][t] + Cardinality(Counting(u, t)) <= hits[u][t]
SpendInv == Door!SpendGuarded /\ \A u \in Users, t \in Door!Tools : RowEach(u, t)

----------------------------------------------------------------------------
(* Types.                                                                  *)

\* A request at rest.
LEMMA IdleTyped == Door!Idle \in OpenRequest /\ ~Guarding(Door!Idle) /\ ~Banking(Door!Idle)
BY DEF Door!Idle, OpenRequest, Guarding, Banking

\* The types hold at the start.
LEMMA DoorOpens == ASSUME Door!Init PROVE DoorTyped
<1>1. request = [r \in Requests |-> Door!Idle]  BY DEF Door!Init
<1>2. past \in PastRecord  BY DEF Door!Init, PastRecord
<1> QED BY <1>1, <1>2, IdleTyped, DoorGiven DEF Door!Init, DoorTyped, Door!Idle

\* A step that changes one request, and neither companies nor accounts, keeps the types.
LEMMA OneRequest ==
  ASSUME DoorTyped, NEW r \in Requests, NEW q \in OpenRequest, request' = [request EXCEPT ![r] = q],
         Guarding(q) => q.tool \in Door!Tools /\ q.of \in Users, Banking(q) => q.of \in Users,
         q.at = "store" => q.account \in Accounts
  PROVE  /\ request' \in [Requests -> OpenRequest]
         /\ \A s \in Requests :
              /\ Guarding(request'[s]) => request'[s].tool \in Door!Tools /\ request'[s].of \in Users
              /\ Banking(request'[s]) => request'[s].of \in Users
              /\ request'[s].at = "store" => request'[s].account \in Accounts
<1>1. request' \in [Requests -> OpenRequest]  BY DEF DoorTyped
<1>2. \A s \in Requests : request'[s] = IF s = r THEN q ELSE request[s]  BY DEF DoorTyped
<1> QED BY <1>1, <1>2 DEF DoorTyped

\* The histories, and one fault more.
LEMMA FaultTyped == ASSUME DoorTyped PROVE past \in PastRecord /\ Door!Faulty(past) \in PastRecord
<1>1. past \in PastRecord  BY DEF DoorTyped
<1> QED BY <1>1 DEF Door!Faulty, PastRecord

\* The steps of the first sign-in,
LEMMA SignsTyped == ASSUME DoorTyped, NEW u \in Users, Door!Signs(u) PROVE DoorTyped'
<1>1. congs' \subseteq Users
  BY DEF DoorTyped, Door!Signs, Door!SignUp, Door!HookConglomerate, Door!HookMembership,
      Door!HookThrows, Door!HookGrant, Door!SignInAgain
<1>2. \/ UNCHANGED past \/ past' = Door!Faulty(past)
      \/ past' = [Door!Faulty(past) EXCEPT !.broken = @ \cup {u}]
  BY DEF Door!Signs, Door!SignUp, Door!HookConglomerate, Door!HookMembership, Door!HookThrows,
      Door!HookGrant, Door!SignInAgain
<1>3. past' \in PastRecord
  <2> DEFINE f == Door!Faulty(past)
  <2>1. past \in PastRecord /\ f \in PastRecord
    BY FaultTyped
  <2> HIDE DEF f
  <2>2. [f EXCEPT !.broken = @ \cup {u}] \in PastRecord
    BY <2>1 DEF PastRecord
  <2> QED BY <1>2, <2>1, <2>2 DEF f
<1> QED BY <1>1, <1>3 DEF DoorTyped, Door!Signs, Door!banking

\* of the guarded calls,
LEMMA GuardedTyped == ASSUME DoorTyped, NEW r \in Requests, Door!Guarded(r) PROVE DoorTyped'
<1> DEFINE q == request[r]
<1>0. q \in OpenRequest  BY DEF DoorTyped
<1>1. ASSUME NEW u \in Users, Door!PostCompany(u, r), UNCHANGED <<owns, hits, past>> PROVE DoorTyped'
  <2>1. PICK c \in congs : request' = [request EXCEPT ![r] = [Door!Idle EXCEPT !.at = "hit", !.tool = "create_company", !.of = c]]
    BY <1>1 DEF Door!PostCompany
  <2>2. [Door!Idle EXCEPT !.at = "hit", !.tool = "create_company", !.of = c] \in OpenRequest
    BY <2>1, DoorGiven DEF DoorTyped, OpenRequest, Door!Idle
  <2> QED BY <1>1, <2>1, <2>2, OneRequest, DoorGiven DEF DoorTyped, Door!Guarded, Door!signing,
      Door!banking, Guarding, Banking, Door!Idle
<1>2. ASSUME NEW u \in Users, Door!PostCall(u, r), UNCHANGED <<owns, hits, past>> PROVE DoorTyped'
  <2>1. PICK k \in Companies, t \in Door!Tools :
          /\ u = owns[k]
          /\ request' = [request EXCEPT ![r] = [Door!Idle EXCEPT !.at = "hit", !.tool = t, !.of = owns[k]]]
    BY <1>2 DEF Door!PostCall, Door!userCanAccessCompany, Door!userIsMemberOfConglomerate
  <2>2. [Door!Idle EXCEPT !.at = "hit", !.tool = t, !.of = owns[k]] \in OpenRequest
    BY <2>1 DEF DoorTyped, OpenRequest, Door!Idle
  <2> QED BY <1>2, <2>1, <2>2, OneRequest DEF DoorTyped, Door!Guarded, Door!signing, Door!banking,
      Guarding, Banking, Door!Idle
<1>3. CASE Door!RecordHit(r)
  <2>1. request' = [request EXCEPT ![r] = [q EXCEPT !.at = "count"]] /\ Guarding(q)
    BY <1>3, <1>0 DEF Door!RecordHit, Door!Goto, Guarding
  <2>2. [q EXCEPT !.at = "count"] \in OpenRequest  BY <1>0 DEF OpenRequest
  <2>3. q.tool \in Door!Tools /\ q.of \in Users  BY <2>1 DEF DoorTyped
  <2>4. hits' \in [Users -> [Door!Tools -> Nat]]  BY <1>3, <2>3 DEF DoorTyped, Door!RecordHit
  <2> QED BY <1>0, <1>3, <2>1, <2>2, <2>3, <2>4, OneRequest
          DEF DoorTyped, Door!RecordHit, Door!Guarded, Door!signing, Door!banking, Guarding, Banking,
              OpenRequest
<1>4. CASE Door!Admit(r) \/ Door!TooMany(r)
  <2>1. request' = [request EXCEPT ![r] = Door!Idle] /\ UNCHANGED hits /\ Guarding(q)
    BY <1>4 DEF Door!Admit, Door!TooMany, Door!Quit, Guarding
  <2>2. q.tool \in Door!Tools /\ q.of \in Users  BY <2>1 DEF DoorTyped
  <2>3. past' \in PastRecord
    <3>1. CASE Door!Admit(r)
      <4>1. past' = [past EXCEPT !.through[q.of][q.tool] = @ + 1]  BY <3>1 DEF Door!Admit
      <4>2. [past.through EXCEPT ![q.of][q.tool] = @ + 1] \in [Users -> [Door!Tools -> Nat]]
        BY <2>2, FaultTyped DEF PastRecord
      <4> QED BY <4>1, <4>2, FaultTyped DEF PastRecord
    <3>2. CASE Door!TooMany(r)  BY <3>2 DEF Door!TooMany, DoorTyped
    <3> QED BY <1>4, <3>1, <3>2
  <2>4. owns' \in [Companies -> Users \cup {"none"}]
    BY <1>4, <2>2 DEF Door!Admit, Door!TooMany, Door!Founded, DoorTyped
  <2> QED BY <2>1, <2>3, <2>4, IdleTyped, OneRequest DEF DoorTyped, Door!Guarded, Door!signing,
      Door!banking, Door!Idle
<1> QED BY <1>1, <1>2, <1>3, <1>4 DEF Door!Guarded

\* and of the onboarding.
LEMMA OnboardsTyped == ASSUME DoorTyped, NEW r \in Requests, Door!Onboards(r) PROVE DoorTyped'
<1> DEFINE q == request[r]
<1>0. q \in OpenRequest  BY DEF DoorTyped
<1>1. ASSUME NEW u \in Users, Door!LookUpAccount(u, r) PROVE DoorTyped'
  <2> DEFINE p == [Door!Idle EXCEPT !.at = IF Door!StoredAccount(u) = Door!NoAccount THEN "create" ELSE "link",
                               !.of = u, !.account = Door!StoredAccount(u)]
  <2>1. request' = [request EXCEPT ![r] = p]  BY <1>1 DEF Door!LookUpAccount
  <2>2. p \in OpenRequest  BY DEF DoorTyped, OpenRequest, Door!Idle, Door!StoredAccount
  <2>4. p.at \in {"create", "link"} /\ p.of = u  BY DEF Door!Idle
  <2>5. ~Guarding(p) /\ p.of \in Users /\ p.at # "store"  BY <2>4 DEF Guarding
  <2>3. past' \in PastRecord  BY <1>1 DEF Door!LookUpAccount, DoorTyped, PastRecord
  <2> HIDE DEF p
  <2> QED BY <1>1, <2>1, <2>2, <2>3, <2>5, OneRequest
          DEF DoorTyped, Door!LookUpAccount, Door!Onboards, Door!signing, Door!banking
<1>2. CASE Door!CreateAccount(r)
  <2>1. PICK a \in Accounts :
          /\ made' = [made EXCEPT ![q.of] = @ \cup {a}]
          /\ request' = [request EXCEPT ![r] = [q EXCEPT !.at = "store", !.account = a]]
    <3>1. PICK a \in Accounts \ UNION {made[u] : u \in Users} :
            /\ made' = [made EXCEPT ![q.of] = @ \cup {a}]
            /\ request' = [request EXCEPT ![r].at = "store", ![r].account = a]
      BY <1>2 DEF Door!CreateAccount
    <3>2. request' = [request EXCEPT ![r] = [q EXCEPT !.at = "store", !.account = a]]
      BY <3>1 DEF DoorTyped
    <3> QED BY <3>1, <3>2
  <2>2. [q EXCEPT !.at = "store", !.account = a] \in OpenRequest  BY <1>0, <2>1 DEF OpenRequest
  <2>3. q.of \in Users  BY <1>2 DEF Door!CreateAccount, DoorTyped, Banking
  <2>4. made' \in [Users -> SUBSET Accounts]  BY <2>1, <2>3 DEF DoorTyped
  <2> QED BY <1>0, <1>2, <2>1, <2>2, <2>3, <2>4, OneRequest
          DEF DoorTyped, Door!CreateAccount, Door!Onboards, Door!signing, Guarding, Banking, OpenRequest
<1>3. CASE Door!StoreAccount(r)
  <2>1. request' = [request EXCEPT ![r] = [q EXCEPT !.at = "link"]]
      BY <1>3 DEF Door!StoreAccount, Door!Goto
  <2>2. [q EXCEPT !.at = "link"] \in OpenRequest  BY <1>0 DEF OpenRequest
  <2>3. q.of \in Users  BY <1>3 DEF Door!StoreAccount, DoorTyped, Banking
  <2>4. account' \in [Users -> Accounts \cup {Door!NoAccount}]
      BY <1>0, <1>3 DEF Door!StoreAccount, DoorTyped, OpenRequest
  <2> QED BY <1>0, <1>3, <2>1, <2>2, <2>3, <2>4, OneRequest
          DEF DoorTyped, Door!StoreAccount, Door!Onboards, Door!signing, Guarding, Banking, OpenRequest
<1>4. CASE Door!SendLink(r) \/ Door!OnboardFails(r)
  <2>1. request' = [request EXCEPT ![r] = Door!Idle] /\ UNCHANGED <<account, made>>
    BY <1>4 DEF Door!SendLink, Door!OnboardFails, Door!Quit, Door!banking
  <2>2. past' \in PastRecord
    <3>1. CASE Door!SendLink(r)  BY <3>1 DEF Door!SendLink, DoorTyped
    <3>2. CASE Door!OnboardFails(r)
      <4>1. q.at = "store" => q.account \in Accounts  BY DEF DoorTyped
      <4>2. past' = [Door!Faulty(past) EXCEPT !.lost = IF q.at = "store" THEN @ \cup {q.account} ELSE @]
        BY <3>2 DEF Door!OnboardFails
      <4> QED BY <4>1, <4>2, FaultTyped DEF PastRecord
    <3> QED BY <1>4, <3>1, <3>2
  <2>3. links' \in [Users -> SUBSET (Accounts \cup {Door!NoAccount})]
    BY <1>0, <1>4 DEF Door!SendLink, Door!OnboardFails, DoorTyped, Door!banking, OpenRequest
  <2> QED BY <2>1, <2>2, <2>3, IdleTyped, OneRequest DEF DoorTyped, Door!Onboards, Door!signing, Door!Idle
<1> QED BY <1>1, <1>2, <1>3, <1>4 DEF Door!Onboards

\* Every step keeps the types.
LEMMA DoorStays == ASSUME DoorTyped, [Door!Next]_(Door!vars) PROVE DoorTyped'
<1>1. CASE UNCHANGED Door!vars  BY <1>1 DEF Door!vars, DoorTyped
<1> QED BY <1>1, SignsTyped, GuardedTyped, OnboardsTyped DEF Door!Next

----------------------------------------------------------------------------
(* The spend guard.                                                        *)

\* They are requests, so finitely many.
LEMMA CountingFinite ==
  ASSUME NEW u, NEW t
  PROVE  IsFiniteSet(Counting(u, t)) /\ Cardinality(Counting(u, t)) \in Nat
<1>1. Counting(u, t) \subseteq Requests  BY DEF Counting
<1> QED BY <1>1, FS_Subset, FS_CardinalityType, DoorGiven

\* A step that changes one request that does not count, and makes it none that counts.
LEMMA QuietSpend ==
  ASSUME DoorTyped, SpendInv, UNCHANGED hits, past'.through = past.through,
         NEW r \in Requests, NEW q, q.at # "count", request[r].at # "count",
         request' = [request EXCEPT ![r] = q] \/ UNCHANGED request
  PROVE  SpendInv'
<1>1. \A s \in Requests : s # r => request'[s] = request[s]  BY DEF DoorTyped
<1>2. request'[r].at # "count"  BY DEF DoorTyped
<1>3. ASSUME NEW u \in Users, NEW t \in Door!Tools PROVE Counting(u, t)' = Counting(u, t)
  BY <1>1, <1>2 DEF Counting
<1> QED BY <1>3 DEF SpendInv, Door!SpendGuarded, RowEach

\* A row is recorded: the request counts it next.
LEMMA RecordKeeps == ASSUME DoorTyped, SpendInv, NEW r \in Requests, Door!RecordHit(r) PROVE SpendInv'
<1> DEFINE c == request[r].of
           k == request[r].tool
<1>1. request[r].at = "hit" /\ c \in Users /\ k \in Door!Tools  BY DEF Door!RecordHit, DoorTyped, Guarding
<1>2. hits' = [hits EXCEPT ![c][k] = @ + 1] /\ UNCHANGED past  BY DEF Door!RecordHit
<1>3. /\ request'[r].at = "count" /\ request'[r].of = c /\ request'[r].tool = k
      /\ \A s \in Requests : s # r => request'[s] = request[s]
  BY DEF Door!RecordHit, Door!Goto, DoorTyped, OpenRequest
<1>4. ASSUME NEW u \in Users, NEW t \in Door!Tools PROVE RowEach(u, t)'
  <2>0. /\ RowEach(u, t) /\ hits[u][t] \in Nat /\ past.through[u][t] \in Nat
        /\ hits'[u][t] = IF u = c /\ t = k THEN hits[u][t] + 1 ELSE hits[u][t]
    BY <1>1, <1>2 DEF SpendInv, DoorTyped, PastRecord
  <2>1. CASE u = c /\ t = k
    <3>1. Counting(u, t)' = Counting(u, t) \cup {r} /\ r \notin Counting(u, t)
      BY <2>1, <1>1, <1>3 DEF Counting
    <3>2. Cardinality(Counting(u, t)') = Cardinality(Counting(u, t)) + 1
      BY <3>1, CountingFinite, FS_AddElement
    <3> QED BY <2>0, <2>1, <3>2, <1>2, CountingFinite DEF RowEach
  <2>2. CASE ~(u = c /\ t = k)
    <3>1. Counting(u, t)' = Counting(u, t)  BY <2>2, <1>1, <1>3 DEF Counting
    <3> QED BY <2>0, <2>2, <3>1, <1>2 DEF RowEach
  <2> QED BY <2>1, <2>2
<1> QED BY <1>2, <1>4 DEF SpendInv, Door!SpendGuarded

\* Who counts below the limit has a row that no call that went through has.
LEMMA CountKeeps ==
  ASSUME DoorTyped, SpendInv, NEW r \in Requests, Door!Admit(r) \/ Door!TooMany(r) PROVE SpendInv'
<1> DEFINE c == request[r].of
           k == request[r].tool
<1>1. request[r].at = "count" /\ c \in Users /\ k \in Door!Tools
  BY DEF Door!Admit, Door!TooMany, DoorTyped, Guarding
<1>2. /\ UNCHANGED hits
      /\ request'[r] = Door!Idle /\ \A s \in Requests : s # r => request'[s] = request[s]
  BY DEF Door!Admit, Door!TooMany, Door!Quit, DoorTyped
<1>3. ASSUME NEW u \in Users, NEW t \in Door!Tools
    PROVE past.through[u][t] \in Nat /\ hits[u][t] \in Nat /\ Limit[t] \in Nat
  BY DoorGiven DEF DoorTyped, PastRecord
<1>4. \/ UNCHANGED past
      \/ /\ hits[c][k] <= Limit[k]
         /\ past'.through = [past.through EXCEPT ![c][k] = @ + 1]
  <2>1. CASE Door!TooMany(r)  BY <2>1 DEF Door!TooMany
  <2>2. CASE Door!Admit(r)
    BY <2>2, FaultTyped DEF Door!Admit, Door!UnderLimit, PastRecord
  <2> QED BY <2>1, <2>2
<1>5. ASSUME NEW u \in Users, NEW t \in Door!Tools
      PROVE  \/ past'.through[u][t] = past.through[u][t]
             \/ /\ u = c /\ t = k /\ hits[u][t] <= Limit[t]
                /\ past'.through[u][t] = past.through[u][t] + 1
  BY <1>1, <1>4, FaultTyped DEF PastRecord
<1>6. ASSUME NEW u \in Users, NEW t \in Door!Tools
      PROVE  RowEach(u, t)' /\ past'.through[u][t] <= Limit[t]
  <2>0. RowEach(u, t) /\ past.through[u][t] <= Limit[t]  BY DEF SpendInv, Door!SpendGuarded
  <2>1. CASE u = c /\ t = k
    <3>1. Counting(u, t)' = Counting(u, t) \ {r} /\ r \in Counting(u, t)
      BY <2>1, <1>1, <1>2 DEF Counting, Door!Idle
    <3>2. /\ Cardinality(Counting(u, t)') = Cardinality(Counting(u, t)) - 1
          /\ Cardinality(Counting(u, t)') \in Nat /\ Cardinality(Counting(u, t)) \in Nat
      BY <3>1, CountingFinite, FS_RemoveElement, FS_CardinalityType
    <3> QED BY <1>2, <1>3, <1>5, <2>0, <3>2 DEF RowEach
  <2>2. CASE ~(u = c /\ t = k)
    <3>1. Counting(u, t)' = Counting(u, t)  BY <2>2, <1>1, <1>2 DEF Counting, Door!Idle
    <3> QED BY <1>2, <1>5, <2>0, <2>2, <3>1 DEF RowEach
  <2> QED BY <2>1, <2>2
<1> QED BY <1>6 DEF SpendInv, Door!SpendGuarded

\* Every step keeps a row for each call.
LEMMA StepSpends == ASSUME DoorTyped, SpendInv, [Door!Next]_(Door!vars) PROVE SpendInv'
<1>1. CASE UNCHANGED Door!vars
  <2>1. \A u \in Users, t \in Door!Tools : Counting(u, t)' = Counting(u, t)  BY <1>1 DEF Door!vars, Counting
  <2> QED BY <1>1, <2>1 DEF Door!vars, SpendInv, Door!SpendGuarded, RowEach
<1>2. ASSUME NEW u \in Users, Door!Signs(u) PROVE SpendInv'
  <2>1. UNCHANGED <<hits, request>>  BY <1>2 DEF Door!Signs
  <2>2. \/ UNCHANGED past \/ past' = Door!Faulty(past)
        \/ past' = [Door!Faulty(past) EXCEPT !.broken = @ \cup {u}]
    BY <1>2 DEF Door!Signs, Door!SignUp, Door!HookConglomerate, Door!HookMembership, Door!HookThrows,
        Door!HookGrant, Door!SignInAgain
  <2>3. past'.through = past.through  BY <2>2, FaultTyped DEF Door!Faulty, PastRecord
  <2>4. \A v \in Users, t \in Door!Tools : Counting(v, t)' = Counting(v, t)  BY <2>1 DEF Counting
  <2> QED BY <2>1, <2>3, <2>4 DEF SpendInv, Door!SpendGuarded, RowEach
<1>3. ASSUME NEW r \in Requests, Door!Guarded(r) PROVE SpendInv'
  <2>1. ASSUME NEW u \in Users, Door!PostCompany(u, r) \/ Door!PostCall(u, r),
      UNCHANGED <<owns, hits, past>>
        PROVE  SpendInv'
    <3> DEFINE p(t, c) == [Door!Idle EXCEPT !.at = "hit", !.tool = t, !.of = c]
    <3>1. \E t, c : request' = [request EXCEPT ![r] = p(t, c)]
      <4>1. CASE Door!PostCompany(u, r)  BY <4>1 DEF Door!PostCompany
      <4>2. CASE Door!PostCall(u, r)  BY <4>2 DEF Door!PostCall
      <4> QED BY <2>1, <4>1, <4>2
    <3>2. \A t, c : p(t, c).at # "count"  BY DEF Door!Idle
    <3>3. request[r].at # "count"  BY <2>1 DEF Door!PostCompany, Door!PostCall
    <3> HIDE DEF p
    <3>4. PICK q : q.at # "count" /\ request' = [request EXCEPT ![r] = q]
      BY <3>1, <3>2
    <3>5. UNCHANGED hits /\ past'.through = past.through  BY <2>1
    <3> QED BY <3>3, <3>4, <3>5, QuietSpend
  <2> QED BY <1>3, <2>1, RecordKeeps, CountKeeps DEF Door!Guarded
<1>4. ASSUME NEW r \in Requests, Door!Onboards(r) PROVE SpendInv'
  <2>1. UNCHANGED hits /\ request[r].at # "count"
    BY <1>4 DEF Door!Onboards, Door!LookUpAccount, Door!CreateAccount, Door!StoreAccount, Door!SendLink,
        Door!OnboardFails
  <2>2. past'.through = past.through
    BY <1>4, FaultTyped
    DEF Door!Onboards, Door!LookUpAccount, Door!CreateAccount, Door!StoreAccount, Door!SendLink,
        Door!OnboardFails, Door!Faulty, PastRecord
  <2>3. /\ request'[r].at # "count"
        /\ \A s \in Requests : s # r => request'[s] = request[s]
    <3>1. ASSUME NEW u \in Users, Door!LookUpAccount(u, r) PROVE <2>3!1 /\ <2>3!2
      BY <3>1 DEF Door!LookUpAccount, DoorTyped, Door!Idle
    <3>2. CASE Door!CreateAccount(r) \/ Door!StoreAccount(r) \/ Door!SendLink(r) \/ Door!OnboardFails(r)
      BY <3>2 DEF Door!CreateAccount, Door!StoreAccount, Door!SendLink, Door!OnboardFails, Door!Goto,
          Door!Quit, DoorTyped, OpenRequest, Door!Idle
    <3> QED BY <1>4, <3>1, <3>2 DEF Door!Onboards
  <2>4. \A v \in Users, t \in Door!Tools : Counting(v, t)' = Counting(v, t)  BY <2>1, <2>3 DEF Counting
  <2> QED BY <2>1, <2>2, <2>4 DEF SpendInv, Door!SpendGuarded, RowEach
<1> QED BY <1>1, <1>2, <1>3, <1>4 DEF Door!Next

\* No call at the start.
LEMMA InitSpends == ASSUME Door!Init PROVE SpendInv
<1>1. \A u \in Users, t \in Door!Tools : Counting(u, t) = {} /\ past.through[u][t] = 0 /\ hits[u][t] = 0
  BY DEF Door!Init, Door!Idle, Counting
<1>0. Cardinality({}) = 0  BY FS_EmptySet
<1>2. ASSUME NEW u \in Users, NEW t \in Door!Tools PROVE RowEach(u, t)
  <2>1. Cardinality(Counting(u, t)) = 0 /\ past.through[u][t] = 0 /\ hits[u][t] = 0  BY <1>0, <1>1
  <2> QED BY <2>1 DEF RowEach
<1>3. Door!SpendGuarded  BY <1>1, DoorGiven DEF Door!SpendGuarded
<1> QED BY <1>2, <1>3 DEF SpendInv

\* llmSpendLimit records a call before it counts, per account and not per company: however many
\* calls arrive at once, no more of a kind go through than its ceiling (index.ts:43-52).
THEOREM SpendStaysGuarded == Door!Spec => []Door!SpendGuarded
<1>1. Door!Init => DoorTyped /\ SpendInv  BY DoorOpens, InitSpends
<1>2. DoorTyped /\ SpendInv /\ [Door!Next]_(Door!vars) => (DoorTyped /\ SpendInv)'  BY DoorStays, StepSpends
<1>3. SpendInv => Door!SpendGuarded  BY DEF SpendInv
<1> QED BY <1>1, <1>2, <1>3, PTL DEF Door!Spec

----------------------------------------------------------------------------
(* The account at Stripe.                                                  *)

\* Accounts made for u that are about to be stored.
Unstored(u) == {request[r].account : r \in {s \in Requests : request[s].of = u /\ request[s].at = "store"}}
Linking(u) == {r \in Requests : request[r].of = u /\ request[r].at = "link"}
BankOf(u) ==
  /\ \A r, s \in Door!Onboarding(u) : r = s
  /\ account[u] # Door!NoAccount => Door!Onboarding(u) = {}
  /\ made[u] \ past.lost \subseteq {account[u]} \cup Unstored(u)
  /\ \A r \in Linking(u) : account[u] # Door!NoAccount /\ request[r].account = account[u]
  /\ \A a \in links[u] : a = account[u] /\ a # Door!NoAccount
BankInv == \A u \in Users \ past.met : BankOf(u)

\* Whoever's requests, account, accounts and links a step leaves alone stays in order.
LEMMA OtherOwner ==
  ASSUME NEW u \in Users, BankOf(u), account'[u] = account[u], made'[u] = made[u], links'[u] = links[u],
         past.lost \subseteq past'.lost,
         \A r \in Requests : \/ request'[r] = request[r]
                             \/ /\ ~(request[r].of = u /\ Banking(request[r]))
                                /\ ~(request'[r].of = u /\ Banking(request'[r]))
  PROVE  BankOf(u)'
<1>1. Door!Onboarding(u)' = Door!Onboarding(u) /\ Linking(u)' = Linking(u)
      /\ \A r \in Linking(u) : request'[r] = request[r]
  BY DEF Door!Onboarding, Linking, Banking
<1>2. Unstored(u)' = Unstored(u)  BY DEF Unstored, Banking
<1> QED BY <1>1, <1>2 DEF BankOf

\* The first to look finds nothing and is the one onboarding; later ones find what it stored.
LEMMA LookUpKeeps ==
  ASSUME DoorTyped, BankInv, NEW u \in Users, NEW r \in Requests, Door!LookUpAccount(u, r) PROVE BankInv'
<1>1. /\ request'[r].of = u /\ request'[r].account = account[u]
      /\ request'[r].at = IF account[u] = Door!NoAccount THEN "create" ELSE "link"
      /\ \A s \in Requests : s # r => request'[s] = request[s]
      /\ request[r].at = "idle" /\ UNCHANGED <<account, made, links>>
  BY DEF Door!LookUpAccount, Door!StoredAccount, Door!banking, DoorTyped, Door!Idle
<1>2. /\ past'.lost = past.lost
      /\ past'.met = IF account[u] = Door!NoAccount
          /\ Door!Onboarding(u) # {} THEN past.met \cup {u} ELSE past.met
  BY FaultTyped DEF Door!LookUpAccount, Door!StoredAccount, PastRecord
<1>3. ASSUME NEW v \in Users \ past'.met PROVE BankOf(v)'
  <2>1. v \notin past.met /\ BankOf(v)  BY <1>2, <1>3 DEF BankInv
  <2>2. CASE v # u
    BY <1>1, <1>2, <2>1, <2>2, OtherOwner DEF Banking
  <2>3. CASE v = u /\ account[u] = Door!NoAccount
    <3>1. Door!Onboarding(u) = {}  BY <1>2, <1>3, <2>3
    <3>2. Door!Onboarding(u)' = {r} /\ Linking(u)' = Linking(u) /\ r \notin Linking(u)
      BY <1>1, <2>3, <3>1 DEF Door!Onboarding, Linking
    <3>3. Unstored(u)' = {} /\ Unstored(u) = {}
      BY <1>1, <2>3, <3>1 DEF Unstored, Door!Onboarding
    <3> QED BY <1>1, <1>2, <2>1, <2>3, <3>2, <3>3 DEF BankOf
  <2>4. CASE v = u /\ account[u] # Door!NoAccount
    <3>1. Door!Onboarding(u)' = Door!Onboarding(u) /\ Linking(u)' = Linking(u) \cup {r}
      BY <1>1, <2>4 DEF Door!Onboarding, Linking
    <3>2. Unstored(u)' = Unstored(u)
      BY <1>1, <2>4 DEF Unstored
    <3> QED BY <1>1, <1>2, <2>1, <2>4, <3>1, <3>2 DEF BankOf, Linking
  <2> QED BY <2>2, <2>3, <2>4
<1> QED BY <1>3 DEF BankInv

\* Stripe makes its account,
LEMMA CreateKeeps == ASSUME DoorTyped, BankInv, NEW r \in Requests, Door!CreateAccount(r) PROVE BankInv'
<1> DEFINE u == request[r].of
<1>1. request[r].at = "create" /\ u \in Users /\ UNCHANGED <<account, links, past>>
  BY DEF Door!CreateAccount, DoorTyped, Banking
<1>2. PICK a : /\ made' = [made EXCEPT ![u] = @ \cup {a}]
               /\ request' = [request EXCEPT ![r].at = "store", ![r].account = a]
  BY DEF Door!CreateAccount
<1>3. /\ request'[r].at = "store" /\ request'[r].of = u /\ request'[r].account = a
      /\ \A s \in Requests : s # r => request'[s] = request[s]
  BY <1>2 DEF DoorTyped, OpenRequest
<1>4. ASSUME NEW v \in Users \ past'.met PROVE BankOf(v)'
  <2>1. BankOf(v)  BY <1>1, <1>4 DEF BankInv
  <2>2. CASE v # u
    <3>1. made'[v] = made[v]  BY <1>2, <2>2 DEF DoorTyped
    <3> QED BY <1>1, <1>3, <2>1, <2>2, <3>1, OtherOwner DEF Banking
  <2>3. CASE v = u
    <3>1. Door!Onboarding(v)' = Door!Onboarding(v) /\ Linking(v)' = Linking(v)
          /\ \A s \in Linking(v) : request'[s] = request[s]
      BY <1>1, <1>3, <2>3 DEF Door!Onboarding, Linking
    <3>2. a \in Unstored(v)' /\ Unstored(v) \subseteq Unstored(v)'  BY <1>1, <1>3, <2>3 DEF Unstored
    <3>3. made'[v] = made[v] \cup {a}  BY <1>1, <1>2, <2>3 DEF DoorTyped
    <3>4. made'[v] \ past'.lost \subseteq {account'[v]} \cup Unstored(v)'
      BY <1>1, <2>1, <2>3, <3>2, <3>3 DEF BankOf
    <3> QED BY <1>1, <2>1, <2>3, <3>1, <3>4 DEF BankOf
  <2> QED BY <2>2, <2>3
<1> QED BY <1>4 DEF BankInv

\* which is stored as the only one,
LEMMA StoreKeeps ==
  ASSUME DoorTyped, BankInv, NEW r \in Requests, Door!StoreAccount(r) PROVE BankInv'
<1> DEFINE u == request[r].of
           a == request[r].account
<1>1. /\ request[r].at = "store" /\ u \in Users /\ a # Door!NoAccount
      /\ account' = [account EXCEPT ![u] = a] /\ UNCHANGED <<made, links, past>>
  BY DoorGiven DEF Door!StoreAccount, DoorTyped, Banking
<1>2. /\ request'[r].at = "link" /\ request'[r].of = u /\ request'[r].account = a
      /\ \A s \in Requests : s # r => request'[s] = request[s]
  BY DEF Door!StoreAccount, Door!Goto, DoorTyped, OpenRequest
<1>3. ASSUME NEW v \in Users \ past'.met PROVE BankOf(v)'
  <2>1. BankOf(v)  BY <1>1, <1>3 DEF BankInv
  <2>2. CASE v # u
    <3>1. account'[v] = account[v]  BY <1>1, <2>2 DEF DoorTyped
    <3> QED BY <1>1, <1>2, <2>1, <2>2, <3>1, OtherOwner DEF Banking
  <2>3. CASE v = u
    <3>1. r \in Door!Onboarding(v)  BY <1>1, <2>3 DEF Door!Onboarding
    <3>2. Door!Onboarding(v) = {r} /\ account[u] = Door!NoAccount  BY <2>1, <2>3, <3>1 DEF BankOf
    <3>3. Linking(v) = {} /\ links[u] = {}  BY <2>1, <2>3, <3>2 DEF BankOf
    <3>4. Door!Onboarding(v)' = {} /\ Linking(v)' = {r}
      BY <1>2, <2>3, <3>2, <3>3 DEF Door!Onboarding, Linking
    <3>5. Unstored(v) = {a}  BY <1>1, <2>3, <3>2 DEF Unstored, Door!Onboarding
    <3>6. Door!NoAccount \notin made[u]  BY <1>1, DoorGiven DEF DoorTyped
    <3>7. account'[u] = a  BY <1>1 DEF DoorTyped
    <3>8. made'[u] \ past'.lost \subseteq {account'[u]}
      BY <1>1, <2>1, <2>3, <3>2, <3>5, <3>6, <3>7 DEF BankOf
    <3> QED BY <1>1, <1>2, <2>3, <3>3, <3>4, <3>7, <3>8 DEF BankOf
  <2> QED BY <2>2, <2>3
<1> QED BY <1>3 DEF BankInv

\* and linked; a failure loses it at worst.
LEMMA LeaveKeeps ==
  ASSUME DoorTyped, BankInv, NEW r \in Requests, Door!SendLink(r) \/ Door!OnboardFails(r) PROVE BankInv'
<1> DEFINE u == request[r].of
           a == request[r].account
<1>1. u \in Users /\ UNCHANGED <<account, made>>
      /\ request'[r] = Door!Idle /\ \A s \in Requests : s # r => request'[s] = request[s]
  BY DEF Door!SendLink, Door!OnboardFails, Door!Quit, Door!banking, DoorTyped, Banking
<1>2. /\ past'.met = past.met /\ past.lost \subseteq past'.lost
      /\ request[r].at = "store" => a \in past'.lost
  <2>1. CASE Door!SendLink(r)  BY <2>1 DEF Door!SendLink
  <2>2. CASE Door!OnboardFails(r)
    <3>1. past' = [Door!Faulty(past) EXCEPT !.lost = IF request[r].at = "store" THEN @ \cup {a} ELSE @]
      BY <2>2 DEF Door!OnboardFails
    <3> QED BY <3>1, FaultTyped DEF Door!Faulty, PastRecord
  <2> QED BY <2>1, <2>2
<1>3. \/ UNCHANGED links
      \/ request[r].at = "link" /\ links' = [links EXCEPT ![u] = @ \cup {a}]
  BY DEF Door!SendLink, Door!OnboardFails, Door!banking
<1>4. ASSUME NEW v \in Users \ past'.met PROVE BankOf(v)'
  <2>1. BankOf(v)  BY <1>2, <1>4 DEF BankInv
  <2>2. CASE v # u
    <3>1. links'[v] = links[v]  BY <1>3, <2>2 DEF DoorTyped
    <3>2. ~Banking(request'[r])  BY <1>1, IdleTyped
    <3> QED BY <1>1, <1>2, <2>1, <2>2, <3>1, <3>2, OtherOwner
  <2>3. CASE v = u
    <3>1. Door!Onboarding(v)' \subseteq Door!Onboarding(v) /\ Linking(v)' \subseteq Linking(v)
          /\ \A s \in Linking(v)' : request'[s] = request[s]
      BY <1>1 DEF Door!Onboarding, Linking, Door!Idle
    <3>2. Unstored(v) \ past'.lost \subseteq Unstored(v)'
      BY <1>1, <1>2, <2>3 DEF Unstored
    <3>3. \A b \in links'[v] : b \in links[v] \/ (b = a /\ r \in Linking(v))
      BY <1>1, <1>3, <2>3 DEF DoorTyped, Linking
    <3>4. \A b \in links'[v] : b = account'[v] /\ b # Door!NoAccount
      BY <1>1, <2>1, <3>3 DEF BankOf
    <3>5. made'[v] \ past'.lost \subseteq {account'[v]} \cup Unstored(v)'
      BY <1>1, <1>2, <2>1, <3>2 DEF BankOf
    <3> QED BY <1>1, <2>1, <3>1, <3>4, <3>5 DEF BankOf
  <2> QED BY <2>2, <2>3
<1> QED BY <1>4 DEF BankInv

\* Signing up and the guarded calls leave the Door!banking alone.
LEMMA ElsewhereKeeps ==
  ASSUME DoorTyped, BankInv, UNCHANGED Door!banking, past'.met = past.met, past'.lost = past.lost,
         \A s \in Requests : request'[s] = request[s] \/ (~Banking(request[s]) /\ ~Banking(request'[s]))
  PROVE  BankInv'
<1>1. ASSUME NEW v \in Users \ past'.met PROVE BankOf(v)'
  <2>1. BankOf(v)  BY <1>1 DEF BankInv
  <2> QED BY <2>1, OtherOwner DEF Door!banking
<1> QED BY <1>1 DEF BankInv

\* Every step keeps the accounts in order.
LEMMA StepBanks == ASSUME DoorTyped, BankInv, [Door!Next]_(Door!vars) PROVE BankInv'
<1>1. CASE UNCHANGED Door!vars  BY <1>1, ElsewhereKeeps DEF Door!vars, Door!banking
<1>2. ASSUME NEW u \in Users, Door!Signs(u) PROVE BankInv'
  <2>1. \/ UNCHANGED past \/ past' = Door!Faulty(past)
        \/ past' = [Door!Faulty(past) EXCEPT !.broken = @ \cup {u}]
    BY <1>2 DEF Door!Signs, Door!SignUp, Door!HookConglomerate, Door!HookMembership, Door!HookThrows,
        Door!HookGrant, Door!SignInAgain
  <2>2. past'.met = past.met /\ past'.lost = past.lost  BY <2>1, FaultTyped DEF Door!Faulty, PastRecord
  <2> QED BY <1>2, <2>2, ElsewhereKeeps DEF Door!Signs
<1>3. ASSUME NEW r \in Requests, Door!Guarded(r) PROVE BankInv'
  <2>1. ~Banking(request[r]) /\ \A s \in Requests : s # r => request'[s] = request[s]
    BY <1>3 DEF Door!Guarded, Door!PostCompany, Door!PostCall, Door!RecordHit, Door!Admit, Door!TooMany,
        Door!Goto, Door!Quit, Banking, DoorTyped
  <2>2. request'[r].at \in {"hit", "count", "idle"}
    <3>1. ASSUME NEW u \in Users, Door!PostCompany(u, r) \/ Door!PostCall(u, r) PROVE request'[r].at = "hit"
      BY <3>1 DEF Door!PostCompany, Door!PostCall, DoorTyped, Door!Idle
    <3>2. CASE Door!RecordHit(r)  BY <3>2 DEF Door!RecordHit, Door!Goto, DoorTyped, OpenRequest
    <3>3. CASE Door!Admit(r) \/ Door!TooMany(r)
        BY <3>3 DEF Door!Admit, Door!TooMany, Door!Quit, DoorTyped, Door!Idle
    <3> QED BY <1>3, <3>1, <3>2, <3>3 DEF Door!Guarded
  <2>3. past'.met = past.met /\ past'.lost = past.lost
    BY <1>3, FaultTyped DEF Door!Guarded, Door!RecordHit, Door!Admit, Door!TooMany, PastRecord
  <2>4. ~Banking(request'[r])  BY <2>2 DEF Banking
  <2> QED BY <1>3, <2>1, <2>3, <2>4, ElsewhereKeeps DEF Door!Guarded
<1>4. ASSUME NEW r \in Requests, Door!Onboards(r) PROVE BankInv'
  BY <1>4, LookUpKeeps, CreateKeeps, StoreKeeps, LeaveKeeps DEF Door!Onboards
<1> QED BY <1>1, <1>2, <1>3, <1>4 DEF Door!Next

\* There are none at the start.
LEMMA InitBanks == ASSUME Door!Init PROVE BankInv
BY DEF Door!Init, Door!Idle, BankInv, BankOf, Door!Onboarding, Unstored, Linking

\* The instance counts as we do.
LEMMA DoorCounts == ASSUME NEW S PROVE Door!Cardinality(S) = Cardinality(S)
BY DEF Door!Cardinality, Cardinality

\* That is what the runs check.
LEMMA BankKept == ASSUME DoorTyped, BankInv PROVE Door!OneAccount
<1>1. ASSUME NEW u \in Users \ past.met
      PROVE  Cardinality(made[u] \ past.lost) <= 1 /\ links[u] \subseteq {account[u]}
  <2>1. BankOf(u)  BY DEF BankInv
  <2>2. ASSUME NEW a \in made[u] \ past.lost, NEW b \in made[u] \ past.lost PROVE a = b
    <3>1. Door!NoAccount \notin made[u]  BY DoorGiven DEF DoorTyped
    <3>2. CASE account[u] # Door!NoAccount
      <4>1. Unstored(u) = {}  BY <2>1, <3>2 DEF BankOf, Door!Onboarding, Unstored
      <4> QED BY <2>1, <4>1 DEF BankOf
    <3>3. CASE account[u] = Door!NoAccount
      <4>1. \A x, y \in Unstored(u) : x = y  BY <2>1 DEF BankOf, Door!Onboarding, Unstored
      <4> QED BY <2>1, <3>1, <3>3, <4>1 DEF BankOf
    <3> QED BY <3>2, <3>3
  <2>3. made[u] \ past.lost = {} \/ \E a : made[u] \ past.lost = {a}  BY <2>2
  <2>4. Cardinality(made[u] \ past.lost) \in {0, 1}
    BY <2>3, FS_EmptySet, FS_Singleton
  <2>5. Cardinality(made[u] \ past.lost) <= 1  BY <2>4
  <2> QED BY <2>1, <2>5 DEF BankOf
<1>2. ASSUME NEW u \in Users \ past.met PROVE Door!Cardinality(made[u] \ past.lost) <= 1
  BY <1>1, <1>2, DoorCounts
<1> QED BY <1>1, <1>2 DEF Door!OneAccount

\* ensureConnectOnboarding makes one account per conglomerate, besides those a failure lost, and
\* sends its owns to the one that withdrawals pay, unless two onboardings of it met.
THEOREM OneAccountEach == Door!Spec => []Door!OneAccount
<1>1. Door!Init => DoorTyped /\ BankInv  BY DoorOpens, InitBanks
<1>2. DoorTyped /\ BankInv /\ [Door!Next]_(Door!vars) => (DoorTyped /\ BankInv)'  BY DoorStays, StepBanks
<1>3. DoorTyped /\ BankInv => Door!OneAccount  BY BankKept
<1> QED BY <1>1, <1>2, <1>3, PTL DEF Door!Spec

----------------------------------------------------------------------------
(* The home of an owns.                                                   *)

HomeInv ==
  /\ Door!HomeKept
  /\ \A u \in Users : /\ user[u] = "conglomerate" => u \in congs
                      /\ user[u] = "membership" => u \in members
                      /\ user[u] = "broken" => u \in past.broken
UserTyped == user \in [Users -> {"new", "row", "conglomerate", "membership", "in", "broken"}]

\* The steps of the first sign-in.
LEMMA HookKeeps == ASSUME DoorTyped, UserTyped, HomeInv, NEW u \in Users, Door!Signs(u)
    PROVE UserTyped' /\ HomeInv'
<1>1. \A v \in Users : v # u => user'[v] = user[v]
  BY DEF UserTyped, Door!Signs, Door!SignUp, Door!HookConglomerate, Door!HookMembership,
      Door!HookThrows, Door!HookGrant, Door!SignInAgain
<1>2. UserTyped'
  BY DEF UserTyped, Door!Signs, Door!SignUp, Door!HookConglomerate, Door!HookMembership,
      Door!HookThrows, Door!HookGrant, Door!SignInAgain
<1>3. past.broken \subseteq past'.broken
  BY FaultTyped DEF Door!Signs, Door!SignUp, Door!HookConglomerate, Door!HookMembership,
      Door!HookThrows, Door!HookGrant, Door!SignInAgain, Door!Faulty, PastRecord
<1>4. CASE Door!SignUp(u)  BY <1>1, <1>2, <1>4 DEF Door!SignUp, UserTyped, HomeInv, Door!HomeKept
<1>5. CASE Door!HookConglomerate(u)
  BY <1>1, <1>2, <1>5 DEF Door!HookConglomerate, UserTyped, HomeInv, Door!HomeKept
<1>6. CASE Door!HookMembership(u)
  BY <1>1, <1>2, <1>6 DEF Door!HookMembership, UserTyped, HomeInv, Door!HomeKept
<1>7. CASE Door!HookThrows(u)
  <2>1. u \in past'.broken  BY <1>7, FaultTyped DEF Door!HookThrows, PastRecord
  <2>2. user'[u] = "broken" /\ UNCHANGED <<congs, members, trial>>  BY <1>7 DEF Door!HookThrows, UserTyped
  <2> QED BY <1>1, <1>2, <1>3, <2>1, <2>2 DEF HomeInv, Door!HomeKept
<1>8. CASE Door!HookGrant(u) \/ Door!SignInAgain(u)
  <2>1. /\ user'[u] = "in" /\ UNCHANGED <<congs, members>> /\ trial' \subseteq trial \cup members
        /\ u \in members \cup past.broken
    BY <1>8 DEF Door!HookGrant, Door!SignInAgain, UserTyped, HomeInv
  <2> QED BY <1>1, <1>2, <1>3, <2>1 DEF HomeInv, Door!HomeKept
<1> QED BY <1>4, <1>5, <1>6, <1>7, <1>8 DEF Door!Signs

\* Every step keeps the homes.
LEMMA StepHouses ==
  ASSUME DoorTyped, UserTyped, HomeInv, [Door!Next]_(Door!vars) PROVE UserTyped' /\ HomeInv'
<1>1. ASSUME UNCHANGED Door!signing, past'.broken = past.broken PROVE UserTyped' /\ HomeInv'
  BY <1>1 DEF Door!signing, UserTyped, HomeInv, Door!HomeKept
<1>2. ASSUME NEW r \in Requests, Door!Guarded(r) \/ Door!Onboards(r) PROVE past'.broken = past.broken
  BY <1>2, FaultTyped
  DEF Door!Guarded, Door!RecordHit, Door!Admit, Door!TooMany, Door!Onboards, Door!LookUpAccount,
      Door!CreateAccount, Door!StoreAccount,
      Door!SendLink, Door!OnboardFails, Door!Faulty, PastRecord
<1>3. CASE UNCHANGED Door!vars  BY <1>1, <1>3 DEF Door!vars, Door!signing
<1> QED BY <1>1, <1>2, <1>3, HookKeeps DEF Door!Next, Door!Guarded, Door!Onboards

\* Nobody has signed in at the start.
LEMMA InitHouses == ASSUME Door!Init PROVE UserTyped /\ HomeInv
BY DEF Door!Init, UserTyped, HomeInv, Door!HomeKept

\* Whoever is signed in has a conglomerate to found in, unless the hook of the first sign-in
\* threw, and the trial goes to no conglomerate without an owns (auth.ts:10-12).
THEOREM HomeStays == Door!Spec => []Door!HomeKept
<1>1. Door!Init => DoorTyped /\ UserTyped /\ HomeInv
  BY DoorOpens, InitHouses
<1>2. DoorTyped /\ UserTyped /\ HomeInv /\ [Door!Next]_(Door!vars) => (DoorTyped /\ UserTyped /\ HomeInv)'
  BY DoorStays, StepHouses
<1>3. HomeInv => Door!HomeKept  BY DEF HomeInv
<1> QED BY <1>1, <1>2, <1>3, PTL DEF Door!Spec

----------------------------------------------------------------------------
(* Both together.                                                          *)

\* One wallet's grants and one owner's account are kept beside one another: a step of the one part
\* changes nothing of the other (billing.ts, billing-checkout.ts, auth.ts, connect.ts, index.ts).
THEOREM AccountsStayKept == Parts => []AccountsKept
<1> DEFINE GrantsInv == Typed /\ ApartInv /\ CoverInv
           DoorInv == DoorTyped /\ SpendInv /\ BankInv /\ UserTyped /\ HomeInv
<1>1. InitParts => GrantsInv /\ DoorInv
  BY BeginTyped, BeginApart, BeginCovered, DoorOpens, InitSpends, InitBanks, InitHouses DEF InitParts
<1>2. [Granting(Next) \/ Entering]_All => [Next]_vars /\ [Door!Next]_(Door!vars)
  <2>1. UNCHANGED ovars => UNCHANGED Door!vars
    BY DEF ovars, Door!vars
  <2>2. UNCHANGED All => UNCHANGED vars /\ UNCHANGED ovars
    BY DEF All
  <2> QED BY <2>1, <2>2 DEF Granting, Entering
<1>3. GrantsInv /\ [Next]_vars => GrantsInv'
  BY NextTyped, NextApart, NextCovers
<1>4. DoorInv /\ [Door!Next]_(Door!vars) => DoorInv'
  BY DoorStays, StepSpends, StepBanks, StepHouses
<1>5. GrantsInv /\ DoorInv => AccountsKept
  <2>1. GrantsInv => GrantsKept
    BY TypesShown, ApartKept DEF GrantsKept, CoverInv
  <2>2. DoorInv => Door!OwnersKept
    BY BankKept DEF Door!OwnersKept, SpendInv, HomeInv
  <2> QED BY <2>1, <2>2 DEF AccountsKept
<1> QED BY <1>1, <1>2, <1>3, <1>4, <1>5, PTL DEF Parts
=============================================================================
