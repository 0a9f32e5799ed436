---------------------------- MODULE CreditGrants ----------------------------
(***************************************************************************)
(* Credits of the conglomerates' wallets: plans an owner subscribes to,    *)
(* the grant cycle that advances their periods, and Stripe checkouts whose *)
(* webhook tops up a wallet or activates a paid plan.                      *)
(*                                                                         *)
(* A step is one read or one write of the database with the event it       *)
(* appends. Days are numbered through the months of a small calendar.      *)
(***************************************************************************)
EXTENDS Integers, Sequences, FiniteSets, FiniteSetsExt

CONSTANTS
  Conglomerates,
  Cycles, Owners, Deliveries,   \* calls that can be open at once
  Sessions,                     \* Stripe checkout sessions, each with one event
  Plans,                        \* the plans on offer, "free" and others
  MonthLengths,                 \* the calendar: the days of each month in turn
  MaxSwitches, MaxFaults        \* bounds of the model

ASSUME CreditGrantsAssumption ==
  /\ IsFiniteSet(Conglomerates) /\ Conglomerates # {} /\ IsFiniteSet(Sessions) /\ Sessions # {}
  /\ Plans \subseteq {"free", "builder", "pro"} /\ "free" \in Plans
  /\ MonthLengths \in Seq(Nat \ {0}) /\ Len(MonthLengths) > 0
  /\ MaxSwitches \in Nat /\ MaxFaults \in Nat

Recurring == Plans \ {"free"}

StartOfMonth[m \in 1..(Len(MonthLengths) + 1)] ==
  IF m = 1 THEN 1 ELSE StartOfMonth[m - 1] + MonthLengths[m - 1]
MaxDay == StartOfMonth[Len(MonthLengths) + 1] - 1
Days == 1..MaxDay
MonthOf(day) == Max({m \in 1..Len(MonthLengths) : StartOfMonth[m] <= day})

\* setUTCMonth(month + 1): a day the next month has not rolls over into the one after.
addMonth(day) == StartOfMonth[MonthOf(day) + 1] + (day - StartOfMonth[MonthOf(day)])

\* The idempotency key of a grant: the plan and its period's first day.
Periods == Plans \X (0..MaxDay)
periodKey(plan, day) == <<plan, IF plan = "free" THEN 0 ELSE day>>

VARIABLES
  today,
  sub,        \* subscriptions: [plan, start, by]; by is the session that set start, or "period"
  grants,     \* credit_entries with meta.period: how many, per conglomerate and period
  credited,   \* credit_entries with meta.ref: how many, per session
  cycle,      \* per call of runGrantCycle: [at, now, todo, row, start]
  owner,      \* per call of subscribe: [at, g, plan, now]
  session,    \* per session: [status, kind, g, plan]
  delivery,   \* per webhook call: [at, session]
  raced,      \* history: keys two calls looked up before either inserted
  cut,        \* history: periods whose subscribe ended before the grant
  switches,   \* how often subscribe was called
  faults

vars == <<today, sub, grants, credited, cycle, owner, session, delivery, raced, cut,
          switches, faults>>

NoSub == [plan |-> "none", start |-> 0, by |-> "period"]
IdleCycle == [at |-> "idle", now |-> 1, todo |-> {}, row |-> <<>>, start |-> 1]
Somebody == CHOOSE g \in Conglomerates : TRUE
IdleOwner == [at |-> "idle", g |-> Somebody, plan |-> "free", now |-> 1]
NoSession == [status |-> "none", kind |-> "topup", g |-> Somebody, plan |-> "builder"]
IdleDelivery == [at |-> "idle", session |-> CHOOSE s \in Sessions : TRUE]

Init ==
  /\ today = 1
  /\ sub = [g \in Conglomerates |-> NoSub]
  /\ grants = [g \in Conglomerates |-> [k \in Periods |-> 0]]
  /\ credited = [s \in Sessions |-> 0]
  /\ cycle = [p \in Cycles |-> IdleCycle]
  /\ owner = [o \in Owners |-> IdleOwner]
  /\ session = [s \in Sessions |-> NoSession]
  /\ delivery = [d \in Deliveries |-> IdleDelivery]
  /\ raced = {} /\ cut = {} /\ switches = 0 /\ faults = 0

GrantOfToday(g, k) == grants[g][k] > 0 /\ k[2] \in {0, today}
hasGrant(g, k) == grants[g][k] > 0

\* Calls that found no grant of the period and are about to insert one.
GrantingCycles(g, k) ==
  {p \in Cycles : cycle[p].at = "grant" /\ cycle[p].row.g = g
                  /\ periodKey(cycle[p].row.plan, cycle[p].start) = k}
GrantingOwners(g, k) ==
  {o \in Owners : owner[o].at = "grant" /\ owner[o].g = g
                  /\ periodKey(owner[o].plan, owner[o].now) = k}
NoteRace(g, k) ==
  raced' = IF GrantingCycles(g, k) \cup GrantingOwners(g, k) = {} THEN raced
           ELSE raced \cup {<<g, k>>}

grant(g, k) == grants' = [grants EXCEPT ![g][k] = @ + 1]

----------------------------------------------------------------------------
(* subscribe, for the free plan or without a platform Stripe key.          *)

Subscribe(o, g, plan) ==
  /\ owner[o].at = "idle" /\ sub[g].plan # plan
  /\ switches < MaxSwitches /\ switches' = switches + 1
  /\ owner' = [owner EXCEPT ![o] = [at |-> "upsert", g |-> g, plan |-> plan, now |-> today]]
  /\ UNCHANGED <<today, sub, grants, credited, cycle, session, delivery, raced, cut, faults>>

StoreSubscription(o) ==
  /\ owner[o].at = "upsert"
  /\ sub' = [sub EXCEPT ![owner[o].g] =
               [plan |-> owner[o].plan, start |-> owner[o].now, by |-> "period"]]
  /\ owner' = [owner EXCEPT ![o].at = "check"]
  /\ UNCHANGED <<today, grants, credited, cycle, session, delivery, raced, cut, switches, faults>>

OwnersKey(o) == periodKey(owner[o].plan, owner[o].now)

LookUpFirstGrant(o) ==
  /\ owner[o].at = "check"
  /\ IF hasGrant(owner[o].g, OwnersKey(o))
     THEN owner' = [owner EXCEPT ![o] = IdleOwner] /\ UNCHANGED raced
     ELSE owner' = [owner EXCEPT ![o].at = "grant"] /\ NoteRace(owner[o].g, OwnersKey(o))
  /\ UNCHANGED <<today, sub, grants, credited, cycle, session, delivery, cut, switches, faults>>

FirstGrant(o) ==
  /\ owner[o].at = "grant"
  /\ grant(owner[o].g, OwnersKey(o))
  /\ owner' = [owner EXCEPT ![o] = IdleOwner]
  /\ UNCHANGED <<today, sub, credited, cycle, session, delivery, raced, cut, switches, faults>>

\* Lago, the database or the ledger refuses: 422. The subscription may be stored.
SubscribeFails(o) ==
  /\ owner[o].at # "idle" /\ faults < MaxFaults /\ faults' = faults + 1
  /\ cut' = IF owner[o].at \in {"check", "grant"}
            THEN cut \cup {<<owner[o].g, owner[o].plan, owner[o].now>>} ELSE cut
  /\ owner' = [owner EXCEPT ![o] = IdleOwner]
  /\ UNCHANGED <<today, sub, grants, credited, cycle, session, delivery, raced, switches>>

----------------------------------------------------------------------------
(* runGrantCycle.                                                          *)

ListActive(p) ==
  /\ cycle[p].at = "idle"
  /\ cycle' = [cycle EXCEPT ![p] =
       [IdleCycle EXCEPT !.at = "next", !.now = today,
          !.todo = {[g |-> g, plan |-> sub[g].plan, start |-> sub[g].start] :
                      g \in {h \in Conglomerates : sub[h].plan \in Recurring}}]]
  /\ UNCHANGED <<today, sub, grants, credited, owner, session, delivery, raced, cut, switches, faults>>

NextSubscription(p) ==
  /\ cycle[p].at = "next"
  /\ IF cycle[p].todo = {} THEN cycle' = [cycle EXCEPT ![p] = IdleCycle]
     ELSE \E r \in cycle[p].todo :
            cycle' = [cycle EXCEPT ![p].at = "elapsed", ![p].todo = @ \ {r},
                                   ![p].row = r, ![p].start = r.start]
  /\ UNCHANGED <<today, sub, grants, credited, owner, session, delivery, raced, cut, switches, faults>>

\* The loop over the elapsed periods: a period already granted is passed over, and
\* the row is stored once, after the last of them.
NextPeriod(p) ==
  LET c == cycle[p]
      next == addMonth(c.start)
      key == periodKey(c.row.plan, next)
  IN /\ c.at = "elapsed"
     /\ \/ /\ next <= c.now /\ hasGrant(c.row.g, key)
           /\ cycle' = [cycle EXCEPT ![p].start = next]
           /\ UNCHANGED raced
        \/ /\ next <= c.now /\ ~hasGrant(c.row.g, key)
           /\ cycle' = [cycle EXCEPT ![p].start = next, ![p].at = "grant"]
           /\ NoteRace(c.row.g, key)
        \/ /\ next > c.now
           /\ cycle' = [cycle EXCEPT ![p].at = IF c.start > c.row.start THEN "upsert" ELSE "next"]
           /\ UNCHANGED raced
     /\ UNCHANGED <<today, sub, grants, credited, owner, session, delivery, cut, switches, faults>>

GrantPeriodOrSkip(p) ==
  /\ cycle[p].at = "grant"
  /\ \/ grant(cycle[p].row.g, periodKey(cycle[p].row.plan, cycle[p].start))
     \/ UNCHANGED grants
  /\ cycle' = [cycle EXCEPT ![p].at = "elapsed"]
  /\ UNCHANGED <<today, sub, credited, owner, session, delivery, raced, cut, switches, faults>>
GrantPeriod(p) ==
  /\ cycle[p].at = "grant"
  /\ grant(cycle[p].row.g, periodKey(cycle[p].row.plan, cycle[p].start))
  /\ cycle' = [cycle EXCEPT ![p].at = "elapsed"]
  /\ UNCHANGED <<today, sub, credited, owner, session, delivery, raced, cut, switches, faults>>

\* The whole row of the listing is written back, with the plan it had then.
AdvancePeriod(p) ==
  /\ cycle[p].at = "upsert"
  /\ sub' = [sub EXCEPT ![cycle[p].row.g] =
               [plan |-> cycle[p].row.plan, start |-> cycle[p].start, by |-> "period"]]
  /\ cycle' = [cycle EXCEPT ![p].at = "next"]
  /\ UNCHANGED <<today, grants, credited, owner, session, delivery, raced, cut, switches, faults>>

\* An await throws: the rest of the run, the other subscriptions too, is left to
\* the next one.
CycleFails(p) ==
  /\ cycle[p].at # "idle" /\ faults < MaxFaults /\ faults' = faults + 1
  /\ cycle' = [cycle EXCEPT ![p] = IdleCycle]
  /\ UNCHANGED <<today, sub, grants, credited, owner, session, delivery, raced, cut, switches>>

----------------------------------------------------------------------------
(* Checkout sessions and the Stripe webhook.                               *)

Checkout(s, g, kind, plan) ==
  /\ session[s].status = "none"
  /\ session' = [session EXCEPT ![s] = [status |-> "open", kind |-> kind, g |-> g, plan |-> plan]]
  /\ UNCHANGED <<today, sub, grants, credited, cycle, owner, delivery, raced, cut, switches, faults>>

Pay(s) ==
  /\ session[s].status = "open"
  /\ session' = [session EXCEPT ![s].status = "paid"]
  /\ UNCHANGED <<today, sub, grants, credited, cycle, owner, delivery, raced, cut, switches, faults>>

\* Stripe delivers until it is answered, and sometimes once more.
Deliver(d, s) ==
  /\ delivery[d].at = "idle" /\ session[s].status \in {"paid", "answered"}
  /\ delivery' = [delivery EXCEPT ![d] =
       [at |-> IF session[s].kind = "topup" THEN "wallet" ELSE "ref", session |-> s]]
  /\ UNCHANGED <<today, sub, grants, credited, cycle, owner, session, raced, cut, switches, faults>>

AlreadyActive(s) == sub[session[s].g].plan = session[s].plan
AlreadyActivated(s) == credited[s] > 0

\* activateSubscription looks for the event's credit first ...
LookUpActivation(d) ==
  /\ delivery[d].at = "ref"
  /\ delivery' = [delivery EXCEPT ![d].at =
       IF AlreadyActivated(delivery[d].session) THEN "answer" ELSE "activate"]
  /\ UNCHANGED <<today, sub, grants, credited, cycle, owner, session, raced, cut, switches, faults>>

\* ... then stores the plan, its period beginning now, and credits the wallet.
Activate(d) ==
  /\ delivery[d].at = "activate"
  /\ LET s == delivery[d].session
     IN sub' = [sub EXCEPT ![session[s].g] =
                  [plan |-> session[s].plan, start |-> today, by |-> s]]
  /\ delivery' = [delivery EXCEPT ![d].at = "wallet"]
  /\ UNCHANGED <<today, grants, credited, cycle, owner, session, raced, cut, switches, faults>>

\* creditWallet: look for the ref, insert, append.
LookUpRef(d) ==
  /\ delivery[d].at = "wallet"
  /\ LET s == delivery[d].session
         inserting == {e \in Deliveries : delivery[e] = [at |-> "insert", session |-> s]}
     IN IF credited[s] > 0
        THEN delivery' = [delivery EXCEPT ![d].at = "answer"] /\ UNCHANGED raced
        ELSE /\ delivery' = [delivery EXCEPT ![d].at = "insert"]
             /\ raced' = IF inserting = {} THEN raced ELSE raced \cup {s}
  /\ UNCHANGED <<today, sub, grants, credited, cycle, owner, session, cut, switches, faults>>

CreditWallet(d) ==
  /\ delivery[d].at = "insert"
  /\ credited' = [credited EXCEPT ![delivery[d].session] = @ + 1]
  /\ delivery' = [delivery EXCEPT ![d].at = "answer"]
  /\ UNCHANGED <<today, sub, grants, cycle, owner, session, raced, cut, switches, faults>>

AnswerStripe(d) ==
  /\ delivery[d].at = "answer"
  /\ session' = [session EXCEPT ![delivery[d].session].status = "answered"]
  /\ delivery' = [delivery EXCEPT ![d] = IdleDelivery]
  /\ UNCHANGED <<today, sub, grants, credited, cycle, owner, raced, cut, switches, faults>>

DeliveryFails(d) ==
  /\ delivery[d].at # "idle" /\ faults < MaxFaults /\ faults' = faults + 1
  /\ delivery' = [delivery EXCEPT ![d] = IdleDelivery]
  /\ UNCHANGED <<today, sub, grants, credited, cycle, owner, session, raced, cut, switches>>

Midnight ==
  /\ today < MaxDay /\ today' = today + 1
  /\ UNCHANGED <<sub, grants, credited, cycle, owner, session, delivery, raced, cut, switches, faults>>

----------------------------------------------------------------------------
OwnerCall(o) ==
  \/ \E g \in Conglomerates, plan \in Plans : Subscribe(o, g, plan)
  \/ StoreSubscription(o)
  \/ LookUpFirstGrant(o)
  \/ FirstGrant(o)
  \/ SubscribeFails(o)

GrantCycle(p) ==
  \/ ListActive(p)
  \/ NextSubscription(p)
  \/ NextPeriod(p)
  \/ GrantPeriod(p)
  \/ AdvancePeriod(p)
  \/ CycleFails(p)

Webhook(d) ==
  \/ LookUpActivation(d)
  \/ Activate(d)
  \/ LookUpRef(d)
  \/ CreditWallet(d)
  \/ AnswerStripe(d)

Next ==
  \/ \E o \in Owners : OwnerCall(o)
  \/ \E p \in Cycles : GrantCycle(p)
  \/ \E s \in Sessions, g \in Conglomerates :
       Checkout(s, g, "topup", "builder") \/ \E plan \in Recurring : Checkout(s, g, "subscription", plan)
  \/ \E s \in Sessions : Pay(s) \/ \E d \in Deliveries : Deliver(d, s)
  \/ \E d \in Deliveries : Webhook(d) \/ DeliveryFails(d)
  \/ Midnight

Spec == Init /\ [][Next]_vars

\* The gateway answers what it is sent, and Stripe goes on delivering a paid
\* session's event. Nothing in the repository calls the grant cycle: none for it.
FairSpec ==
  /\ Spec
  /\ \A d \in Deliveries : WF_vars(Webhook(d))
  /\ \A s \in Sessions : SF_vars(session[s].status = "paid" /\ \E d \in Deliveries : Deliver(d, s))

----------------------------------------------------------------------------
TypeOK ==
  /\ today \in Days
  /\ \A g \in Conglomerates :
       /\ sub[g].plan \in Plans \cup {"none"} /\ sub[g].start \in 0..MaxDay
       /\ sub[g].by \in Sessions \cup {"period"}
  /\ grants \in [Conglomerates -> [Periods -> Nat]] /\ credited \in [Sessions -> Nat]
  /\ \A p \in Cycles :
       /\ cycle[p].at \in {"idle", "next", "elapsed", "grant", "upsert"}
       /\ cycle[p].at \in {"grant", "upsert"} => cycle[p].start > cycle[p].row.start
       /\ cycle[p].start \in Days /\ cycle[p].start <= today
  /\ \A o \in Owners : owner[o].at \in {"idle", "upsert", "check", "grant"}
  /\ \A s \in Sessions : session[s].status \in {"none", "open", "paid", "answered"}
  /\ \A d \in Deliveries :
       delivery[d].at \in {"idle", "ref", "activate", "wallet", "insert", "answer"}

\* Grants are keyed by period and top-ups by Stripe event: a retry, a later run, a
\* switch back or a redelivery grants nothing again. Only calls that both looked
\* before either inserted can.
GrantedOnceApart ==
  /\ \A g \in Conglomerates, k \in Periods : grants[g][k] > 1 => <<g, k>> \in raced
  /\ \A s \in Sessions : credited[s] > 1 => s \in raced

\* A subscription never stands in a period nobody paid out: its allowance is in the
\* wallet, on its way with the subscribe call or an unanswered event, or was cut off
\* when subscribe failed between storing the plan and granting it.
PeriodCovered ==
  \A g \in Conglomerates :
    LET r == sub[g] IN
    r.plan \in Recurring =>
      \/ r.by = "period" /\ hasGrant(g, periodKey(r.plan, r.start))
      \/ r.by = "period" /\ <<g, r.plan, r.start>> \in cut
      \/ r.by = "period" /\ \E o \in Owners :
           owner[o] \in [at : {"check", "grant"}, g : {g}, plan : {r.plan}, now : {r.start}]
      \/ r.by \in Sessions /\ (credited[r.by] > 0 \/ session[r.by].status = "paid")

\* What a conglomerate's wallet gets for its plans and payments (billing.ts, billing-checkout.ts).
GrantsKept == TypeOK /\ GrantedOnceApart /\ PeriodCovered

\* A paid checkout ends up in the wallet, however often its webhook fails.
PaidIsCredited == \A s \in Sessions : session[s].status = "paid" ~> credited[s] > 0
=============================================================================
