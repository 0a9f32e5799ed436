------------------------------ MODULE Treasury ------------------------------
(***************************************************************************)
(* Real money: sales credited to a company's balance, the heartbeat that   *)
(* turns revenue into credits, and withdrawals paid out through Stripe.    *)
(*                                                                         *)
(* One conglomerate. A database transaction is one step (its row locks are *)
(* held to the commit); a ledger append is on a connection of its own, so  *)
(* an append inside a transaction that then fails stays in the ledger. An  *)
(* attempt of a withdrawal is cut at each call it awaits. Stripe is        *)
(* external: it decides a transfer once and replays that answer to every   *)
(* request with the same idempotency key.                                  *)
(***************************************************************************)
EXTENDS Integers, FiniteSets, Functions

CONSTANTS
  Companies, Heartbeats,
  Payments, SoldBy, Net,        \* sales, the seller, and what it nets
  Withdrawals, DrawnFrom, Amount, Fee,  \* fee: withdrawalFeeCents(Amount[w])
  Grant, Estimate,              \* the wallet at first; what one task spends
  MinCents, TargetCents, CapCents,      \* REINVEST_*_CENTS
  MaxAttempts,                  \* retry.maximumAttempts of submitWithdrawal
  ConcurrentDeliveries,         \* webhooks of one event handled side by side
  ReadyChanges,                 \* the connected account may lose its capability
  MaxCopies, MaxFaults, MaxTimeouts, MaxSpends   \* bounds of the model

ASSUME TreasuryAssumption ==
  /\ IsFiniteSet(Companies) /\ IsFiniteSet(Heartbeats)
  /\ IsFiniteSet(Payments) /\ IsFiniteSet(Withdrawals)
  /\ SoldBy \in [Payments -> Companies] /\ Net \in [Payments -> Nat]
  /\ DrawnFrom \in [Withdrawals -> Companies]
  /\ Amount \in [Withdrawals -> Nat \ {0}]
  /\ Fee \in [Withdrawals -> Nat] /\ \A w \in Withdrawals : Fee[w] <= Amount[w]
  /\ Grant \in Nat /\ Estimate \in Nat
  /\ MinCents \in Nat /\ TargetCents \in Nat /\ CapCents \in Nat
  /\ MinCents <= TargetCents
  /\ MaxAttempts \in Nat \ {0}
  /\ {ConcurrentDeliveries, ReadyChanges} \subseteq BOOLEAN
  /\ MaxCopies \in Nat /\ MaxFaults \in Nat /\ MaxTimeouts \in Nat /\ MaxSpends \in Nat

Attempts == 1..MaxAttempts

VARIABLES
  balance,    \* companies.real_balance_cents
  wallet,     \* SUM(delta) of credit_entries
  fresh,      \* per sale: handlers that found no payments row and are to insert
  recorded,   \* payments rows of the sale
  moneyIn,    \* its money_in events
  status,     \* withdrawals.status, "none" before the row exists
  flow,       \* the Withdrawal workflow, as its caller sees it
  current,    \* the attempt Temporal is waiting for
  at,         \* where each attempt is in processWithdrawal
  transfer,   \* Stripe's answer to the withdrawal's idempotency key
  moneyOut, fees,  \* money_out and platform_fee events of the withdrawal
  ready,      \* capabilities.transfers = 'active'
  beat, seen, \* reinvestRevenue in each heartbeat, and the wallet it read
  moved, announced,  \* revenue a company gave to the wallet; as events tell it
  faults, timeouts, spends   \* counters of the bounds

sales   == <<fresh, recorded, moneyIn>>
outflow == <<status, flow, current, at, transfer, moneyOut, fees>>
refills == <<beat, seen, moved, announced>>
bounds  == <<faults, timeouts, spends>>
vars == <<balance, wallet, sales, outflow, ready, refills, bounds>>

Points == {"off", "preflight", "reserve", "payout", "confirm", "moneyOut", "fee",
           "refund", "return"}

Init ==
  /\ balance = [c \in Companies |-> 0] /\ wallet = Grant
  /\ fresh = [p \in Payments |-> 0]
  /\ recorded = [p \in Payments |-> 0] /\ moneyIn = [p \in Payments |-> 0]
  /\ status = [w \in Withdrawals |-> "none"]
  /\ flow = [w \in Withdrawals |-> "none"]
  /\ current = [w \in Withdrawals |-> 1]
  /\ at = [w \in Withdrawals |-> [i \in Attempts |-> "off"]]
  /\ transfer = [w \in Withdrawals |-> "none"]
  /\ moneyOut = [w \in Withdrawals |-> 0] /\ fees = [w \in Withdrawals |-> 0]
  /\ ready \in BOOLEAN
  /\ beat = [h \in Heartbeats |-> "idle"] /\ seen = [h \in Heartbeats |-> 0]
  /\ moved = [c \in Companies |-> 0] /\ announced = [c \in Companies |-> 0]
  /\ faults = 0 /\ timeouts = 0 /\ spends = 0

AFault == faults < MaxFaults /\ faults' = faults + 1 /\ UNCHANGED <<timeouts, spends>>

----------------------------------------------------------------------------
(* recordPayment: look the provider_ref up, then insert, credit, announce  *)
(* and commit.                                                             *)

NoDuplicateCheck(p) ==
  /\ fresh[p] + recorded[p] < MaxCopies
  /\ ConcurrentDeliveries \/ fresh[p] = 0
  /\ fresh' = [fresh EXCEPT ![p] = @ + 1]
  /\ UNCHANGED <<balance, wallet, recorded, moneyIn, outflow, ready, refills, bounds>>
\* A delivery that finds the row changes nothing.
CheckDuplicate(p) ==
  /\ recorded[p] = 0 /\ fresh[p] < MaxCopies
  /\ ConcurrentDeliveries \/ fresh[p] = 0
  /\ fresh' = [fresh EXCEPT ![p] = @ + 1]
  /\ UNCHANGED <<balance, wallet, recorded, moneyIn, outflow, ready, refills, bounds>>

RecordPayment(p) ==
  /\ fresh[p] > 0 /\ fresh' = [fresh EXCEPT ![p] = @ - 1]
  /\ recorded' = [recorded EXCEPT ![p] = @ + 1]
  /\ balance' = [balance EXCEPT ![SoldBy[p]] = @ + Net[p]]
  /\ moneyIn' = [moneyIn EXCEPT ![p] = @ + 1]
  /\ UNCHANGED <<wallet, outflow, ready, refills, bounds>>

\* The transaction rolls back, before or after the append; Stripe delivers again.
RecordAborts(p) ==
  /\ fresh[p] > 0 /\ fresh' = [fresh EXCEPT ![p] = @ - 1]
  /\ AFault
  /\ moneyIn' \in {moneyIn, [moneyIn EXCEPT ![p] = @ + 1]}
  /\ UNCHANGED <<balance, wallet, recorded, outflow, ready, refills>>

----------------------------------------------------------------------------
(* The Withdrawal workflow and its attempts.                               *)

Move(w, i, point) == at' = [at EXCEPT ![w][i] = point]

Withdraw(w) ==
  /\ flow[w] = "none"
  /\ flow' = [flow EXCEPT ![w] = "running"]
  /\ Move(w, 1, "preflight")
  /\ UNCHANGED <<balance, wallet, sales, status, current, transfer, moneyOut, fees,
                 ready, refills, bounds>>

\* The answer ends the workflow, unless Temporal has given that attempt up.
Answer(w, i, result) ==
  /\ Move(w, i, "off")
  /\ flow' = [flow EXCEPT ![w] =
                IF i = current[w] /\ @ = "running" THEN result ELSE @]
  /\ UNCHANGED current

\* The next attempt begins, or there is none left; the old one is at `point`.
OneAttemptMore(w, i, point) ==
  /\ current' = [current EXCEPT ![w] = i + 1]
  /\ at' = [at EXCEPT ![w] = [j \in Attempts |->
               CASE j = i -> point [] j = i + 1 -> "preflight" [] OTHER -> @[j]]]
  /\ UNCHANGED flow
GivesUpSilently(w, i, point) ==
  IF i = current[w] /\ i < MaxAttempts
    THEN /\ current' = [current EXCEPT ![w] = i + 1]
         /\ at' = [at EXCEPT ![w][i] = point, ![w][i + 1] = "preflight"]
         /\ UNCHANGED flow
    ELSE Move(w, i, point) /\ UNCHANGED <<flow, current>>
NextAttempt(w, i, point) ==
  IF i = current[w] /\ flow[w] = "running" /\ i < MaxAttempts
    THEN /\ current' = [current EXCEPT ![w] = i + 1]
         /\ at' = [at EXCEPT ![w][i] = point, ![w][i + 1] = "preflight"]
         /\ UNCHANGED flow
    ELSE /\ Move(w, i, point)
         /\ flow' = [flow EXCEPT ![w] =
                       IF i = current[w] /\ @ = "running" THEN "failed" ELSE @]
         /\ UNCHANGED current

\* startToCloseTimeout: the attempt goes on in the gateway, unattended.
Timeout(w, i) ==
  /\ timeouts < MaxTimeouts /\ timeouts' = timeouts + 1
  /\ i = current[w] /\ at[w][i] # "off"
  /\ NextAttempt(w, i, at[w][i])
  /\ UNCHANGED <<balance, wallet, sales, status, transfer, moneyOut, fees, ready, refills,
                 faults, spends>>

\* A failed read, statement or append, a request or reply lost on the way to
\* the gateway or to Stripe: all are a 5xx or an exception to Temporal.
AttemptFails(w, i) ==
  /\ at[w][i] # "off" /\ AFault
  /\ IF at[w][i] = "payout" /\ transfer[w] = "none"
       THEN \E a \in {"none", "accepted", "rejected"} : transfer' = [transfer EXCEPT ![w] = a]
       ELSE UNCHANGED transfer
  /\ IF at[w][i] = "moneyOut"
       THEN moneyOut' \in {moneyOut, [moneyOut EXCEPT ![w] = @ + 1]}
       ELSE UNCHANGED moneyOut
  /\ IF at[w][i] = "fee"
       THEN fees' \in {fees, [fees EXCEPT ![w] = @ + 1]}
       ELSE UNCHANGED fees
  /\ NextAttempt(w, i, "off")
  /\ UNCHANGED <<balance, wallet, sales, status, ready, refills>>

\* Step 0: the connected account must be able to receive transfers.
NotReady(w, i) ==
  /\ at[w][i] = "preflight" /\ ~ready
  /\ Answer(w, i, "failed")
  /\ UNCHANGED <<balance, wallet, sales, status, transfer, moneyOut, fees, ready, refills, bounds>>

Preflight(w, i) ==
  /\ at[w][i] = "preflight" /\ ready
  /\ Move(w, i, "reserve")
  /\ UNCHANGED <<balance, wallet, sales, status, flow, current, transfer, moneyOut, fees,
                 ready, refills, bounds>>

\* Step 1: debit the balance and record the row, or find the row of an
\* earlier attempt.
CoversNet(w) == balance[DrawnFrom[w]] >= Amount[w] - Fee[w]
Covers(w) == balance[DrawnFrom[w]] >= Amount[w]

Reserve(w, i) ==
  /\ at[w][i] = "reserve" /\ status[w] = "none" /\ Covers(w)
  /\ balance' = [balance EXCEPT ![DrawnFrom[w]] = @ - Amount[w]]
  /\ status' = [status EXCEPT ![w] = "processing"]
  /\ Move(w, i, "payout")
  /\ UNCHANGED <<wallet, sales, flow, current, transfer, moneyOut, fees, ready, refills, bounds>>

Insufficient(w, i) ==
  /\ at[w][i] = "reserve" /\ status[w] = "none" /\ ~Covers(w)
  /\ Answer(w, i, "failed")
  /\ UNCHANGED <<balance, wallet, sales, status, transfer, moneyOut, fees, ready, refills, bounds>>

ResumeAny(w, i) ==
  /\ at[w][i] = "reserve" /\ status[w] # "none"
  /\ Move(w, i, "payout")
  /\ UNCHANGED <<balance, wallet, sales, status, flow, current, transfer, moneyOut, fees,
                 ready, refills, bounds>>
Resume(w, i) ==
  /\ at[w][i] = "reserve" /\ status[w] = "processing"
  /\ Move(w, i, "payout")
  /\ UNCHANGED <<balance, wallet, sales, status, flow, current, transfer, moneyOut, fees,
                 ready, refills, bounds>>

AlreadySettled(w, i) ==
  /\ at[w][i] = "reserve" /\ status[w] \in {"paid", "failed"}
  /\ Answer(w, i, status[w])
  /\ UNCHANGED <<balance, wallet, sales, status, transfer, moneyOut, fees, ready, refills, bounds>>

\* Step 2: the transfer. Only a rejection leads to the refund.
AnyErrorRefunds(w, i) ==
  /\ at[w][i] = "payout"
  /\ \E a \in {"accepted", "rejected"}, lost \in BOOLEAN :
       /\ transfer[w] \in {"none", a}
       /\ transfer' = [transfer EXCEPT ![w] = a]
       /\ Move(w, i, IF a = "accepted" /\ ~lost THEN "confirm" ELSE "refund")
  /\ UNCHANGED <<balance, wallet, sales, status, flow, current, moneyOut, fees,
                 ready, refills, bounds>>
Payout(w, i) ==
  /\ at[w][i] = "payout"
  /\ \E a \in {"accepted", "rejected"} :
       /\ transfer[w] \in {"none", a}
       /\ transfer' = [transfer EXCEPT ![w] = a]
       /\ Move(w, i, IF a = "accepted" THEN "confirm" ELSE "refund")
  /\ UNCHANGED <<balance, wallet, sales, status, flow, current, moneyOut, fees,
                 ready, refills, bounds>>

\* Step 3: mark the row paid, then the money_out event, then the platform's fee.
Confirm(w, i) ==
  /\ at[w][i] = "confirm"
  /\ status' = [status EXCEPT ![w] = "paid"]
  /\ Move(w, i, "moneyOut")
  /\ UNCHANGED <<balance, wallet, sales, flow, current, transfer, moneyOut, fees,
                 ready, refills, bounds>>

AnnounceMoneyOut(w, i) ==
  /\ at[w][i] = "moneyOut"
  /\ moneyOut' = [moneyOut EXCEPT ![w] = @ + 1]
  /\ Move(w, i, IF Fee[w] > 0 THEN "fee" ELSE "return")
  /\ UNCHANGED <<balance, wallet, sales, status, flow, current, transfer, fees,
                 ready, refills, bounds>>

AnnounceFee(w, i) ==
  /\ at[w][i] = "fee"
  /\ fees' = [fees EXCEPT ![w] = @ + 1]
  /\ Move(w, i, "return")
  /\ UNCHANGED <<balance, wallet, sales, status, flow, current, transfer, moneyOut,
                 ready, refills, bounds>>

\* A terminal rejection: give the reserve back and mark the row failed, in one
\* transaction that does not look at the status again.
RefundNet(w, i) ==
  /\ at[w][i] = "refund"
  /\ balance' = [balance EXCEPT ![DrawnFrom[w]] = @ + Amount[w] - Fee[w]]
  /\ status' = [status EXCEPT ![w] = "failed"]
  /\ Move(w, i, "return")
  /\ UNCHANGED <<wallet, sales, flow, current, transfer, moneyOut, fees, ready, refills, bounds>>
Refund(w, i) ==
  /\ at[w][i] = "refund"
  /\ balance' = [balance EXCEPT ![DrawnFrom[w]] = @ + Amount[w]]
  /\ status' = [status EXCEPT ![w] = "failed"]
  /\ Move(w, i, "return")
  /\ UNCHANGED <<wallet, sales, flow, current, transfer, moneyOut, fees, ready, refills, bounds>>

Return(w, i) ==
  /\ at[w][i] = "return"
  /\ Answer(w, i, status[w])
  /\ UNCHANGED <<balance, wallet, sales, status, transfer, moneyOut, fees, ready, refills, bounds>>

ProcessWithdrawal(w, i) ==
  \/ NotReady(w, i)
  \/ Preflight(w, i)
  \/ Reserve(w, i)
  \/ Insufficient(w, i)
  \/ Resume(w, i)
  \/ AlreadySettled(w, i)
  \/ Payout(w, i)
  \/ Confirm(w, i)
  \/ AnnounceMoneyOut(w, i)
  \/ AnnounceFee(w, i)
  \/ Refund(w, i)
  \/ Return(w, i)

ReadyFlips ==
  /\ ReadyChanges /\ ready' = ~ready
  /\ UNCHANGED <<balance, wallet, sales, outflow, refills, bounds>>

----------------------------------------------------------------------------
(* reinvestRevenue: read the wallet, then lock the funding companies, plan *)
(* the refill from that reading, drain them and credit the wallet.         *)

WalletLow(h) ==
  /\ beat[h] = "idle" /\ wallet < MinCents
  /\ beat' = [beat EXCEPT ![h] = "low"]
  /\ seen' = [seen EXCEPT ![h] = wallet]
  /\ UNCHANGED <<balance, wallet, sales, outflow, ready, moved, announced, bounds>>

Least(S) == CHOOSE x \in S : \A y \in S : x <= y

PlanAFullTarget(credit, available) == Least({TargetCents, CapCents, available})
planReinvestment(credit, available) ==
  Least({TargetCents - credit, CapCents, available})

\* drainSources: the whole amount, largest balance first, so that at most one
\* company is left partly drained.
drainSources(amount, take) ==
  /\ \A c \in Companies : take[c] <= balance[c]
  /\ SumFunction(take) = amount
  /\ \A c, d \in Companies :
       c # d /\ balance[c] >= balance[d] /\ take[d] > 0 =>
         take[c] = balance[c] \/ (balance[c] = balance[d] /\ take[d] = balance[d])

NothingToMove(h) ==
  /\ beat[h] = "low" /\ planReinvestment(seen[h], SumFunction(balance)) <= 0
  /\ beat' = [beat EXCEPT ![h] = "idle"]
  /\ UNCHANGED <<balance, wallet, sales, outflow, ready, seen, moved, announced, bounds>>

Takes == [Companies -> 0..CapCents]

Reinvest(h) ==
  /\ beat[h] = "low"
  /\ LET amount == planReinvestment(seen[h], SumFunction(balance)) IN
     /\ amount > 0
     /\ \E take \in Takes :
          /\ drainSources(amount, take)
          /\ balance' = [c \in Companies |-> balance[c] - take[c]]
          /\ moved' = [c \in Companies |-> moved[c] + take[c]]
          /\ announced' = [c \in Companies |-> announced[c] + take[c]]
     /\ wallet' = wallet + amount
  /\ beat' = [beat EXCEPT ![h] = "idle"]
  /\ UNCHANGED <<sales, outflow, ready, seen, bounds>>

\* The transaction rolls back with some of its events appended; runCeoPlanning
\* swallows the error.
ReinvestAborts(h) ==
  /\ beat[h] = "low" /\ AFault
  /\ LET amount == planReinvestment(seen[h], SumFunction(balance)) IN
     \/ UNCHANGED announced
     \/ /\ amount > 0
        /\ \E take \in Takes, told \in SUBSET Companies :
             /\ drainSources(amount, take)
             /\ announced' = [c \in Companies |->
                                announced[c] + (IF c \in told THEN take[c] ELSE 0)]
  /\ beat' = [beat EXCEPT ![h] = "idle"]
  /\ UNCHANGED <<balance, wallet, sales, outflow, ready, seen, moved>>

\* A task's hold, the subject of module TaskRun.
SpendCredits ==
  /\ spends < MaxSpends /\ spends' = spends + 1
  /\ wallet >= Estimate /\ wallet' = wallet - Estimate
  /\ UNCHANGED <<balance, sales, outflow, ready, refills, faults, timeouts>>

----------------------------------------------------------------------------
Next ==
  \/ \E p \in Payments : CheckDuplicate(p) \/ RecordPayment(p) \/ RecordAborts(p)
  \/ \E w \in Withdrawals :
       \/ Withdraw(w)
       \/ \E i \in Attempts :
            ProcessWithdrawal(w, i) \/ Timeout(w, i) \/ AttemptFails(w, i)
  \/ \E h \in Heartbeats :
       WalletLow(h) \/ NothingToMove(h) \/ Reinvest(h) \/ ReinvestAborts(h)
  \/ ReadyFlips
  \/ SpendCredits

Spec == Init /\ [][Next]_vars

\* Temporal drives the attempts it has started; nobody owes a sale, a
\* withdrawal or a heartbeat.
FairSpec ==
  Spec /\ \A w \in Withdrawals, i \in Attempts : WF_vars(ProcessWithdrawal(w, i))

----------------------------------------------------------------------------
TypeOK ==
  /\ balance \in [Companies -> Int] /\ wallet \in Int
  /\ fresh \in [Payments -> Nat]
  /\ recorded \in [Payments -> Nat] /\ moneyIn \in [Payments -> Nat]
  /\ status \in [Withdrawals -> {"none", "processing", "paid", "failed"}]
  /\ flow \in [Withdrawals -> {"none", "running", "paid", "failed"}]
  /\ current \in [Withdrawals -> Attempts]
  /\ at \in [Withdrawals -> [Attempts -> Points]]
  /\ transfer \in [Withdrawals -> {"none", "accepted", "rejected"}]
  /\ moneyOut \in [Withdrawals -> Nat] /\ fees \in [Withdrawals -> Nat]
  /\ ready \in BOOLEAN
  /\ beat \in [Heartbeats -> {"idle", "low"}] /\ seen \in [Heartbeats -> Int]
  /\ moved \in [Companies -> Nat] /\ announced \in [Companies -> Nat]
  /\ faults \in 0..MaxFaults /\ timeouts \in 0..MaxTimeouts /\ spends \in 0..MaxSpends

\* processWithdrawal and reinvestRevenue both draw on the balance, each from a
\* reading made in its own transaction: no company ever goes below zero.
BalanceNonNegative == \A c \in Companies : balance[c] >= 0

\* Every cent a company sold for is in its balance, in the wallet, or in a
\* withdrawal that is paid or still in progress (withdrawalActivities.ts:
\* "Temporal retries are safe").
Earned(c) == SumFunction([p \in {q \in Payments : SoldBy[q] = c /\ recorded[q] > 0} |-> Net[p]])
Withdrawn(c) ==
  SumFunction([w \in {v \in Withdrawals : DrawnFrom[v] = c
                                          /\ status[v] \in {"processing", "paid"}} |-> Amount[w]])
RevenueConserved ==
  \A c \in Companies : balance[c] + moved[c] + Withdrawn(c) = Earned(c)

\* So it is across failed attempts, lost replies and rolled-back transactions,
\* as long as no attempt outlives its timeout.
ConservedInTurn == timeouts = 0 => RevenueConserved

\* recordPayment: a sale is credited once, however often its webhook comes.
CreditedOnce == \A p \in Payments : recorded[p] <= 1

\* A withdrawal whose reserve was given back was never transferred, and one
\* the caller is told is paid was.
RefundedOrPaid ==
  \A w \in Withdrawals :
    /\ status[w] = "failed" => transfer[w] = "rejected"
    /\ flow[w] = "paid" => status[w] = "paid" /\ transfer[w] = "accepted"

\* No money moves into or between a company's books without its public event;
\* an event may be there for a transaction that was rolled back. Money going
\* out is announced at most once, its fee never without it, unless an attempt
\* outlives its timeout.
EventsCover ==
  /\ \A p \in Payments : recorded[p] <= moneyIn[p]
  /\ \A c \in Companies : moved[c] <= announced[c]
  /\ timeouts = 0 => \A w \in Withdrawals : fees[w] <= moneyOut[w] /\ moneyOut[w] <= 1

\* Heartbeats that read the same low wallet each refill it: never more than one
\* refill target apiece.
WalletBound ==
  LET bound == Cardinality(Heartbeats) * TargetCents
  IN wallet <= (IF Grant > bound THEN Grant ELSE bound)

\* A credit is granted to the owner or bought with a company's revenue: what
\* the refills drained, less what tasks spent, is all the wallet ever gained.
WalletFunded == wallet = Grant + SumFunction(moved) - spends * Estimate

\* Nobody's money is lost, made up, spent twice or given back while it leaves, by sales,
\* withdrawals and refills in any order (revenue.ts, payout.ts, reinvest.ts).
MoneyKept ==
  /\ TypeOK /\ BalanceNonNegative /\ ConservedInTurn /\ CreditedOnce /\ RefundedOrPaid /\ WalletBound
  /\ WalletFunded /\ EventsCover

\* The owner who asked for a withdrawal is told an outcome, whatever attempts
\* fail on the way.
WithdrawalsEnd ==
  \A w \in Withdrawals : flow[w] = "running" ~> flow[w] \in {"paid", "failed"}
=============================================================================
