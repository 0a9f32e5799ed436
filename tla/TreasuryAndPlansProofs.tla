---------------------- MODULE TreasuryAndPlansProofs ----------------------
(***************************************************************************)
(* The money of one owner: company revenue, the shared credit wallet,      *)
(* sales, reinvestment and withdrawals, for any number of companies,       *)
(* payments, withdrawals, heartbeats, attempts, faults and timeouts.       *)
(*                                                                         *)
(* What makes the invariants inductive. A withdrawal's row and transfer    *)
(* say how far any attempt, late ones included, may still go (AttemptInv,  *)
(* RowInv). A webhook that has passed the duplicate check will be the only *)
(* one when deliveries take turns (CreditInv). Without a timeout only the  *)
(* current attempt of a withdrawal runs, so its announcements are made     *)
(* once (AloneInv). A heartbeat that saw the wallet low may still add what *)
(* it then lacked: that room counts against the wallet's limit beforehand  *)
(* (RefillInv). Revenue is a sum over sales and withdrawals, so each step  *)
(* moves one summand (ConservedInductive, with the laws of Sums).          *)
(*                                                                         *)
(* And a company's planning, for any titles, chats, lessons, companies,    *)
(* failures and days. A planner that inserts has among its open titles all *)
(* it queued that is still open (OpenSeen); the mission a heartbeat is     *)
(* about to announce is the one it set (PatchIsMission). What a learner or *)
(* a worker is about to insert is not on its sheet, and what a learner     *)
(* merges into is a shared row of the same text, unless another wrote      *)
(* since it looked (Placed, Recorder).                                     *)
(***************************************************************************)
EXTENDS Treasury, Heartbeats, Sums, SequenceTheorems

\* The final answers of ProcessWithdrawal.
Settled == {"paid", "failed"}

\* The points of an attempt that lie behind the reservation.
Reserved == {"payout", "confirm", "moneyOut", "fee", "refund", "return"}

(* Where an attempt is tells how far the row and the transfer are. *)
AttemptInv ==
  \A w \in Withdrawals, i \in Attempts :
    /\ at[w][i] \in Reserved => status[w] # "none"
    /\ at[w][i] = "return" => status[w] \in Settled
    /\ at[w][i] = "refund" => transfer[w] = "rejected"
    /\ at[w][i] \in {"confirm", "moneyOut", "fee"} => transfer[w] = "accepted"
    /\ at[w][i] \in {"moneyOut", "fee"} => status[w] = "paid"

\* A row is settled the way its transfer was, and so is the workflow that answered paid.
RowInv ==
  \A w \in Withdrawals :
    /\ status[w] = "failed" => transfer[w] = "rejected"
    /\ status[w] = "paid" => transfer[w] = "accepted"
    /\ flow[w] = "paid" => status[w] = "paid"

\* When deliveries of a payment take turns, at most one passes the duplicate check.
CreditInv == ~ConcurrentDeliveries => \A p \in Payments : recorded[p] + fresh[p] <= 1

\* Every recorded payment and every reinvested dollar was announced before.
CoverInv ==
  /\ \A p \in Payments : recorded[p] <= moneyIn[p]
  /\ \A c \in Companies : moved[c] <= announced[c]

\* Without a timeout a withdrawal has one live attempt, its current one, and what
\* that attempt announces next has not been announced.
AloneAt(w) ==
  /\ flow[w] = "none" => current[w] = 1 /\ \A i \in Attempts : at[w][i] = "off"
  /\ \A i \in Attempts :
       /\ at[w][i] # "off" => i = current[w] /\ flow[w] = "running"
       /\ at[w][i] \in {"payout", "confirm", "refund"} => status[w] = "processing"
       /\ at[w][i] = "moneyOut" => moneyOut[w] = 0
       /\ at[w][i] = "fee" => moneyOut[w] = 1 /\ fees[w] = 0
  /\ status[w] # "paid" => moneyOut[w] = 0
  /\ fees[w] <= moneyOut[w] /\ moneyOut[w] <= 1

\* As long as no attempt has timed out, every withdrawal is alone.
AloneInv == timeouts = 0 => \A w \in Withdrawals : AloneAt(w)

\* What a heartbeat that saw the wallet low may still add to it.
Room == [h \in Heartbeats |-> IF beat[h] = "low" THEN TargetCents - seen[h] ELSE 0]

\* The wallet's limit: the grant, or every heartbeat's target at once.
MostCredits ==
  IF Grant > Cardinality(Heartbeats) * TargetCents
    THEN Grant ELSE Cardinality(Heartbeats) * TargetCents

\* The wallet, and what the heartbeats under way may add, stay within the limit.
RefillInv ==
  /\ wallet >= 0
  /\ \A h \in Heartbeats : beat[h] = "low" => 0 <= seen[h] /\ seen[h] < MinCents
  /\ wallet + SumFunction(Room) <= MostCredits

\* The attempt i of w, and no other, is now at point.
Moved(w, i, point) ==
  /\ at' \in [Withdrawals -> [Attempts -> Points]]
  /\ \A v \in Withdrawals, j \in Attempts :
       at'[v][j] = IF v = w /\ j = i THEN point ELSE at[v][j]

\* Move moves one attempt.
LEMMA MoveMoves ==
  ASSUME TypeOK, NEW w \in Withdrawals, NEW i \in Attempts, NEW point \in Points,
         Move(w, i, point)
  PROVE  Moved(w, i, point)
BY DEF TypeOK, Move, Moved

\* An answered attempt is over, and the workflow takes its answer only if it waits for it.
LEMMA AnswerMoves ==
  ASSUME TypeOK, NEW w \in Withdrawals, NEW i \in Attempts, NEW result \in Settled,
         Answer(w, i, result)
  PROVE  /\ Moved(w, i, "off") /\ current' = current
         /\ flow' \in [Withdrawals -> {"none", "running", "paid", "failed"}]
         /\ \A v \in Withdrawals : flow'[v] # flow[v] => v = w /\ flow'[v] = result
         /\ i = current[w] => flow'[w] # "running"
<1>1. Moved(w, i, "off")
  BY MoveMoves DEF Answer, Points
<1> QED BY <1>1 DEF Answer, TypeOK, Settled

\* A failed or timed out attempt is retried or gives up its workflow; it touches
\* no other withdrawal.
LEMMA NextAttemptMoves ==
  ASSUME TypeOK, NEW w \in Withdrawals, NEW i \in Attempts, NEW point \in Points,
         NextAttempt(w, i, point)
  PROVE  /\ at' \in [Withdrawals -> [Attempts -> Points]]
         /\ current' \in [Withdrawals -> Attempts]
         /\ flow' \in [Withdrawals -> {"none", "running", "paid", "failed"}]
         /\ \A v \in Withdrawals : flow'[v] # flow[v] => v = w /\ flow'[v] = "failed"
         /\ \A v \in Withdrawals, j \in Attempts :
              at'[v][j] # at[v][j] => v = w /\ at'[v][j] \in {point, "preflight"}
         /\ at'[w][i] = point
<1>1. CASE i = current[w] /\ flow[w] = "running" /\ i < MaxAttempts
  <2>1. i + 1 \in Attempts /\ i + 1 # i
    BY <1>1, TreasuryAssumption DEF Attempts
  <2>2. /\ current' = [current EXCEPT ![w] = i + 1]
        /\ at' = [at EXCEPT ![w][i] = point, ![w][i + 1] = "preflight"]
        /\ flow' = flow
    BY <1>1 DEF NextAttempt
  <2>3. "preflight" \in Points
    BY DEF Points
  <2>4. /\ at' \in [Withdrawals -> [Attempts -> Points]]
        /\ \A v \in Withdrawals, j \in Attempts :
             at'[v][j] = IF v = w /\ j = i + 1 THEN "preflight"
                         ELSE IF v = w /\ j = i THEN point ELSE at[v][j]
    BY <2>1, <2>2, <2>3 DEF TypeOK
  <2> QED BY <2>1, <2>2, <2>4 DEF TypeOK
<1>2. CASE ~(i = current[w] /\ flow[w] = "running" /\ i < MaxAttempts)
  <2>1. /\ Move(w, i, point)
        /\ flow' = [flow EXCEPT ![w] =
                       IF i = current[w] /\ @ = "running" THEN "failed" ELSE @]
        /\ current' = current
    BY <1>2 DEF NextAttempt
  <2>2. Moved(w, i, point)
    BY <2>1, MoveMoves
  <2> QED BY <2>1, <2>2 DEF TypeOK, Moved
<1> QED BY <1>1, <1>2

\* Least is the minimum of three integers.
LEMMA LeastOfThree ==
  ASSUME NEW a \in Int, NEW b \in Int, NEW c \in Int
  PROVE  /\ Least({a, b, c}) \in {a, b, c}
         /\ \A y \in {a, b, c} : Least({a, b, c}) <= y
<1>1. \E x \in {a, b, c} : \A y \in {a, b, c} : x <= y
  <2>1. CASE a <= b /\ a <= c
    BY <2>1
  <2>2. CASE b <= a /\ b <= c
    BY <2>2
  <2>3. CASE c <= a /\ c <= b
    BY <2>3
  <2> QED BY <2>1, <2>2, <2>3
<1> QED BY <1>1 DEF Least

\* planReinvestment never plans more than the wallet lacks to its target.
LEMMA PlanBounds ==
  ASSUME NEW credit \in Int, NEW available \in Int
  PROVE  /\ planReinvestment(credit, available) \in Int
         /\ planReinvestment(credit, available) <= TargetCents - credit
<1>1. TargetCents - credit \in Int /\ CapCents \in Int
  BY TreasuryAssumption
<1> DEFINE t == TargetCents - credit
<1> HIDE DEF t
<1>2. /\ Least({t, CapCents, available}) \in {t, CapCents, available}
      /\ \A y \in {t, CapCents, available} : Least({t, CapCents, available}) <= y
  BY <1>1, LeastOfThree DEF t
<1>3. Least({t, CapCents, available}) \in Int /\ Least({t, CapCents, available}) <= t
  BY <1>1, <1>2 DEF t
<1> QED BY <1>3 DEF t, planReinvestment

\* The owner's revenue over all companies.
Revenue == SumFunction(balance)

\* What a heartbeat plans fits the balance it saw.
LEMMA PlanOfState ==
  ASSUME TypeOK, NEW h \in Heartbeats
  PROVE  /\ planReinvestment(seen[h], Revenue) \in Int
         /\ planReinvestment(seen[h], Revenue) <= TargetCents - seen[h]
<1>1. Revenue \in Int
  BY SumType, TreasuryAssumption DEF TypeOK, Revenue
<1>2. seen[h] \in Int
  BY DEF TypeOK
<1> QED BY <1>1, <1>2, PlanBounds


\* The part of the invariant that the withdrawals' control needs.
Rows == TypeOK /\ AttemptInv /\ RowInv

\* Every step keeps the types and the relation of attempts, rows and transfers.
LEMMA RowsInductive == Rows /\ [Next]_vars => Rows'
<1> SUFFICES ASSUME TypeOK, AttemptInv, RowInv, [Next]_vars PROVE Rows'
  BY DEF Rows
<1> USE DEF Rows, sales, outflow, refills, bounds, AFault
<1>1. ASSUME NEW p \in Payments, CheckDuplicate(p) PROVE Rows'
  <2>1. fresh' \in [Payments -> Nat]
    BY <1>1 DEF CheckDuplicate, TypeOK
  <2>2. UNCHANGED <<balance, wallet, recorded, moneyIn, status, flow, current, at, transfer,
                    moneyOut, fees, ready, beat, seen, moved, announced, faults, timeouts,
                    spends>>
    BY <1>1 DEF CheckDuplicate
  <2>3. TypeOK'
    BY <2>1, <2>2 DEF TypeOK
  <2> QED BY <2>2, <2>3 DEF AttemptInv, RowInv
<1>2. ASSUME NEW p \in Payments, RecordPayment(p) PROVE Rows'
  <2>1. fresh' \in [Payments -> Nat]
    BY <1>2 DEF RecordPayment, TypeOK
  <2>2. recorded' \in [Payments -> Nat]
    BY <1>2 DEF RecordPayment, TypeOK
  <2>3. SoldBy[p] \in Companies /\ Net[p] \in Nat
    BY TreasuryAssumption
  <2>4. balance' \in [Companies -> Int]
    BY <1>2, <2>3 DEF RecordPayment, TypeOK
  <2>5. moneyIn' \in [Payments -> Nat]
    BY <1>2 DEF RecordPayment, TypeOK
  <2>6. UNCHANGED <<wallet, status, flow, current, at, transfer, moneyOut, fees, ready, beat,
                    seen, moved, announced, faults, timeouts, spends>>
    BY <1>2 DEF RecordPayment
  <2>7. TypeOK'
    BY <2>1, <2>2, <2>4, <2>5, <2>6 DEF TypeOK
  <2> QED BY <2>6, <2>7 DEF AttemptInv, RowInv
<1>3. ASSUME NEW p \in Payments, RecordAborts(p) PROVE Rows'
  <2>1. fresh' \in [Payments -> Nat]
    BY <1>3 DEF RecordAborts, TypeOK
  <2>2. moneyIn' \in [Payments -> Nat]
    BY <1>3 DEF RecordAborts, TypeOK
  <2>3. MaxFaults \in Nat
    BY TreasuryAssumption
  <2>4. faults' \in 0..MaxFaults
    BY <1>3, <2>3 DEF RecordAborts, TypeOK
  <2>5. UNCHANGED <<balance, wallet, recorded, status, flow, current, at, transfer, moneyOut,
                    fees, ready, beat, seen, moved, announced, timeouts, spends>>
    BY <1>3 DEF RecordAborts
  <2>6. TypeOK'
    BY <2>1, <2>2, <2>4, <2>5 DEF TypeOK
  <2> QED BY <2>5, <2>6 DEF AttemptInv, RowInv
<1>4. ASSUME NEW w \in Withdrawals, Withdraw(w) PROVE Rows'
  <2>1. 1 \in Attempts /\ "preflight" \in Points
    BY TreasuryAssumption DEF Attempts, Points
  <2>2. Moved(w, 1, "preflight")
    BY <1>4, <2>1, MoveMoves DEF Withdraw
  <2>3. /\ flow' \in [Withdrawals -> {"none", "running", "paid", "failed"}]
        /\ \A v \in Withdrawals : flow'[v] = "paid" => flow[v] = "paid"
    BY <1>4 DEF Withdraw, TypeOK
  <2>5. UNCHANGED <<balance, wallet, fresh, recorded, moneyIn, status, current, transfer,
                    moneyOut, fees, ready, beat, seen, moved, announced, faults, timeouts,
                    spends>>
    BY <1>4 DEF Withdraw
  <2>6. TypeOK'
    BY <2>2, <2>3, <2>5 DEF Moved, TypeOK
  <2>7. AttemptInv'
    BY <2>2, <2>5 DEF Moved, AttemptInv, Reserved
  <2>8. RowInv'
    BY <2>3, <2>5 DEF RowInv
  <2> QED BY <2>6, <2>7, <2>8
<1>5. ASSUME NEW w \in Withdrawals, NEW i \in Attempts, NotReady(w, i) PROVE Rows'
  <2>1. "failed" \in Settled
    BY <1>5 DEF NotReady, AttemptInv, Settled
  <2>2. /\ Moved(w, i, "off") /\ current' = current
        /\ flow' \in [Withdrawals -> {"none", "running", "paid", "failed"}]
        /\ \A v \in Withdrawals : flow'[v] # flow[v] => v = w /\ flow'[v] = "failed"
    BY <1>5, <2>1, AnswerMoves DEF NotReady
  <2>3. UNCHANGED <<balance, wallet, fresh, recorded, moneyIn, status, transfer, moneyOut,
                    fees, ready, beat, seen, moved, announced, faults, timeouts, spends>>
    BY <1>5 DEF NotReady
  <2>4. TypeOK'
    BY <2>2, <2>3 DEF Moved, TypeOK
  <2>5. AttemptInv'
    BY <2>2, <2>3 DEF Moved, AttemptInv, Reserved
  <2>6. RowInv'
    BY <2>2, <2>3 DEF RowInv
  <2> QED BY <2>4, <2>5, <2>6
<1>6. ASSUME NEW w \in Withdrawals, NEW i \in Attempts, Preflight(w, i) PROVE Rows'
  <2>1. "reserve" \in Points
    BY DEF Points
  <2>2. Moved(w, i, "reserve")
    BY <1>6, <2>1, MoveMoves DEF Preflight
  <2>3. UNCHANGED <<balance, wallet, fresh, recorded, moneyIn, status, flow, current,
                    transfer, moneyOut, fees, ready, beat, seen, moved, announced, faults,
                    timeouts, spends>>
    BY <1>6 DEF Preflight
  <2>4. TypeOK'
    BY <2>2, <2>3 DEF Moved, TypeOK
  <2>5. AttemptInv'
    BY <2>2, <2>3 DEF Moved, AttemptInv, Reserved
  <2>6. RowInv'
    BY <1>6, <2>2, <2>3 DEF Preflight, AttemptInv, RowInv, TypeOK
  <2> QED BY <2>4, <2>5, <2>6
<1>7. ASSUME NEW w \in Withdrawals, NEW i \in Attempts, Reserve(w, i) PROVE Rows'
  <2>1. "payout" \in Points
    BY DEF Points
  <2>2. Moved(w, i, "payout")
    BY <1>7, <2>1, MoveMoves DEF Reserve
  <2>3. DrawnFrom[w] \in Companies /\ Amount[w] \in Nat
    BY TreasuryAssumption
  <2>4. balance' \in [Companies -> Int]
    BY <1>7, <2>3 DEF Reserve, TypeOK
  <2>5. status' \in [Withdrawals -> {"none", "processing", "paid", "failed"}]
    BY <1>7 DEF Reserve, TypeOK
  <2>6. UNCHANGED <<wallet, fresh, recorded, moneyIn, flow, current, transfer, moneyOut,
                    fees, ready, beat, seen, moved, announced, faults, timeouts, spends>>
    BY <1>7 DEF Reserve
  <2>7. TypeOK'
    BY <2>2, <2>4, <2>5, <2>6 DEF Moved, TypeOK
  <2>8. AttemptInv'
    BY <1>7, <2>2, <2>6 DEF Reserve, Moved, AttemptInv, RowInv, TypeOK, Settled, Reserved
  <2>9. RowInv'
    BY <1>7, <2>2, <2>6 DEF Reserve, AttemptInv, RowInv, TypeOK
  <2> QED BY <2>7, <2>8, <2>9
<1>8. ASSUME NEW w \in Withdrawals, NEW i \in Attempts, Insufficient(w, i) PROVE Rows'
  <2>1. "failed" \in Settled
    BY <1>8 DEF Insufficient, AttemptInv, Settled
  <2>2. /\ Moved(w, i, "off") /\ current' = current
        /\ flow' \in [Withdrawals -> {"none", "running", "paid", "failed"}]
        /\ \A v \in Withdrawals : flow'[v] # flow[v] => v = w /\ flow'[v] = "failed"
    BY <1>8, <2>1, AnswerMoves DEF Insufficient
  <2>3. UNCHANGED <<balance, wallet, fresh, recorded, moneyIn, status, transfer, moneyOut,
                    fees, ready, beat, seen, moved, announced, faults, timeouts, spends>>
    BY <1>8 DEF Insufficient
  <2>4. TypeOK'
    BY <2>2, <2>3 DEF Moved, TypeOK
  <2>5. AttemptInv'
    BY <2>2, <2>3 DEF Moved, AttemptInv, Reserved
  <2>6. RowInv'
    BY <2>2, <2>3 DEF RowInv
  <2> QED BY <2>4, <2>5, <2>6
<1>9. ASSUME NEW w \in Withdrawals, NEW i \in Attempts, Resume(w, i) PROVE Rows'
  <2>1. "payout" \in Points
    BY DEF Points
  <2>2. Moved(w, i, "payout")
    BY <1>9, <2>1, MoveMoves DEF Resume
  <2>3. UNCHANGED <<balance, wallet, fresh, recorded, moneyIn, status, flow, current,
                    transfer, moneyOut, fees, ready, beat, seen, moved, announced, faults,
                    timeouts, spends>>
    BY <1>9 DEF Resume
  <2>4. TypeOK'
    BY <2>2, <2>3 DEF Moved, TypeOK
  <2>5. AttemptInv'
    <3>1. status[w] # "none"
      BY <1>9 DEF Resume
    <3> QED BY <2>2, <2>3, <3>1 DEF Moved, AttemptInv, Reserved
  <2>6. RowInv'
    BY <1>9, <2>2, <2>3 DEF Resume, AttemptInv, RowInv, TypeOK
  <2> QED BY <2>4, <2>5, <2>6
<1>10. ASSUME NEW w \in Withdrawals, NEW i \in Attempts, AlreadySettled(w, i) PROVE Rows'
  <2>1. status[w] \in Settled
    BY <1>10 DEF AlreadySettled, AttemptInv, Settled
  <2>2. /\ Moved(w, i, "off") /\ current' = current
        /\ flow' \in [Withdrawals -> {"none", "running", "paid", "failed"}]
        /\ \A v \in Withdrawals : flow'[v] # flow[v] => v = w /\ flow'[v] = status[w]
    BY <1>10, <2>1, AnswerMoves DEF AlreadySettled
  <2>3. UNCHANGED <<balance, wallet, fresh, recorded, moneyIn, status, transfer, moneyOut,
                    fees, ready, beat, seen, moved, announced, faults, timeouts, spends>>
    BY <1>10 DEF AlreadySettled
  <2>4. TypeOK'
    BY <2>2, <2>3 DEF Moved, TypeOK
  <2>5. AttemptInv'
    BY <2>2, <2>3 DEF Moved, AttemptInv, Reserved
  <2>6. RowInv'
    BY <2>2, <2>3 DEF RowInv
  <2> QED BY <2>4, <2>5, <2>6
<1>11. ASSUME NEW w \in Withdrawals, NEW i \in Attempts, Payout(w, i) PROVE Rows'
  <2>1. PICK a \in {"accepted", "rejected"} :
          /\ transfer[w] \in {"none", a} /\ transfer' = [transfer EXCEPT ![w] = a]
          /\ Move(w, i, IF a = "accepted" THEN "confirm" ELSE "refund")
    BY <1>11 DEF Payout
  <2> DEFINE point == IF a = "accepted" THEN "confirm" ELSE "refund"
  <2>2. point \in Points
    BY DEF Points
  <2>3. Moved(w, i, point)
    BY <2>1, <2>2, MoveMoves
  <2>4. transfer' \in [Withdrawals -> {"none", "accepted", "rejected"}]
    BY <2>1 DEF TypeOK
  <2>5. UNCHANGED <<balance, wallet, fresh, recorded, moneyIn, status, flow, current,
                    moneyOut, fees, ready, beat, seen, moved, announced, faults, timeouts,
                    spends>>
    BY <1>11 DEF Payout
  <2>6. TypeOK'
    BY <2>3, <2>4, <2>5 DEF Moved, TypeOK
  <2>7. status[w] # "none" 
    BY <1>11 DEF Payout, AttemptInv, Reserved
  <2>8. AttemptInv'
    BY <2>1, <2>3, <2>5, <2>7 DEF Moved, AttemptInv, RowInv, TypeOK, Reserved
  <2>9. RowInv'
    BY <2>1, <2>5 DEF RowInv, TypeOK
  <2> QED BY <2>6, <2>8, <2>9
<1>12. ASSUME NEW w \in Withdrawals, NEW i \in Attempts, Confirm(w, i) PROVE Rows'
  <2>1. "moneyOut" \in Points
    BY DEF Points
  <2>2. Moved(w, i, "moneyOut")
    BY <1>12, <2>1, MoveMoves DEF Confirm
  <2>3. status' \in [Withdrawals -> {"none", "processing", "paid", "failed"}]
    BY <1>12 DEF Confirm, TypeOK
  <2>4. UNCHANGED <<balance, wallet, fresh, recorded, moneyIn, flow, current, transfer,
                    moneyOut, fees, ready, beat, seen, moved, announced, faults, timeouts,
                    spends>>
    BY <1>12 DEF Confirm
  <2>5. TypeOK'
    BY <2>2, <2>3, <2>4 DEF Moved, TypeOK
  <2>6. AttemptInv'
    BY <1>12, <2>2, <2>4 DEF Confirm, Moved, AttemptInv, RowInv, TypeOK, Settled, Reserved
  <2>7. RowInv'
    BY <1>12, <2>2, <2>4 DEF Confirm, AttemptInv, RowInv, TypeOK
  <2> QED BY <2>5, <2>6, <2>7
<1>13. ASSUME NEW w \in Withdrawals, NEW i \in Attempts, AnnounceMoneyOut(w, i) PROVE Rows'
  <2> DEFINE point == IF Fee[w] > 0 THEN "fee" ELSE "return"
  <2>1. point \in Points
    BY DEF Points
  <2>2. Moved(w, i, point)
    BY <1>13, <2>1, MoveMoves DEF AnnounceMoneyOut
  <2>3. moneyOut' \in [Withdrawals -> Nat]
    BY <1>13 DEF AnnounceMoneyOut, TypeOK
  <2>4. UNCHANGED <<balance, wallet, fresh, recorded, moneyIn, status, flow, current,
                    transfer, fees, ready, beat, seen, moved, announced, faults, timeouts,
                    spends>>
    BY <1>13 DEF AnnounceMoneyOut
  <2>5. TypeOK'
    BY <2>2, <2>3, <2>4 DEF Moved, TypeOK
  <2>6. AttemptInv'
    BY <1>13, <2>2, <2>4 DEF AnnounceMoneyOut, Moved, AttemptInv, RowInv, TypeOK, Settled,
       Reserved
  <2>7. RowInv'
    BY <1>13, <2>2, <2>4 DEF AnnounceMoneyOut, AttemptInv, RowInv, TypeOK
  <2> QED BY <2>5, <2>6, <2>7
<1>14. ASSUME NEW w \in Withdrawals, NEW i \in Attempts, AnnounceFee(w, i) PROVE Rows'
  <2>1. "return" \in Points
    BY DEF Points
  <2>2. Moved(w, i, "return")
    BY <1>14, <2>1, MoveMoves DEF AnnounceFee
  <2>3. fees' \in [Withdrawals -> Nat]
    BY <1>14 DEF AnnounceFee, TypeOK
  <2>4. UNCHANGED <<balance, wallet, fresh, recorded, moneyIn, status, flow, current,
                    transfer, moneyOut, ready, beat, seen, moved, announced, faults,
                    timeouts, spends>>
    BY <1>14 DEF AnnounceFee
  <2>5. TypeOK'
    BY <2>2, <2>3, <2>4 DEF Moved, TypeOK
  <2>6. AttemptInv'
    BY <1>14, <2>2, <2>4 DEF AnnounceFee, Moved, AttemptInv, RowInv, TypeOK, Settled,
       Reserved
  <2>7. RowInv'
    BY <1>14, <2>2, <2>4 DEF AnnounceFee, AttemptInv, RowInv, TypeOK
  <2> QED BY <2>5, <2>6, <2>7
<1>15. ASSUME NEW w \in Withdrawals, NEW i \in Attempts, Refund(w, i) PROVE Rows'
  <2>1. "return" \in Points
    BY DEF Points
  <2>2. Moved(w, i, "return")
    BY <1>15, <2>1, MoveMoves DEF Refund
  <2>3. DrawnFrom[w] \in Companies /\ Amount[w] \in Nat
    BY TreasuryAssumption
  <2>4. balance' \in [Companies -> Int]
    BY <1>15, <2>3 DEF Refund, TypeOK
  <2>5. status' \in [Withdrawals -> {"none", "processing", "paid", "failed"}]
    BY <1>15 DEF Refund, TypeOK
  <2>6. UNCHANGED <<wallet, fresh, recorded, moneyIn, flow, current, transfer, moneyOut,
                    fees, ready, beat, seen, moved, announced, faults, timeouts, spends>>
    BY <1>15 DEF Refund
  <2>7. TypeOK'
    BY <2>2, <2>4, <2>5, <2>6 DEF Moved, TypeOK
  <2>8. AttemptInv'
    BY <1>15, <2>2, <2>6 DEF Refund, Moved, AttemptInv, RowInv, TypeOK, Settled, Reserved
  <2>9. RowInv'
    BY <1>15, <2>2, <2>6 DEF Refund, AttemptInv, RowInv, TypeOK
  <2> QED BY <2>7, <2>8, <2>9
<1>16. ASSUME NEW w \in Withdrawals, NEW i \in Attempts, Return(w, i) PROVE Rows'
  <2>1. status[w] \in Settled
    BY <1>16 DEF Return, AttemptInv, Settled
  <2>2. /\ Moved(w, i, "off") /\ current' = current
        /\ flow' \in [Withdrawals -> {"none", "running", "paid", "failed"}]
        /\ \A v \in Withdrawals : flow'[v] # flow[v] => v = w /\ flow'[v] = status[w]
    BY <1>16, <2>1, AnswerMoves DEF Return
  <2>3. UNCHANGED <<balance, wallet, fresh, recorded, moneyIn, status, transfer, moneyOut,
                    fees, ready, beat, seen, moved, announced, faults, timeouts, spends>>
    BY <1>16 DEF Return
  <2>4. TypeOK'
    BY <2>2, <2>3 DEF Moved, TypeOK
  <2>5. AttemptInv'
    BY <2>2, <2>3 DEF Moved, AttemptInv, Reserved
  <2>6. RowInv'
    BY <2>2, <2>3 DEF RowInv
  <2> QED BY <2>4, <2>5, <2>6
<1>17. ASSUME NEW w \in Withdrawals, NEW i \in Attempts, Timeout(w, i) PROVE Rows'
  <2>1. at[w][i] \in Points
    BY DEF TypeOK, Points
  <2>2. /\ at' \in [Withdrawals -> [Attempts -> Points]]
        /\ current' \in [Withdrawals -> Attempts]
        /\ flow' \in [Withdrawals -> {"none", "running", "paid", "failed"}]
        /\ \A v \in Withdrawals : flow'[v] # flow[v] => v = w /\ flow'[v] = "failed"
        /\ \A v \in Withdrawals, j \in Attempts :
             at'[v][j] # at[v][j] => v = w /\ at'[v][j] \in {at[w][i], "preflight"}
        /\ at'[w][i] = at[w][i]
    BY <1>17, <2>1, NextAttemptMoves DEF Timeout
  <2>3. timeouts' \in 0..MaxTimeouts
    <3>1. MaxTimeouts \in Nat
      BY TreasuryAssumption
    <3> QED BY <1>17, <3>1 DEF Timeout, TypeOK
  <2>4. UNCHANGED <<balance, wallet, fresh, recorded, moneyIn, status, transfer, moneyOut,
                    fees, ready, beat, seen, moved, announced, faults, spends>>
    BY <1>17 DEF Timeout
  <2>5. TypeOK'
    BY <2>2, <2>3, <2>4 DEF TypeOK
  <2>6. ASSUME NEW v \in Withdrawals, NEW j \in Attempts
        PROVE  at'[v][j] = at[v][j] \/ at'[v][j] = "preflight" \/ (v = w /\ at'[v][j] = at[w][i])
    BY <2>2
  <2>7. AttemptInv'
    BY <2>4, <2>6 DEF AttemptInv, Reserved
  <2>8. RowInv'
    BY <2>2, <2>4 DEF RowInv
  <2> QED BY <2>5, <2>7, <2>8
<1>18. ASSUME NEW w \in Withdrawals, NEW i \in Attempts, AttemptFails(w, i) PROVE Rows'
  <2>1. "off" \in Points
    BY DEF TypeOK, Points
  <2>2. /\ at' \in [Withdrawals -> [Attempts -> Points]]
        /\ current' \in [Withdrawals -> Attempts]
        /\ flow' \in [Withdrawals -> {"none", "running", "paid", "failed"}]
        /\ \A v \in Withdrawals : flow'[v] # flow[v] => v = w /\ flow'[v] = "failed"
        /\ \A v \in Withdrawals, j \in Attempts :
             at'[v][j] # at[v][j] => v = w /\ at'[v][j] \in {"off", "preflight"}
        /\ at'[w][i] = "off"
    BY <1>18, <2>1, NextAttemptMoves DEF AttemptFails
  <2>3. /\ transfer' \in [Withdrawals -> {"none", "accepted", "rejected"}]
        /\ \A v \in Withdrawals : transfer[v] # "none" => transfer'[v] = transfer[v]
    <3>1. CASE at[w][i] = "payout" /\ transfer[w] = "none"
      BY <1>18, <3>1 DEF AttemptFails, TypeOK
    <3>2. CASE ~(at[w][i] = "payout" /\ transfer[w] = "none")
      BY <1>18, <3>2 DEF AttemptFails, TypeOK
    <3> QED BY <3>1, <3>2
  <2>4. moneyOut' \in [Withdrawals -> Nat]
    <3>1. CASE at[w][i] = "moneyOut"
      BY <1>18, <3>1 DEF AttemptFails, TypeOK
    <3>2. CASE at[w][i] # "moneyOut"
      BY <1>18, <3>2 DEF AttemptFails, TypeOK
    <3> QED BY <3>1, <3>2
  <2>5. fees' \in [Withdrawals -> Nat]
    <3>1. CASE at[w][i] = "fee"
      BY <1>18, <3>1 DEF AttemptFails, TypeOK
    <3>2. CASE at[w][i] # "fee"
      BY <1>18, <3>2 DEF AttemptFails, TypeOK
    <3> QED BY <3>1, <3>2
  <2>6. faults' \in 0..MaxFaults
    <3>1. MaxFaults \in Nat
      BY TreasuryAssumption
    <3> QED BY <1>18, <3>1 DEF AttemptFails, TypeOK
  <2>7. UNCHANGED <<balance, wallet, fresh, recorded, moneyIn, status, ready, beat, seen,
                    moved, announced, timeouts, spends>>
    BY <1>18 DEF AttemptFails
  <2>8. TypeOK'
    BY <2>2, <2>3, <2>4, <2>5, <2>6, <2>7 DEF TypeOK
  <2>9. AttemptInv'
    <3>1. ASSUME NEW v \in Withdrawals, NEW j \in Attempts
          PROVE  at'[v][j] = at[v][j] \/ at'[v][j] = "preflight" \/ at'[v][j] = "off"
      BY <2>2
    <3> QED BY <2>3, <2>7, <3>1 DEF AttemptInv, Reserved
  <2>10. RowInv'
    BY <2>2, <2>3, <2>7 DEF RowInv
  <2> QED BY <2>8, <2>9, <2>10
<1>19. ASSUME NEW h \in Heartbeats, WalletLow(h) PROVE Rows'
  <2>1. UNCHANGED <<balance, wallet, fresh, recorded, moneyIn, status, flow, current, at,
                    transfer, moneyOut, fees, ready, moved, announced, faults, timeouts,
                    spends>>
    BY <1>19 DEF WalletLow
  <2>2. beat' \in [Heartbeats -> {"idle", "low"}] /\ seen' \in [Heartbeats -> Int]
    BY <1>19 DEF WalletLow, TypeOK
  <2>3. TypeOK'
    BY <2>1, <2>2 DEF TypeOK
  <2> QED BY <2>1, <2>3 DEF AttemptInv, RowInv
<1>20. ASSUME NEW h \in Heartbeats, NothingToMove(h) PROVE Rows'
  <2>1. UNCHANGED <<balance, wallet, fresh, recorded, moneyIn, status, flow, current, at,
                    transfer, moneyOut, fees, ready, seen, moved, announced, faults,
                    timeouts, spends>>
    BY <1>20 DEF NothingToMove
  <2>2. beat' \in [Heartbeats -> {"idle", "low"}]
    BY <1>20 DEF NothingToMove, TypeOK
  <2>3. TypeOK'
    BY <2>1, <2>2 DEF TypeOK
  <2> QED BY <2>1, <2>3 DEF AttemptInv, RowInv
<1>21. ASSUME NEW h \in Heartbeats, Reinvest(h) PROVE Rows'
  <2>1. PICK take \in Takes :
          /\ balance' = [c \in Companies |-> balance[c] - take[c]]
          /\ moved' = [c \in Companies |-> moved[c] + take[c]]
          /\ announced' = [c \in Companies |-> announced[c] + take[c]]
    BY <1>21 DEF Reinvest
  <2>2. wallet' \in Int
    <3>1. wallet' = wallet + planReinvestment(seen[h], Revenue)
      BY <1>21 DEF Reinvest, Revenue
    <3> QED BY <3>1, PlanOfState DEF TypeOK
  <2>3. \A c \in Companies : take[c] \in Nat
    BY DEF Takes
  <2>4. balance' \in [Companies -> Int]
    BY <2>1, <2>3 DEF TypeOK
  <2>5. moved' \in [Companies -> Nat] /\ announced' \in [Companies -> Nat]
    BY <2>1, <2>3 DEF TypeOK
  <2>6. beat' \in [Heartbeats -> {"idle", "low"}]
    BY <1>21 DEF Reinvest, TypeOK
  <2>7. UNCHANGED <<fresh, recorded, moneyIn, status, flow, current, at, transfer, moneyOut,
                    fees, ready, seen, faults, timeouts, spends>>
    BY <1>21 DEF Reinvest
  <2>8. TypeOK'
    BY <2>2, <2>4, <2>5, <2>6, <2>7 DEF TypeOK
  <2> QED BY <2>7, <2>8 DEF AttemptInv, RowInv
<1>22. ASSUME NEW h \in Heartbeats, ReinvestAborts(h) PROVE Rows'
  <2>1. announced' \in [Companies -> Nat]
    <3>1. CASE UNCHANGED announced
      BY <3>1 DEF TypeOK
    <3>2. ASSUME NEW take \in Takes, NEW told \in SUBSET Companies,
                 announced' = [c \in Companies |->
                                announced[c] + (IF c \in told THEN take[c] ELSE 0)]
          PROVE  announced' \in [Companies -> Nat]
      <4>1. \A c \in Companies : take[c] \in Nat /\ announced[c] \in Nat
        BY DEF Takes, TypeOK
      <4> QED BY <3>2, <4>1
    <3> QED BY <1>22, <3>1, <3>2 DEF ReinvestAborts
  <2>2. beat' \in [Heartbeats -> {"idle", "low"}]
    BY <1>22 DEF ReinvestAborts, TypeOK
  <2>3. faults' \in 0..MaxFaults
    <3>1. MaxFaults \in Nat
      BY TreasuryAssumption
    <3> QED BY <1>22, <3>1 DEF ReinvestAborts, TypeOK
  <2>4. UNCHANGED <<balance, wallet, fresh, recorded, moneyIn, status, flow, current, at,
                    transfer, moneyOut, fees, ready, seen, moved, timeouts, spends>>
    BY <1>22 DEF ReinvestAborts
  <2>5. TypeOK'
    BY <2>1, <2>2, <2>3, <2>4 DEF TypeOK
  <2> QED BY <2>4, <2>5 DEF AttemptInv, RowInv
<1>23. CASE ReadyFlips
  <2>1. UNCHANGED <<balance, wallet, fresh, recorded, moneyIn, status, flow, current, at,
                    transfer, moneyOut, fees, beat, seen, moved, announced, faults, timeouts,
                    spends>>
    BY <1>23 DEF ReadyFlips
  <2>2. ready' \in BOOLEAN
    BY <1>23 DEF ReadyFlips, TypeOK
  <2>3. TypeOK'
    BY <2>1, <2>2 DEF TypeOK
  <2> QED BY <2>1, <2>3 DEF AttemptInv, RowInv
<1>24. CASE SpendCredits
  <2>1. wallet' \in Int
    BY <1>24, TreasuryAssumption DEF SpendCredits, TypeOK
  <2>2. MaxSpends \in Nat /\ Estimate \in Nat
    BY TreasuryAssumption
  <2>3. spends' \in 0..MaxSpends
    BY <1>24, <2>2 DEF SpendCredits, TypeOK
  <2>4. UNCHANGED <<balance, fresh, recorded, moneyIn, status, flow, current, at, transfer,
                    moneyOut, fees, ready, beat, seen, moved, announced, faults, timeouts>>
    BY <1>24 DEF SpendCredits
  <2>5. TypeOK'
    BY <2>1, <2>3, <2>4 DEF TypeOK
  <2> QED BY <2>4, <2>5 DEF AttemptInv, RowInv
<1>25. CASE UNCHANGED vars
  <2>1. UNCHANGED <<balance, wallet, fresh, recorded, moneyIn, status, flow, current, at,
                    transfer, moneyOut, fees, ready, beat, seen, moved, announced, faults,
                    timeouts, spends>>
    BY <1>25 DEF vars
  <2>2. TypeOK'
    BY <2>1 DEF TypeOK
  <2> QED BY <2>1, <2>2 DEF AttemptInv, RowInv
<1> QED
  BY <1>1, <1>2, <1>3, <1>4, <1>5, <1>6, <1>7, <1>8, <1>9, <1>10, <1>11, <1>12, <1>13, <1>14,
     <1>15, <1>16, <1>17, <1>18, <1>19, <1>20, <1>21, <1>22, <1>23, <1>24, <1>25 DEF Next,
     ProcessWithdrawal

\* Which part of the state each kind of step may touch.
LEMMA Frames ==
  ASSUME [Next]_vars
  PROVE  \/ /\ \E p \in Payments : CheckDuplicate(p) \/ RecordPayment(p) \/ RecordAborts(p)
            /\ UNCHANGED <<wallet, outflow, ready, refills, timeouts, spends>>
         \/ /\ \E w \in Withdrawals :
                  Withdraw(w) \/ \E i \in Attempts :
                    ProcessWithdrawal(w, i) \/ Timeout(w, i) \/ AttemptFails(w, i)
            /\ UNCHANGED <<wallet, sales, ready, refills, spends>>
         \/ /\ \E h \in Heartbeats :
                  WalletLow(h) \/ NothingToMove(h) \/ Reinvest(h) \/ ReinvestAborts(h)
            /\ UNCHANGED <<sales, outflow, ready, timeouts, spends>>
         \/ UNCHANGED <<balance, wallet, sales, outflow, refills, bounds>>
         \/ SpendCredits
<1> USE DEF sales, outflow, refills, bounds, AFault
<1>1. ASSUME NEW p \in Payments, CheckDuplicate(p) \/ RecordPayment(p) \/ RecordAborts(p)
      PROVE  UNCHANGED <<wallet, outflow, ready, refills, timeouts, spends>>
  BY <1>1 DEF CheckDuplicate, RecordPayment, RecordAborts
<1>2. ASSUME NEW w \in Withdrawals, Withdraw(w)
      PROVE  UNCHANGED <<wallet, sales, ready, refills, spends>>
  BY <1>2 DEF Withdraw
<1>3. ASSUME NEW w \in Withdrawals, NEW i \in Attempts,
             ProcessWithdrawal(w, i) \/ Timeout(w, i) \/ AttemptFails(w, i)
      PROVE  UNCHANGED <<wallet, sales, ready, refills, spends>>
  BY <1>3 DEF ProcessWithdrawal, NotReady, Preflight, Reserve, Insufficient, Resume,
     AlreadySettled, Payout, Confirm, AnnounceMoneyOut, AnnounceFee, Refund, Return,
     Timeout, AttemptFails
<1>4. ASSUME NEW h \in Heartbeats,
             WalletLow(h) \/ NothingToMove(h) \/ Reinvest(h) \/ ReinvestAborts(h)
      PROVE  UNCHANGED <<sales, outflow, ready, timeouts, spends>>
  BY <1>4 DEF WalletLow, NothingToMove, Reinvest, ReinvestAborts
<1>5. ReadyFlips \/ UNCHANGED vars =>
        UNCHANGED <<balance, wallet, sales, outflow, refills, bounds>>
  BY DEF ReadyFlips, vars
<1> HIDE DEF sales, outflow, refills, bounds, AFault
<1> QED BY <1>1, <1>2, <1>3, <1>4, <1>5 DEF Next

-----------------------------------------------------------------------------
\* Every step keeps payments credited once in turn, and announced first.
LEMMA CreditInductive == TypeOK /\ CreditInv /\ CoverInv /\ [Next]_vars => CreditInv' /\ CoverInv'
<1> SUFFICES ASSUME TypeOK, CreditInv, CoverInv, [Next]_vars PROVE CreditInv' /\ CoverInv'
  OBVIOUS
<1>1. ASSUME NEW p \in Payments, CheckDuplicate(p) PROVE CreditInv' /\ CoverInv'
  BY <1>1 DEF CheckDuplicate, refills, TypeOK, CreditInv, CoverInv
<1>2. ASSUME NEW p \in Payments, RecordPayment(p) PROVE CreditInv' /\ CoverInv'
  <2>1. CreditInv'
    BY <1>2 DEF RecordPayment, TypeOK, CreditInv
  <2>2. CoverInv'
    BY <1>2 DEF RecordPayment, refills, TypeOK, CoverInv
  <2> QED BY <2>1, <2>2
<1>3. ASSUME NEW p \in Payments, RecordAborts(p) PROVE CreditInv' /\ CoverInv'
  <2>1. CreditInv'
    BY <1>3 DEF RecordAborts, TypeOK, CreditInv
  <2>2. \A q \in Payments : moneyIn'[q] >= moneyIn[q]
    BY <1>3 DEF RecordAborts, TypeOK
  <2>3. moneyIn' \in [Payments -> Nat]
    BY <1>3 DEF RecordAborts, TypeOK
  <2>5. UNCHANGED <<recorded, refills>>
    BY <1>3 DEF RecordAborts
  <2>4. CoverInv'
    BY <2>2, <2>3, <2>5 DEF refills, TypeOK, CoverInv
  <2> QED BY <2>1, <2>4
<1>4. CASE UNCHANGED <<sales, refills>>
  BY <1>4 DEF sales, refills, CreditInv, CoverInv
<1>5. ASSUME NEW h \in Heartbeats, Reinvest(h) PROVE CreditInv' /\ CoverInv'
  <2>1. PICK take \in Takes :
          /\ moved' = [c \in Companies |-> moved[c] + take[c]]
          /\ announced' = [c \in Companies |-> announced[c] + take[c]]
    BY <1>5 DEF Reinvest
  <2>2. \A c \in Companies : take[c] \in Nat
    BY DEF Takes
  <2>3. UNCHANGED sales
    BY <1>5 DEF Reinvest
  <2> QED BY <2>1, <2>2, <2>3 DEF sales, TypeOK, CreditInv, CoverInv
<1>6. ASSUME NEW h \in Heartbeats, ReinvestAborts(h) PROVE CreditInv' /\ CoverInv'
  <2>1. \A c \in Companies : announced'[c] \in Nat /\ announced'[c] >= announced[c]
    <3>1. CASE UNCHANGED announced
      BY <3>1 DEF TypeOK
    <3>2. ASSUME NEW take \in Takes, NEW told \in SUBSET Companies,
                 announced' = [c \in Companies |->
                                announced[c] + (IF c \in told THEN take[c] ELSE 0)]
          PROVE  \A c \in Companies : announced'[c] \in Nat /\ announced'[c] >= announced[c]
      <4>1. \A c \in Companies : take[c] \in Nat /\ announced[c] \in Nat
        BY DEF Takes, TypeOK
      <4> QED BY <3>2, <4>1
    <3> QED BY <1>6, <3>1, <3>2 DEF ReinvestAborts
  <2>2. UNCHANGED <<sales, moved>>
    BY <1>6 DEF ReinvestAborts
  <2> QED BY <2>1, <2>2 DEF sales, TypeOK, CreditInv, CoverInv
<1>7. ASSUME NEW h \in Heartbeats, WalletLow(h) \/ NothingToMove(h)
      PROVE  CreditInv' /\ CoverInv'
  BY <1>7 DEF WalletLow, NothingToMove, sales, CreditInv, CoverInv
<1>8. SpendCredits => UNCHANGED <<sales, refills>>
  BY DEF SpendCredits
<1> QED BY <1>1, <1>2, <1>3, <1>4, <1>5, <1>6, <1>7, <1>8, Frames

-----------------------------------------------------------------------------
\* What drainSources takes is what the wallet gains, no more than any company has.
LEMMA ReinvestTakes ==
  ASSUME TypeOK, NEW h \in Heartbeats, Reinvest(h)
  PROVE  \E take \in [Companies -> Nat] :
           /\ balance' = [c \in Companies |-> balance[c] - take[c]]
           /\ moved' = [c \in Companies |-> moved[c] + take[c]]
           /\ wallet' = wallet + SumFunction(take)
           /\ SumFunction(take) <= TargetCents - seen[h]
           /\ SumFunction(take) \in Int /\ SumFunction(take) > 0
           /\ \A c \in Companies : take[c] <= balance[c]
<1> DEFINE amount == planReinvestment(seen[h], SumFunction(balance))
<1>1. amount > 0 /\ wallet' = wallet + amount
  BY DEF Reinvest
<1>2. PICK take \in Takes :
        /\ drainSources(amount, take)
        /\ balance' = [c \in Companies |-> balance[c] - take[c]]
        /\ moved' = [c \in Companies |-> moved[c] + take[c]]
  BY DEF Reinvest
<1>3. amount \in Int /\ amount <= TargetCents - seen[h]
  BY PlanOfState DEF Revenue
<1>4. take \in [Companies -> Nat]
  BY DEF Takes
<1>5. SumFunction(take) = amount /\ \A c \in Companies : take[c] <= balance[c]
  BY <1>2 DEF drainSources
<1> HIDE DEF amount
<1> QED BY <1>1, <1>2, <1>3, <1>4, <1>5

\* No step overdraws a company's revenue.
LEMMA BalanceInductive == TypeOK /\ BalanceNonNegative /\ [Next]_vars => BalanceNonNegative'
<1> SUFFICES ASSUME TypeOK, BalanceNonNegative, [Next]_vars PROVE BalanceNonNegative'
  OBVIOUS
<1>1. ASSUME NEW p \in Payments, RecordPayment(p) PROVE BalanceNonNegative'
  <2>1. SoldBy[p] \in Companies /\ Net[p] \in Nat
    BY TreasuryAssumption
  <2> QED BY <1>1, <2>1 DEF RecordPayment, TypeOK, BalanceNonNegative
<1>2. ASSUME NEW w \in Withdrawals, NEW i \in Attempts, Reserve(w, i)
      PROVE  BalanceNonNegative'
  <2>1. DrawnFrom[w] \in Companies /\ Amount[w] \in Nat
    BY TreasuryAssumption
  <2> QED BY <1>2, <2>1 DEF Reserve, Covers, TypeOK, BalanceNonNegative
<1>3. ASSUME NEW w \in Withdrawals, NEW i \in Attempts, Refund(w, i)
      PROVE  BalanceNonNegative'
  <2>1. DrawnFrom[w] \in Companies /\ Amount[w] \in Nat
    BY TreasuryAssumption
  <2> QED BY <1>3, <2>1 DEF Refund, TypeOK, BalanceNonNegative
<1>4. ASSUME NEW h \in Heartbeats, Reinvest(h) PROVE BalanceNonNegative'
  <2>1. PICK take \in [Companies -> Nat] :
          /\ balance' = [c \in Companies |-> balance[c] - take[c]]
          /\ \A c \in Companies : take[c] <= balance[c]
    BY <1>4, ReinvestTakes
  <2> QED BY <2>1 DEF TypeOK, BalanceNonNegative
<1>5. CASE UNCHANGED balance
  BY <1>5 DEF BalanceNonNegative
<1>6. ASSUME NEW p \in Payments, CheckDuplicate(p) \/ RecordAborts(p)
      PROVE  UNCHANGED balance
  BY <1>6 DEF CheckDuplicate, RecordAborts
<1>7. ASSUME NEW w \in Withdrawals, Withdraw(w) PROVE UNCHANGED balance
  BY <1>7 DEF Withdraw
<1>8. ASSUME NEW w \in Withdrawals, NEW i \in Attempts,
             ProcessWithdrawal(w, i) \/ Timeout(w, i) \/ AttemptFails(w, i)
      PROVE  Reserve(w, i) \/ Refund(w, i) \/ UNCHANGED balance
  BY <1>8 DEF ProcessWithdrawal, NotReady, Preflight, Insufficient, Resume, AlreadySettled,
     Payout, Confirm, AnnounceMoneyOut, AnnounceFee, Return, Timeout, AttemptFails
<1>9. ASSUME NEW h \in Heartbeats, WalletLow(h) \/ NothingToMove(h) \/ ReinvestAborts(h)
      PROVE  UNCHANGED balance
  BY <1>9 DEF WalletLow, NothingToMove, ReinvestAborts
<1>10. SpendCredits => UNCHANGED balance
  BY DEF SpendCredits
<1> QED BY <1>1, <1>2, <1>3, <1>4, <1>5, <1>6, <1>7, <1>8, <1>9, <1>10, Frames

-----------------------------------------------------------------------------
\* The room of a heartbeat is a natural, at most the target.
LEMMA RoomType ==
  ASSUME TypeOK, RefillInv
  PROVE  /\ Room \in [Heartbeats -> Nat] /\ Room \in [Heartbeats -> Int]
         /\ \A h \in Heartbeats : Room[h] <= TargetCents
<1>1. MinCents \in Nat /\ TargetCents \in Nat /\ MinCents <= TargetCents
  BY TreasuryAssumption
<1> QED BY <1>1 DEF TypeOK, RefillInv, Room

\* The limit is a natural, at least the grant and the targets' sum.
LEMMA MostCreditsType ==
  /\ MostCredits \in Nat /\ Grant <= MostCredits
  /\ Cardinality(Heartbeats) * TargetCents <= MostCredits
<1>1. Grant \in Nat /\ TargetCents \in Nat /\ IsFiniteSet(Heartbeats)
  BY TreasuryAssumption
<1>2. Cardinality(Heartbeats) * TargetCents \in Nat
  BY <1>1, FS_CardinalityType
<1> QED BY <1>1, <1>2 DEF MostCredits

\* A heartbeat's refill ends and leaves the wallet richer by gain.
RefillEnds(h, gain) ==
  /\ beat[h] = "low" /\ beat' = [beat EXCEPT ![h] = "idle"]
  /\ gain \in Int /\ 0 <= gain /\ gain <= TargetCents - seen[h]
  /\ wallet' = wallet + gain /\ UNCHANGED <<seen, spends>>

\* Every step keeps the wallet within its limit, and funded by the grant and by
\* the revenue the refills moved.
LEMMA RefillInductive ==
  TypeOK /\ RefillInv /\ WalletFunded /\ [Next]_vars => RefillInv' /\ WalletFunded'
<1> SUFFICES ASSUME TypeOK, RefillInv, WalletFunded, [Next]_vars
             PROVE  RefillInv' /\ WalletFunded'
  OBVIOUS
<1>0. /\ MinCents \in Nat /\ TargetCents \in Nat /\ MinCents <= TargetCents
      /\ Estimate \in Nat /\ Grant \in Nat
      /\ IsFiniteSet(Heartbeats) /\ IsFiniteSet(Companies)
  BY TreasuryAssumption
<1>1. Room \in [Heartbeats -> Nat] /\ Room \in [Heartbeats -> Int]
      /\ \A h \in Heartbeats : Room[h] <= TargetCents
  BY RoomType
<1>2. SumFunction(Room) \in Nat
  BY <1>0, <1>1, SumNat
<1>a. ASSUME NEW h \in Heartbeats, NEW v \in Int
      PROVE  SumFunction([Room EXCEPT ![h] = v]) = SumFunction(Room) - Room[h] + v
  <2>1. IsFiniteSet(Heartbeats) /\ Room \in [Heartbeats -> Int]
    BY <1>0, <1>1
  <2> QED BY <2>1, SumExcept
<1>3. CASE UNCHANGED <<wallet, refills, spends>>
  BY <1>3 DEF refills, RefillInv, WalletFunded, Room
<1>4. ASSUME NEW h \in Heartbeats, WalletLow(h) PROVE RefillInv' /\ WalletFunded'
  <2>1. /\ wallet' = wallet /\ spends' = spends /\ moved' = moved
        /\ beat' = [beat EXCEPT ![h] = "low"] /\ seen' = [seen EXCEPT ![h] = wallet]
        /\ wallet < MinCents /\ beat[h] = "idle"
    BY <1>4 DEF WalletLow, bounds
  <2>2. 0 <= wallet /\ wallet \in Int
    BY DEF RefillInv, TypeOK
  <2>3. \A g \in Heartbeats : beat'[g] = "low" => 0 <= seen'[g] /\ seen'[g] < MinCents
    BY <2>1, <2>2 DEF RefillInv, TypeOK
  <2> DEFINE room == [Room EXCEPT ![h] = TargetCents - wallet]
             full == [Room EXCEPT ![h] = TargetCents]
  <2>4. Room' = room
    BY <2>1 DEF Room, TypeOK
  <2>5. Room[h] = 0
    BY <2>1 DEF Room
  <2>6. SumFunction(room) = SumFunction(Room) - 0 + (TargetCents - wallet)
    <3>1. TargetCents - wallet \in Int
      BY <1>0, <2>2
    <3> QED BY <1>a, <2>5, <3>1
  <2>7. SumFunction(full) = SumFunction(Room) - 0 + TargetCents
    BY <1>0, <1>a, <2>5
  <2>8. full \in [Heartbeats -> Int] /\ \A g \in Heartbeats : full[g] <= TargetCents
    BY <1>0, <1>1
  <2>9. SumFunction(full) <= Cardinality(Heartbeats) * TargetCents
    <3> HIDE DEF full
    <3> QED BY <1>0, <2>8, SumBound
  <2>10. Cardinality(Heartbeats) \in Nat
    BY <1>0, FS_CardinalityType
  <2>11. wallet + SumFunction(room) <= MostCredits
    <3> DEFINE most == Cardinality(Heartbeats) * TargetCents
    <3>1. most \in Int
      BY <1>0, <2>10
    <3> HIDE DEF room, full, most
    <3>2. wallet + SumFunction(room) = SumFunction(full)
      BY <1>0, <1>2, <2>2, <2>6, <2>7
    <3>3. SumFunction(full) <= most /\ most <= MostCredits /\ MostCredits \in Int
      BY <2>9, MostCreditsType DEF most
    <3>4. SumFunction(full) \in Int
      BY <1>0, <1>2, <2>7
    <3> QED BY <3>1, <3>2, <3>3, <3>4
  <2>12. RefillInv'
    <3>1. MostCredits' = MostCredits
      BY DEF MostCredits
    <3> HIDE DEF room
    <3> QED BY <2>1, <2>2, <2>3, <2>4, <2>11, <3>1 DEF RefillInv
  <2>13. WalletFunded'
    BY <2>1 DEF WalletFunded
  <2> QED BY <2>12, <2>13
<1>5. ASSUME NEW h \in Heartbeats, NEW gain, RefillEnds(h, gain) PROVE RefillInv'
  <2> USE DEF RefillEnds
  <2> DEFINE room == [Room EXCEPT ![h] = 0]
  <2>1. Room' = room
    BY <1>5 DEF Room, TypeOK
  <2>2. Room[h] = TargetCents - seen[h] /\ Room[h] \in Int
    BY <1>1, <1>5 DEF Room
  <2>3. SumFunction(room) = SumFunction(Room) - Room[h] + 0
    BY <1>a
  <2>4. \A g \in Heartbeats : beat'[g] = "low" => 0 <= seen'[g] /\ seen'[g] < MinCents
    BY <1>5 DEF RefillInv, TypeOK
  <2>5. MostCredits' = MostCredits /\ MostCredits \in Int
    BY MostCreditsType DEF MostCredits
  <2>6. wallet + SumFunction(Room) <= MostCredits /\ wallet >= 0 /\ wallet \in Int
    BY DEF RefillInv, TypeOK
  <2> HIDE DEF room
  <2>7. wallet' + SumFunction(room) <= MostCredits
    BY <1>2, <1>5, <2>2, <2>3, <2>5, <2>6
  <2>8. wallet' >= 0
    BY <1>5, <2>6
  <2> QED BY <2>1, <2>4, <2>5, <2>7, <2>8 DEF RefillInv
<1>6. ASSUME NEW h \in Heartbeats, NothingToMove(h) \/ ReinvestAborts(h)
      PROVE  RefillInv' /\ WalletFunded'
  <2>1. /\ beat[h] = "low" /\ beat' = [beat EXCEPT ![h] = "idle"]
        /\ seen' = seen /\ wallet' = wallet /\ moved' = moved /\ spends' = spends
    BY <1>6 DEF NothingToMove, ReinvestAborts, AFault, bounds
  <2>2. 0 <= TargetCents - seen[h] /\ wallet' = wallet + 0
    BY <1>0, <2>1 DEF RefillInv, TypeOK
  <2>4. RefillEnds(h, 0)
    BY <2>1, <2>2 DEF RefillEnds
  <2>3. RefillInv'
    BY <1>5, <2>4
  <2> QED BY <2>1, <2>3 DEF WalletFunded
<1>7. ASSUME NEW h \in Heartbeats, Reinvest(h) PROVE RefillInv' /\ WalletFunded'
  <2>1. PICK take \in [Companies -> Nat] :
          /\ moved' = [c \in Companies |-> moved[c] + take[c]]
          /\ wallet' = wallet + SumFunction(take)
          /\ SumFunction(take) <= TargetCents - seen[h]
          /\ SumFunction(take) \in Int /\ SumFunction(take) > 0
    BY <1>7, ReinvestTakes
  <2>2. /\ beat[h] = "low" /\ beat' = [beat EXCEPT ![h] = "idle"]
        /\ seen' = seen /\ spends' = spends
    BY <1>7 DEF Reinvest, bounds
  <2>10. RefillEnds(h, SumFunction(take))
    BY <2>1, <2>2 DEF RefillEnds
  <2>3. RefillInv'
    BY <1>5, <2>10
  <2>4. moved \in [Companies -> Int] /\ take \in [Companies -> Int]
    BY DEF TypeOK
  <2>5. SumFunction(moved') = SumFunction(moved) + SumFunction(take)
    BY <1>0, <2>1, <2>4, SumPlus
  <2>6. SumFunction(moved) \in Int /\ spends * Estimate \in Int
    <3>1. SumFunction(moved) \in Int
      BY <1>0, <2>4, SumType
    <3> QED BY <1>0, <3>1 DEF TypeOK
  <2> DEFINE spent == spends * Estimate
  <2>7. wallet = Grant + SumFunction(moved) - spent /\ spent \in Int
    BY <2>6 DEF WalletFunded
  <2> HIDE DEF spent
  <2>8. wallet' = Grant + SumFunction(moved') - spent
    BY <1>0, <2>1, <2>5, <2>6, <2>7
  <2>9. WalletFunded'
    BY <2>2, <2>8 DEF WalletFunded, spent
  <2> QED BY <2>3, <2>9
<1>8. CASE SpendCredits
  <2>1. /\ wallet >= Estimate /\ wallet' = wallet - Estimate /\ spends' = spends + 1
        /\ UNCHANGED refills
    BY <1>8 DEF SpendCredits
  <2>2. wallet \in Int /\ spends \in Nat
    BY DEF TypeOK
  <2>3. RefillInv'
    <3>1. Room' = Room /\ MostCredits' = MostCredits /\ MostCredits \in Int
      BY <2>1, MostCreditsType DEF Room, refills, MostCredits
    <3>2. wallet + SumFunction(Room) <= MostCredits
      BY DEF RefillInv
    <3>3. wallet' + SumFunction(Room) <= MostCredits
      BY <1>0, <1>2, <2>1, <2>2, <3>1, <3>2
    <3>4. wallet' >= 0
      BY <1>0, <2>1, <2>2
    <3> QED BY <2>1, <3>1, <3>3, <3>4 DEF RefillInv, refills
  <2>4. moved' = moved /\ SumFunction(moved) \in Int
    <3>1. moved \in [Companies -> Int]
      BY DEF TypeOK
    <3> QED BY <1>0, <2>1, <3>1, SumType DEF refills
  <2>5. spends' * Estimate = spends * Estimate + Estimate /\ spends * Estimate \in Int
    BY <1>0, <2>1, <2>2
  <2>6. WalletFunded'
    BY <1>0, <2>1, <2>2, <2>4, <2>5 DEF WalletFunded
  <2> QED BY <2>3, <2>6
<1>9. UNCHANGED <<balance, wallet, sales, outflow, refills, bounds>> =>
        UNCHANGED <<wallet, refills, spends>>
  BY DEF bounds
<1> QED BY <1>3, <1>4, <1>6, <1>7, <1>8, <1>9, Frames

-----------------------------------------------------------------------------
\* Where no attempt has timed out yet, none had before and none just did.
LEMMA TimeoutsGrow ==
  ASSUME TypeOK, [Next]_vars, timeouts' = 0
  PROVE  /\ timeouts = 0
         /\ \A w \in Withdrawals, i \in Attempts : ~Timeout(w, i)
<1>1. ASSUME NEW w \in Withdrawals, NEW i \in Attempts, Timeout(w, i) PROVE FALSE
  BY <1>1 DEF Timeout, TypeOK
<1>2. ASSUME NEW w \in Withdrawals, NEW i \in Attempts,
             ProcessWithdrawal(w, i) \/ AttemptFails(w, i)
      PROVE  UNCHANGED timeouts
  BY <1>2 DEF ProcessWithdrawal, NotReady, Preflight, Reserve, Insufficient, Resume,
     AlreadySettled, Payout, Confirm, AnnounceMoneyOut, AnnounceFee, Refund, Return,
     AttemptFails, AFault, bounds
<1>3. (\E w \in Withdrawals : Withdraw(w)) \/ SpendCredits => UNCHANGED timeouts
  BY DEF Withdraw, SpendCredits, bounds
<1>4. UNCHANGED timeouts
  BY <1>1, <1>2, <1>3, Frames DEF bounds
<1> QED BY <1>1, <1>4

\* The current attempt's failure leaves one live attempt, or none.
LEMMA NextAttemptAlone ==
  ASSUME TypeOK, NEW w \in Withdrawals, NEW i \in Attempts, NextAttempt(w, i, "off"),
         i = current[w], flow[w] = "running"
  PROVE  /\ \A v \in Withdrawals \ {w} : /\ flow'[v] = flow[v] /\ current'[v] = current[v]
                                       /\ \A j \in Attempts : at'[v][j] = at[v][j]
         /\ \/ /\ flow'[w] = "running"
               /\ \A j \in Attempts : at'[w][j] = IF j = current'[w] THEN "preflight"
                                                 ELSE IF j = i THEN "off" ELSE at[w][j]
            \/ /\ flow'[w] = "failed"
               /\ \A j \in Attempts : at'[w][j] = IF j = i THEN "off" ELSE at[w][j]
<1>1. CASE i < MaxAttempts
  <2>1. i + 1 \in Attempts /\ i + 1 # i
    BY <1>1, TreasuryAssumption DEF Attempts
  <2>2. /\ current' = [current EXCEPT ![w] = i + 1]
        /\ at' = [at EXCEPT ![w][i] = "off", ![w][i + 1] = "preflight"]
        /\ flow' = flow
    BY <1>1 DEF NextAttempt
  <2>3. \A v \in Withdrawals, j \in Attempts :
          at'[v][j] = IF v = w /\ j = i + 1 THEN "preflight"
                      ELSE IF v = w /\ j = i THEN "off" ELSE at[v][j]
    BY <2>1, <2>2 DEF TypeOK
  <2>4. current'[w] = i + 1 /\ \A v \in Withdrawals \ {w} : current'[v] = current[v]
    BY <2>2 DEF TypeOK
  <2>5. \A v \in Withdrawals \ {w}, j \in Attempts : at'[v][j] = at[v][j]
    BY <2>3
  <2>6. \A j \in Attempts : at'[w][j] = IF j = current'[w] THEN "preflight"
                                       ELSE IF j = i THEN "off" ELSE at[w][j]
    BY <2>3, <2>4
  <2>7. flow'[w] = "running" /\ flow' = flow
    BY <2>2
  <2> QED BY <2>4, <2>5, <2>6, <2>7
<1>2. CASE ~(i < MaxAttempts)
  <2>1. Move(w, i, "off") /\ current' = current
    BY <1>2 DEF NextAttempt
  <2>2. flow' = [flow EXCEPT ![w] = "failed"]
    BY <1>2 DEF NextAttempt
  <2>3. Moved(w, i, "off")
    BY <2>1, MoveMoves DEF Points
  <2> QED BY <2>1, <2>2, <2>3 DEF Moved, TypeOK
<1> QED BY <1>1, <1>2

\* A withdrawal nothing happened to stays alone.
LEMMA Elsewhere ==
  ASSUME NEW v \in Withdrawals, AloneAt(v), \A j \in Attempts : at'[v][j] = at[v][j],
         flow'[v] = flow[v], current'[v] = current[v], status'[v] = status[v],
         moneyOut'[v] = moneyOut[v], fees'[v] = fees[v]
  PROVE  AloneAt(v)'
BY DEF AloneAt

\* Every step keeps the withdrawals alone, as long as no attempt times out.
LEMMA AloneInductive == TypeOK /\ AttemptInv /\ RowInv /\ AloneInv /\ [Next]_vars => AloneInv'
<1> SUFFICES ASSUME TypeOK, AttemptInv, RowInv, AloneInv, [Next]_vars, timeouts' = 0,
                    NEW v \in Withdrawals
             PROVE  AloneAt(v)'
  BY DEF AloneInv
<1>0. \A w \in Withdrawals : AloneAt(w)
  BY TimeoutsGrow DEF AloneInv
<1>1. CASE UNCHANGED outflow
  <2>1. AloneAt(v)
    BY <1>0
  <2> QED BY <1>1, <2>1 DEF outflow, AloneAt
<1>2. ASSUME NEW w \in Withdrawals, Withdraw(w) PROVE AloneAt(v)'
  <2>1. 1 \in Attempts /\ "preflight" \in Points
    BY TreasuryAssumption DEF Attempts, Points
  <2>2. Moved(w, 1, "preflight")
    BY <1>2, <2>1, MoveMoves DEF Withdraw
  <2>3. /\ flow[w] = "none" /\ flow'[w] = "running"
        /\ \A u \in Withdrawals \ {w} : flow'[u] = flow[u]
        /\ UNCHANGED <<current, status, moneyOut, fees>>
    BY <1>2 DEF Withdraw, TypeOK
  <2>4. AloneAt(v)
    BY <1>0
  <2>5. CASE v = w
    BY <2>2, <2>3, <2>4, <2>5 DEF Moved, AloneAt
  <2>6. CASE v # w
    BY <2>2, <2>3, <2>4, <2>6, Elsewhere DEF Moved
  <2> QED BY <2>5, <2>6
<1>3. ASSUME NEW w \in Withdrawals, NEW i \in Attempts, NotReady(w, i) PROVE AloneAt(v)'
  <2>1. "failed" \in Settled
    BY <1>3 DEF NotReady, AttemptInv, Settled
  <2>2. /\ Moved(w, i, "off") /\ current' = current
        /\ \A u \in Withdrawals : flow'[u] # flow[u] => u = w /\ flow'[u] = "failed"
        /\ i = current[w] => flow'[w] # "running"
    BY <1>3, <2>1, AnswerMoves DEF NotReady
  <2>3. UNCHANGED <<status, moneyOut, fees>> /\ at[w][i] # "off"
    BY <1>3 DEF NotReady
  <2>4. AloneAt(v) /\ AloneAt(w)
    BY <1>0
  <2>5. CASE v = w
    <3>1. i = current[w] /\ flow'[w] = "failed"
      BY <2>2, <2>3, <2>4 DEF AloneAt
    <3> QED BY <2>1, <2>2, <2>3, <2>4, <2>5, <3>1 DEF Moved, AloneAt, Settled
  <2>6. CASE v # w
    <3>1. flow'[v] = flow[v]
      BY <2>2, <2>6
    <3> QED BY <2>2, <2>3, <2>4, <2>6, <3>1, Elsewhere DEF Moved
  <2> QED BY <2>5, <2>6
<1>4. ASSUME NEW w \in Withdrawals, NEW i \in Attempts, Preflight(w, i) PROVE AloneAt(v)'
  <2>1. "reserve" \in Points /\ "reserve" # "off"
    BY DEF Points
  <2>2. Moved(w, i, "reserve")
    BY <1>4, <2>1, MoveMoves DEF Preflight
  <2>3. /\ at[w][i] = "preflight"
        /\ UNCHANGED <<flow, current, status, moneyOut, fees>>
    BY <1>4 DEF Preflight, TypeOK
  <2>4. AloneAt(v) /\ AloneAt(w)
    BY <1>0
  <2>5. CASE v = w
    <3>1. i = current[w] /\ flow[w] = "running"
      BY <2>3, <2>4 DEF AloneAt
    <3>2. fees[w] \in Nat /\ moneyOut[w] \in Nat
      BY DEF TypeOK
    <3>3. /\ at[w][i] \in {"moneyOut", "fee"} => status[w] = "paid"
      BY DEF AttemptInv
    <3> QED BY <2>1, <2>2, <2>3, <2>4, <2>5, <3>1, <3>2, <3>3 DEF Moved, AloneAt
  <2>6. CASE v # w
    BY <2>2, <2>3, <2>4, <2>6, Elsewhere DEF Moved
  <2> QED BY <2>5, <2>6
<1>5. ASSUME NEW w \in Withdrawals, NEW i \in Attempts, Reserve(w, i) PROVE AloneAt(v)'
  <2>1. "payout" \in Points /\ "payout" # "off"
    BY DEF Points
  <2>2. Moved(w, i, "payout")
    BY <1>5, <2>1, MoveMoves DEF Reserve
  <2>3. /\ at[w][i] = "reserve" /\ status[w] = "none"
        /\ UNCHANGED <<flow, current, moneyOut, fees>>
        /\ status'[w] = "processing" /\ \A u \in Withdrawals \ {w} : status'[u] = status[u]
    BY <1>5 DEF Reserve, TypeOK
  <2>4. AloneAt(v) /\ AloneAt(w)
    BY <1>0
  <2>5. CASE v = w
    <3>1. i = current[w] /\ flow[w] = "running"
      BY <2>3, <2>4 DEF AloneAt
    <3>2. fees[w] \in Nat /\ moneyOut[w] \in Nat
      BY DEF TypeOK
    <3>3. /\ at[w][i] \in {"moneyOut", "fee"} => status[w] = "paid"
      BY DEF AttemptInv
    <3> QED BY <2>1, <2>2, <2>3, <2>4, <2>5, <3>1, <3>2, <3>3 DEF Moved, AloneAt
  <2>6. CASE v # w
    BY <2>2, <2>3, <2>4, <2>6, Elsewhere DEF Moved
  <2> QED BY <2>5, <2>6
<1>6. ASSUME NEW w \in Withdrawals, NEW i \in Attempts, Insufficient(w, i) PROVE AloneAt(v)'
  <2>1. "failed" \in Settled
    BY <1>6 DEF Insufficient, AttemptInv, Settled
  <2>2. /\ Moved(w, i, "off") /\ current' = current
        /\ \A u \in Withdrawals : flow'[u] # flow[u] => u = w /\ flow'[u] = "failed"
        /\ i = current[w] => flow'[w] # "running"
    BY <1>6, <2>1, AnswerMoves DEF Insufficient
  <2>3. UNCHANGED <<status, moneyOut, fees>> /\ at[w][i] # "off"
    BY <1>6 DEF Insufficient
  <2>4. AloneAt(v) /\ AloneAt(w)
    BY <1>0
  <2>5. CASE v = w
    <3>1. i = current[w] /\ flow'[w] = "failed"
      BY <2>2, <2>3, <2>4 DEF AloneAt
    <3> QED BY <2>1, <2>2, <2>3, <2>4, <2>5, <3>1 DEF Moved, AloneAt, Settled
  <2>6. CASE v # w
    <3>1. flow'[v] = flow[v]
      BY <2>2, <2>6
    <3> QED BY <2>2, <2>3, <2>4, <2>6, <3>1, Elsewhere DEF Moved
  <2> QED BY <2>5, <2>6
<1>7. ASSUME NEW w \in Withdrawals, NEW i \in Attempts, Resume(w, i) PROVE AloneAt(v)'
  <2>1. "payout" \in Points /\ "payout" # "off"
    BY DEF Points
  <2>2. Moved(w, i, "payout")
    BY <1>7, <2>1, MoveMoves DEF Resume
  <2>3. /\ at[w][i] = "reserve" /\ status[w] = "processing"
        /\ UNCHANGED <<flow, current, status, moneyOut, fees>>
    BY <1>7 DEF Resume, TypeOK
  <2>4. AloneAt(v) /\ AloneAt(w)
    BY <1>0
  <2>5. CASE v = w
    <3>1. i = current[w] /\ flow[w] = "running"
      BY <2>3, <2>4 DEF AloneAt
    <3>2. fees[w] \in Nat /\ moneyOut[w] \in Nat
      BY DEF TypeOK
    <3>3. /\ at[w][i] \in {"moneyOut", "fee"} => status[w] = "paid"
      BY DEF AttemptInv
    <3> QED BY <2>1, <2>2, <2>3, <2>4, <2>5, <3>1, <3>2, <3>3 DEF Moved, AloneAt
  <2>6. CASE v # w
    BY <2>2, <2>3, <2>4, <2>6, Elsewhere DEF Moved
  <2> QED BY <2>5, <2>6
<1>8. ASSUME NEW w \in Withdrawals, NEW i \in Attempts, AlreadySettled(w, i)
      PROVE  AloneAt(v)'
  <2>1. status[w] \in Settled
    BY <1>8 DEF AlreadySettled, AttemptInv, Settled
  <2>2. /\ Moved(w, i, "off") /\ current' = current
        /\ \A u \in Withdrawals : flow'[u] # flow[u] => u = w /\ flow'[u] = status[w]
        /\ i = current[w] => flow'[w] # "running"
    BY <1>8, <2>1, AnswerMoves DEF AlreadySettled
  <2>3. UNCHANGED <<status, moneyOut, fees>> /\ at[w][i] # "off"
    BY <1>8 DEF AlreadySettled
  <2>4. AloneAt(v) /\ AloneAt(w)
    BY <1>0
  <2>5. CASE v = w
    <3>1. i = current[w] /\ flow'[w] = status[w]
      BY <2>2, <2>3, <2>4 DEF AloneAt
    <3> QED BY <2>1, <2>2, <2>3, <2>4, <2>5, <3>1 DEF Moved, AloneAt, Settled
  <2>6. CASE v # w
    <3>1. flow'[v] = flow[v]
      BY <2>2, <2>6
    <3> QED BY <2>2, <2>3, <2>4, <2>6, <3>1, Elsewhere DEF Moved
  <2> QED BY <2>5, <2>6
<1>9. ASSUME NEW w \in Withdrawals, NEW i \in Attempts, Payout(w, i) PROVE AloneAt(v)'
  <2>0. PICK a \in {"accepted", "rejected"} :
          Move(w, i, IF a = "accepted" THEN "confirm" ELSE "refund")
    BY <1>9 DEF Payout
  <2> DEFINE point == IF a = "accepted" THEN "confirm" ELSE "refund"
  <2>1. point \in Points /\ point # "off"
    BY DEF Points
  <2>2. Moved(w, i, point)
    BY <2>0, <2>1, MoveMoves DEF Payout
  <2>3. /\ at[w][i] = "payout"
        /\ UNCHANGED <<flow, current, status, moneyOut, fees>>
    BY <1>9 DEF Payout, TypeOK
  <2>4. AloneAt(v) /\ AloneAt(w)
    BY <1>0
  <2>5. CASE v = w
    <3>1. i = current[w] /\ flow[w] = "running"
      BY <2>3, <2>4 DEF AloneAt
    <3>2. fees[w] \in Nat /\ moneyOut[w] \in Nat
      BY DEF TypeOK
    <3>3. /\ at[w][i] \in {"moneyOut", "fee"} => status[w] = "paid"
      BY DEF AttemptInv
    <3> QED BY <2>1, <2>2, <2>3, <2>4, <2>5, <3>1, <3>2, <3>3 DEF Moved, AloneAt
  <2>6. CASE v # w
    BY <2>2, <2>3, <2>4, <2>6, Elsewhere DEF Moved
  <2> QED BY <2>5, <2>6
<1>10. ASSUME NEW w \in Withdrawals, NEW i \in Attempts, Confirm(w, i) PROVE AloneAt(v)'
  <2>1. "moneyOut" \in Points /\ "moneyOut" # "off"
    BY DEF Points
  <2>2. Moved(w, i, "moneyOut")
    BY <1>10, <2>1, MoveMoves DEF Confirm
  <2>3. /\ at[w][i] = "confirm"
        /\ UNCHANGED <<flow, current, moneyOut, fees>>
        /\ status'[w] = "paid" /\ \A u \in Withdrawals \ {w} : status'[u] = status[u]
    BY <1>10 DEF Confirm, TypeOK
  <2>4. AloneAt(v) /\ AloneAt(w)
    BY <1>0
  <2>5. CASE v = w
    <3>1. i = current[w] /\ flow[w] = "running"
      BY <2>3, <2>4 DEF AloneAt
    <3>2. fees[w] \in Nat /\ moneyOut[w] \in Nat
      BY DEF TypeOK
    <3>3. /\ at[w][i] \in {"moneyOut", "fee"} => status[w] = "paid"
      BY DEF AttemptInv
    <3> QED BY <2>1, <2>2, <2>3, <2>4, <2>5, <3>1, <3>2, <3>3 DEF Moved, AloneAt
  <2>6. CASE v # w
    BY <2>2, <2>3, <2>4, <2>6, Elsewhere DEF Moved
  <2> QED BY <2>5, <2>6
<1>11. ASSUME NEW w \in Withdrawals, NEW i \in Attempts, AnnounceMoneyOut(w, i)
       PROVE  AloneAt(v)'
  <2> DEFINE point == IF Fee[w] > 0 THEN "fee" ELSE "return"
  <2>1. point \in Points /\ point # "off"
    BY DEF Points
  <2>2. Moved(w, i, point)
    BY <1>11, <2>1, MoveMoves DEF AnnounceMoneyOut
  <2>3. /\ at[w][i] = "moneyOut"
        /\ UNCHANGED <<flow, current, status, fees>>
        /\ moneyOut'[w] = moneyOut[w] + 1 /\ \A u \in Withdrawals \ {w} : moneyOut'[u] = moneyOut[u]
    BY <1>11 DEF AnnounceMoneyOut, TypeOK
  <2>4. AloneAt(v) /\ AloneAt(w)
    BY <1>0
  <2>5. CASE v = w
    <3>1. i = current[w] /\ flow[w] = "running"
      BY <2>3, <2>4 DEF AloneAt
    <3>2. fees[w] \in Nat /\ moneyOut[w] \in Nat
      BY DEF TypeOK
    <3>3. /\ at[w][i] \in {"moneyOut", "fee"} => status[w] = "paid"
      BY DEF AttemptInv
    <3> QED BY <2>1, <2>2, <2>3, <2>4, <2>5, <3>1, <3>2, <3>3 DEF Moved, AloneAt
  <2>6. CASE v # w
    BY <2>2, <2>3, <2>4, <2>6, Elsewhere DEF Moved
  <2> QED BY <2>5, <2>6
<1>12. ASSUME NEW w \in Withdrawals, NEW i \in Attempts, AnnounceFee(w, i) PROVE AloneAt(v)'
  <2>1. "return" \in Points /\ "return" # "off"
    BY DEF Points
  <2>2. Moved(w, i, "return")
    BY <1>12, <2>1, MoveMoves DEF AnnounceFee
  <2>3. /\ at[w][i] = "fee"
        /\ UNCHANGED <<flow, current, status, moneyOut>>
        /\ fees'[w] = fees[w] + 1 /\ \A u \in Withdrawals \ {w} : fees'[u] = fees[u]
    BY <1>12 DEF AnnounceFee, TypeOK
  <2>4. AloneAt(v) /\ AloneAt(w)
    BY <1>0
  <2>5. CASE v = w
    <3>1. i = current[w] /\ flow[w] = "running"
      BY <2>3, <2>4 DEF AloneAt
    <3>2. fees[w] \in Nat /\ moneyOut[w] \in Nat
      BY DEF TypeOK
    <3>3. /\ at[w][i] \in {"moneyOut", "fee"} => status[w] = "paid"
      BY DEF AttemptInv
    <3> QED BY <2>1, <2>2, <2>3, <2>4, <2>5, <3>1, <3>2, <3>3 DEF Moved, AloneAt
  <2>6. CASE v # w
    BY <2>2, <2>3, <2>4, <2>6, Elsewhere DEF Moved
  <2> QED BY <2>5, <2>6
<1>13. ASSUME NEW w \in Withdrawals, NEW i \in Attempts, Refund(w, i) PROVE AloneAt(v)'
  <2>1. "return" \in Points /\ "return" # "off"
    BY DEF Points
  <2>2. Moved(w, i, "return")
    BY <1>13, <2>1, MoveMoves DEF Refund
  <2>3. /\ at[w][i] = "refund"
        /\ UNCHANGED <<flow, current, moneyOut, fees>>
        /\ status'[w] = "failed" /\ \A u \in Withdrawals \ {w} : status'[u] = status[u]
    BY <1>13 DEF Refund, TypeOK
  <2>4. AloneAt(v) /\ AloneAt(w)
    BY <1>0
  <2>5. CASE v = w
    <3>1. i = current[w] /\ flow[w] = "running"
      BY <2>3, <2>4 DEF AloneAt
    <3>2. fees[w] \in Nat /\ moneyOut[w] \in Nat
      BY DEF TypeOK
    <3>3. /\ at[w][i] \in {"moneyOut", "fee"} => status[w] = "paid"
      BY DEF AttemptInv
    <3> QED BY <2>1, <2>2, <2>3, <2>4, <2>5, <3>1, <3>2, <3>3 DEF Moved, AloneAt
  <2>6. CASE v # w
    BY <2>2, <2>3, <2>4, <2>6, Elsewhere DEF Moved
  <2> QED BY <2>5, <2>6
<1>14. ASSUME NEW w \in Withdrawals, NEW i \in Attempts, Return(w, i) PROVE AloneAt(v)'
  <2>1. status[w] \in Settled
    BY <1>14 DEF Return, AttemptInv, Settled
  <2>2. /\ Moved(w, i, "off") /\ current' = current
        /\ \A u \in Withdrawals : flow'[u] # flow[u] => u = w /\ flow'[u] = status[w]
        /\ i = current[w] => flow'[w] # "running"
    BY <1>14, <2>1, AnswerMoves DEF Return
  <2>3. UNCHANGED <<status, moneyOut, fees>> /\ at[w][i] # "off"
    BY <1>14 DEF Return
  <2>4. AloneAt(v) /\ AloneAt(w)
    BY <1>0
  <2>5. CASE v = w
    <3>1. i = current[w] /\ flow'[w] = status[w]
      BY <2>2, <2>3, <2>4 DEF AloneAt
    <3> QED BY <2>1, <2>2, <2>3, <2>4, <2>5, <3>1 DEF Moved, AloneAt, Settled
  <2>6. CASE v # w
    <3>1. flow'[v] = flow[v]
      BY <2>2, <2>6
    <3> QED BY <2>2, <2>3, <2>4, <2>6, <3>1, Elsewhere DEF Moved
  <2> QED BY <2>5, <2>6
<1>15. ASSUME NEW w \in Withdrawals, NEW i \in Attempts, AttemptFails(w, i)
       PROVE  AloneAt(v)'
  <2>1. AloneAt(v) /\ AloneAt(w)
    BY <1>0
  <2>2. at[w][i] # "off" /\ i = current[w] /\ flow[w] = "running"
    BY <1>15, <2>1 DEF AttemptFails, AloneAt
  <2>3. /\ \A u \in Withdrawals \ {w} : /\ flow'[u] = flow[u] /\ current'[u] = current[u]
                                        /\ \A j \in Attempts : at'[u][j] = at[u][j]
        /\ \/ /\ flow'[w] = "running"
              /\ \A j \in Attempts : at'[w][j] = IF j = current'[w] THEN "preflight"
                                                ELSE IF j = i THEN "off" ELSE at[w][j]
           \/ /\ flow'[w] = "failed"
              /\ \A j \in Attempts : at'[w][j] = IF j = i THEN "off" ELSE at[w][j]
    BY <1>15, <2>2, NextAttemptAlone DEF AttemptFails
  <2>4. status' = status
    BY <1>15 DEF AttemptFails
  <2>5. /\ \A u \in Withdrawals \ {w} : moneyOut'[u] = moneyOut[u]
        /\ moneyOut'[w] = moneyOut[w] \/ (at[w][i] = "moneyOut" /\ moneyOut'[w] = moneyOut[w] + 1)
    <3>1. CASE at[w][i] = "moneyOut"
      BY <1>15, <3>1 DEF AttemptFails, TypeOK
    <3>2. CASE at[w][i] # "moneyOut"
      BY <1>15, <3>2 DEF AttemptFails
    <3> QED BY <3>1, <3>2
  <2>6. /\ \A u \in Withdrawals \ {w} : fees'[u] = fees[u]
        /\ fees'[w] = fees[w] \/ (at[w][i] = "fee" /\ fees'[w] = fees[w] + 1)
    <3>1. CASE at[w][i] = "fee"
      BY <1>15, <3>1 DEF AttemptFails, TypeOK
    <3>2. CASE at[w][i] # "fee"
      BY <1>15, <3>2 DEF AttemptFails
    <3> QED BY <3>1, <3>2
  <2>7. CASE v = w
    <3>1. \A j \in Attempts : at'[w][j] \in {"off", "preflight"}
      BY <2>1, <2>2, <2>3 DEF AloneAt
    <3>2. \A j \in Attempts : at'[w][j] # "off" => j = current'[w] /\ flow'[w] = "running"
      BY <2>1, <2>2, <2>3 DEF AloneAt
    <3>3. flow'[w] # "none"
      BY <2>3
    <3>4. /\ status'[w] # "paid" => moneyOut'[w] = 0
          /\ fees'[w] <= moneyOut'[w] /\ moneyOut'[w] <= 1
      BY <2>1, <2>4, <2>5, <2>6 DEF AloneAt, AttemptInv, TypeOK
    <3> QED BY <2>7, <3>1, <3>2, <3>3, <3>4 DEF AloneAt
  <2>8. CASE v # w
    BY <2>1, <2>3, <2>4, <2>5, <2>6, <2>8, Elsewhere
  <2> QED BY <2>7, <2>8
<1>16. ASSUME NEW w \in Withdrawals, NEW i \in Attempts, Timeout(w, i) PROVE AloneAt(v)'
  BY <1>16, TimeoutsGrow
<1>17. \/ SpendCredits
       \/ \E h \in Heartbeats :
            WalletLow(h) \/ NothingToMove(h) \/ Reinvest(h) \/ ReinvestAborts(h)
       => UNCHANGED outflow
  BY Frames DEF SpendCredits, WalletLow, NothingToMove, Reinvest, ReinvestAborts
<1> QED BY <1>1, <1>2, <1>3, <1>4, <1>5, <1>6, <1>7, <1>8, <1>9, <1>10, <1>11, <1>12, <1>13,
   <1>14, <1>15, <1>16, <1>17, Frames DEF ProcessWithdrawal

-----------------------------------------------------------------------------
\* The sales recorded for c.
Sold(c) == {p \in Payments : SoldBy[p] = c /\ recorded[p] > 0}

\* The withdrawals that hold or took c's revenue.
Drawn(c) == {w \in Withdrawals : DrawnFrom[w] = c /\ status[w] \in {"processing", "paid"}}

\* What the sums run over is finite.
LEMMA SalesTypes ==
  /\ IsFiniteSet(Payments) /\ Net \in [Payments -> Int]
  /\ IsFiniteSet(Withdrawals) /\ Amount \in [Withdrawals -> Int]
BY TreasuryAssumption

\* What c earned and withdrew are integers, summed over its sales and withdrawals.
LEMMA BooksType ==
  ASSUME TypeOK, NEW c \in Companies
  PROVE  /\ balance[c] \in Int /\ moved[c] \in Int
         /\ Earned(c) = SumFunction(Restrict(Net, Sold(c))) /\ Earned(c) \in Int
         /\ Withdrawn(c) = SumFunction(Restrict(Amount, Drawn(c))) /\ Withdrawn(c) \in Int
<1>1. /\ Earned(c) = SumFunction(Restrict(Net, Sold(c)))
      /\ Withdrawn(c) = SumFunction(Restrict(Amount, Drawn(c)))
  BY DEF Earned, Withdrawn, Sold, Drawn, Restrict
<1>2. balance[c] \in Int /\ moved[c] \in Int
  BY DEF TypeOK
<1>3. Sold(c) \in SUBSET Payments /\ Drawn(c) \in SUBSET Withdrawals
  BY DEF Sold, Drawn
<1>4. SumFunction(Restrict(Net, Sold(c))) \in Int /\ SumFunction(Restrict(Amount, Drawn(c))) \in Int
  BY <1>3, SalesTypes, SumOverType
<1> QED BY <1>1, <1>2, <1>4

\* Every step keeps the revenue conserved: a sale adds its net to both sides, a
\* reservation and a refund move an amount between balance and withdrawn, a
\* reinvestment between balance and moved.
LEMMA ConservedInductive ==
  ASSUME ~ConcurrentDeliveries, TypeOK, AttemptInv, RowInv, CreditInv, AloneInv,
         ConservedInTurn, [Next]_vars
  PROVE  ConservedInTurn'
<1> SUFFICES ASSUME timeouts' = 0, NEW c \in Companies
             PROVE  balance'[c] + moved'[c] + Withdrawn(c)' = Earned(c)'
  BY DEF ConservedInTurn, RevenueConserved
<1>0. /\ TypeOK'
      /\ balance[c] + moved[c] + Withdrawn(c) = Earned(c)
      /\ \A w \in Withdrawals : AloneAt(w)
  BY TimeoutsGrow, RowsInductive DEF Rows, AloneInv, ConservedInTurn, RevenueConserved
<1>1. /\ balance[c] \in Int /\ moved[c] \in Int
      /\ Earned(c) = SumFunction(Restrict(Net, Sold(c))) /\ Earned(c) \in Int
      /\ Withdrawn(c) = SumFunction(Restrict(Amount, Drawn(c))) /\ Withdrawn(c) \in Int
  BY BooksType
<1>2. /\ balance'[c] \in Int /\ moved'[c] \in Int
      /\ Earned(c)' = SumFunction(Restrict(Net, Sold(c)'))
      /\ Withdrawn(c)' = SumFunction(Restrict(Amount, Drawn(c)'))
  <2>1. TypeOK' /\ c \in Companies
    BY <1>0
  <2>2. balance'[c] \in Int /\ moved'[c] \in Int
    BY <2>1 DEF TypeOK
  <2> QED BY <2>2 DEF Earned, Withdrawn, Sold, Drawn, Restrict
<1>3. CASE /\ Sold(c)' = Sold(c) /\ Drawn(c)' = Drawn(c)
           /\ balance'[c] + moved'[c] = balance[c] + moved[c]
  <2>1. Earned(c)' = Earned(c) /\ Withdrawn(c)' = Withdrawn(c)
    BY <1>1, <1>2, <1>3
  <2> QED BY <1>0, <1>1, <1>2, <1>3, <2>1
<1>4. ASSUME UNCHANGED <<balance, moved, recorded, status>>
      PROVE  balance'[c] + moved'[c] + Withdrawn(c)' = Earned(c)'
  BY <1>3, <1>4 DEF Sold, Drawn
<1>5. ASSUME NEW p \in Payments, RecordPayment(p)
      PROVE  balance'[c] + moved'[c] + Withdrawn(c)' = Earned(c)'
  <2>1. /\ recorded' = [recorded EXCEPT ![p] = @ + 1]
        /\ balance' = [balance EXCEPT ![SoldBy[p]] = @ + Net[p]]
        /\ fresh[p] > 0 /\ moved' = moved /\ status' = status
    BY <1>5 DEF RecordPayment, refills, outflow
  <2>2. recorded[p] = 0
    <3>1. recorded[p] + fresh[p] <= 1
      BY DEF CreditInv
    <3>2. recorded[p] \in Nat /\ fresh[p] \in Nat
      BY DEF TypeOK
    <3> QED BY <2>1, <3>1, <3>2
  <2>3. SoldBy[p] \in Companies /\ Net[p] \in Int
    BY TreasuryAssumption
  <2>4. Drawn(c)' = Drawn(c) /\ Withdrawn(c)' = Withdrawn(c)
    BY <1>1, <1>2, <2>1 DEF Drawn
  <2>5. CASE SoldBy[p] = c
    <3>1. Sold(c)' = Sold(c) \cup {p} /\ p \notin Sold(c) /\ Sold(c) \in SUBSET Payments
      BY <2>1, <2>2, <2>5 DEF Sold, TypeOK
    <3>2. Earned(c)' = Earned(c) + Net[p]
      BY <1>1, <1>2, <3>1, SalesTypes, SumOver
    <3>3. balance'[c] = balance[c] + Net[p]
      BY <2>1, <2>5 DEF TypeOK
    <3> QED BY <1>0, <1>1, <2>1, <2>3, <2>4, <3>2, <3>3
  <2>6. CASE SoldBy[p] # c
    <3>1. Sold(c)' = Sold(c)
      BY <2>1, <2>6 DEF Sold, TypeOK
    <3>2. balance'[c] = balance[c]
      BY <2>1, <2>6 DEF TypeOK
    <3> QED BY <1>3, <2>1, <2>4, <3>1, <3>2
  <2> QED BY <2>5, <2>6
<1>6. ASSUME NEW w \in Withdrawals, NEW i \in Attempts, Reserve(w, i)
      PROVE  balance'[c] + moved'[c] + Withdrawn(c)' = Earned(c)'
  <2>1. /\ status[w] = "none" /\ status' = [status EXCEPT ![w] = "processing"]
        /\ balance' = [balance EXCEPT ![DrawnFrom[w]] = @ - Amount[w]]
        /\ moved' = moved /\ recorded' = recorded
    BY <1>6 DEF Reserve, refills, sales
  <2>2. DrawnFrom[w] \in Companies /\ Amount[w] \in Int
    BY TreasuryAssumption
  <2>3. Sold(c)' = Sold(c) /\ Earned(c)' = Earned(c)
    BY <1>1, <1>2, <2>1 DEF Sold
  <2>4. CASE DrawnFrom[w] = c
    <3>1. Drawn(c)' = Drawn(c) \cup {w} /\ w \notin Drawn(c) /\ Drawn(c) \in SUBSET Withdrawals
      BY <2>1, <2>4 DEF Drawn, TypeOK
    <3>2. Withdrawn(c)' = Withdrawn(c) + Amount[w]
      BY <1>1, <1>2, <3>1, SalesTypes, SumOver
    <3>3. balance'[c] = balance[c] - Amount[w]
      BY <2>1, <2>4 DEF TypeOK
    <3> QED BY <1>0, <1>1, <2>1, <2>2, <2>3, <3>2, <3>3
  <2>5. CASE DrawnFrom[w] # c
    <3>1. Drawn(c)' = Drawn(c)
      BY <2>1, <2>5 DEF Drawn, TypeOK
    <3>2. balance'[c] = balance[c]
      BY <2>1, <2>5 DEF TypeOK
    <3> QED BY <1>3, <2>1, <2>3, <3>1, <3>2
  <2> QED BY <2>4, <2>5
<1>7. ASSUME NEW w \in Withdrawals, NEW i \in Attempts, Confirm(w, i)
      PROVE  balance'[c] + moved'[c] + Withdrawn(c)' = Earned(c)'
  <2>1. /\ at[w][i] = "confirm" /\ status' = [status EXCEPT ![w] = "paid"]
        /\ UNCHANGED <<balance, moved, recorded>>
    BY <1>7 DEF Confirm, refills, sales
  <2>2. status[w] = "processing"
    BY <1>0, <2>1 DEF AloneAt
  <2>3. Drawn(c)' = Drawn(c) /\ Sold(c)' = Sold(c)
    BY <2>1, <2>2 DEF Drawn, Sold, TypeOK
  <2> QED BY <1>3, <2>1, <2>3
<1>8. ASSUME NEW w \in Withdrawals, NEW i \in Attempts, Refund(w, i)
      PROVE  balance'[c] + moved'[c] + Withdrawn(c)' = Earned(c)'
  <2>1. /\ at[w][i] = "refund" /\ status' = [status EXCEPT ![w] = "failed"]
        /\ balance' = [balance EXCEPT ![DrawnFrom[w]] = @ + Amount[w]]
        /\ moved' = moved /\ recorded' = recorded
    BY <1>8 DEF Refund, refills, sales
  <2>2. status[w] = "processing"
    BY <1>0, <2>1 DEF AloneAt
  <2>3. DrawnFrom[w] \in Companies /\ Amount[w] \in Int
    BY TreasuryAssumption
  <2>4. Sold(c)' = Sold(c) /\ Earned(c)' = Earned(c)
    BY <1>1, <1>2, <2>1 DEF Sold
  <2>5. CASE DrawnFrom[w] = c
    <3>1. Drawn(c) = Drawn(c)' \cup {w} /\ w \notin Drawn(c)' /\ Drawn(c)' \in SUBSET Withdrawals
      BY <2>1, <2>2, <2>5 DEF Drawn, TypeOK
    <3>2. Withdrawn(c) = Withdrawn(c)' + Amount[w] /\ Withdrawn(c)' \in Int
      <4>1. Withdrawn(c)' \in Int
        BY <1>2, <3>1, SalesTypes, SumOverType
      <4> QED BY <1>1, <1>2, <3>1, <4>1, SalesTypes, SumOver
    <3>3. balance'[c] = balance[c] + Amount[w]
      BY <2>1, <2>5 DEF TypeOK
    <3> QED BY <1>0, <1>1, <2>1, <2>3, <2>4, <3>2, <3>3
  <2>6. CASE DrawnFrom[w] # c
    <3>1. Drawn(c)' = Drawn(c)
      BY <2>1, <2>6 DEF Drawn, TypeOK
    <3>2. balance'[c] = balance[c]
      BY <2>1, <2>6 DEF TypeOK
    <3> QED BY <1>3, <2>1, <2>4, <3>1, <3>2
  <2> QED BY <2>5, <2>6
<1>9. ASSUME NEW h \in Heartbeats, Reinvest(h)
      PROVE  balance'[c] + moved'[c] + Withdrawn(c)' = Earned(c)'
  <2>1. PICK take \in [Companies -> Nat] :
          /\ balance' = [d \in Companies |-> balance[d] - take[d]]
          /\ moved' = [d \in Companies |-> moved[d] + take[d]]
    BY <1>9, ReinvestTakes
  <2>2. balance'[c] + moved'[c] = balance[c] + moved[c]
    BY <1>1, <2>1
  <2>3. UNCHANGED <<recorded, status>>
    BY <1>9 DEF Reinvest, sales, outflow
  <2> QED BY <1>3, <2>2, <2>3 DEF Sold, Drawn
<1>10. ASSUME NEW p \in Payments, CheckDuplicate(p) \/ RecordAborts(p)
       PROVE  UNCHANGED <<balance, moved, recorded, status>>
  BY <1>10 DEF CheckDuplicate, RecordAborts, refills, outflow
<1>11. ASSUME NEW w \in Withdrawals, Withdraw(w)
       PROVE  UNCHANGED <<balance, moved, recorded, status>>
  BY <1>11 DEF Withdraw, sales, refills
<1>12. ASSUME NEW w \in Withdrawals, NEW i \in Attempts,
              ProcessWithdrawal(w, i) \/ Timeout(w, i) \/ AttemptFails(w, i)
       PROVE  \/ Reserve(w, i) \/ Confirm(w, i) \/ Refund(w, i)
              \/ UNCHANGED <<balance, moved, recorded, status>>
  BY <1>12 DEF ProcessWithdrawal, NotReady, Preflight, Insufficient, Resume, AlreadySettled,
     Payout, AnnounceMoneyOut, AnnounceFee, Return, Timeout, AttemptFails, sales, refills
<1>13. ASSUME NEW h \in Heartbeats, WalletLow(h) \/ NothingToMove(h) \/ ReinvestAborts(h)
       PROVE  UNCHANGED <<balance, moved, recorded, status>>
  BY <1>13 DEF WalletLow, NothingToMove, ReinvestAborts, sales, outflow
<1>14. SpendCredits \/ UNCHANGED <<balance, wallet, sales, outflow, refills, bounds>>
       => UNCHANGED <<balance, moved, recorded, status>>
  BY DEF SpendCredits, sales, outflow, refills
<1> QED BY <1>4, <1>5, <1>6, <1>7, <1>8, <1>9, <1>10, <1>11, <1>12, <1>13, <1>14, Frames

-----------------------------------------------------------------------------
\* The inductive invariant.
MoneyInv ==
  /\ TypeOK /\ AttemptInv /\ RowInv /\ CreditInv /\ CoverInv /\ AloneInv
  /\ BalanceNonNegative /\ RefillInv /\ WalletFunded

\* The owner starts with the grant and nothing sold, drawn or moved.
LEMMA MoneyInit == Init => MoneyInv /\ ConservedInTurn
<1> SUFFICES ASSUME Init PROVE MoneyInv /\ ConservedInTurn
  OBVIOUS
<1>0. /\ Grant \in Nat /\ Estimate \in Nat /\ 1 \in Attempts
      /\ MaxFaults \in Nat /\ MaxTimeouts \in Nat /\ MaxSpends \in Nat
      /\ IsFiniteSet(Companies) /\ IsFiniteSet(Heartbeats)
  BY TreasuryAssumption DEF Attempts
<1>1. TypeOK
  BY <1>0 DEF Init, TypeOK, Points
<1>2. AttemptInv /\ RowInv /\ CreditInv /\ CoverInv
  BY DEF Init, AttemptInv, RowInv, CreditInv, CoverInv, Reserved
<1>3. AloneInv
  BY <1>0 DEF Init, AloneInv, AloneAt
<1>4. BalanceNonNegative
  BY DEF Init, BalanceNonNegative
<1>5. RefillInv
  <2>1. Room = [h \in Heartbeats |-> 0]
    BY DEF Init, Room
  <2>2. SumFunction(Room) = 0
    BY <1>0, <2>1, SumZero
  <2> QED BY <1>0, <2>2, MostCreditsType DEF Init, RefillInv
<1>6. WalletFunded
  <2>1. SumFunction(moved) = 0
    BY <1>0, SumZero DEF Init
  <2> QED BY <1>0, <2>1 DEF Init, WalletFunded
<1>7. ConservedInTurn
  <2> SUFFICES ASSUME NEW c \in Companies
               PROVE  balance[c] + moved[c] + Withdrawn(c) = Earned(c)
    BY DEF ConservedInTurn, RevenueConserved
  <2>1. Sold(c) = {} /\ Drawn(c) = {}
    BY DEF Init, Sold, Drawn
  <2>2. Restrict(Net, {}) \in [{} -> Int] /\ Restrict(Amount, {}) \in [{} -> Int]
    BY DEF Restrict
  <2>3. Earned(c) = 0 /\ Withdrawn(c) = 0
    BY <1>1, <2>1, <2>2, BooksType, SumEmpty
  <2> QED BY <2>3 DEF Init
<1> QED BY <1>1, <1>2, <1>3, <1>4, <1>5, <1>6, <1>7 DEF MoneyInv

\* Every step keeps the inductive invariant.
LEMMA MoneyInductive == MoneyInv /\ [Next]_vars => MoneyInv'
BY RowsInductive, CreditInductive, BalanceInductive, RefillInductive, AloneInductive
   DEF MoneyInv, Rows

\* The inductive invariant gives the parts of MoneyKept that hold whatever the deliveries.
LEMMA MoneyImplied ==
  MoneyInv => BalanceNonNegative /\ RefundedOrPaid /\ WalletBound /\ WalletFunded /\ EventsCover
<1> SUFFICES ASSUME MoneyInv
             PROVE  RefundedOrPaid /\ WalletBound /\ EventsCover
  BY DEF MoneyInv
<1>1. RefundedOrPaid
  BY DEF MoneyInv, RowInv, RefundedOrPaid
<1>2. WalletBound
  <2>1. SumFunction(Room) \in Nat
    BY RoomType, SumNat, TreasuryAssumption DEF MoneyInv
  <2>2. wallet + SumFunction(Room) <= MostCredits /\ wallet \in Int /\ MostCredits \in Int
    BY MostCreditsType DEF MoneyInv, RefillInv, TypeOK
  <2>3. wallet <= MostCredits
    BY <2>1, <2>2
  <2> QED BY <2>3 DEF WalletBound, MostCredits
<1>3. EventsCover
  BY DEF MoneyInv, CoverInv, AloneInv, AloneAt, EventsCover
<1> QED BY <1>1, <1>2, <1>3

\* Whatever webhooks run at once and whatever attempts time out: no company's
\* revenue is overdrawn, a settled withdrawal was paid or given back and never both,
\* the wallet stays within its limit, every credit in it was granted or paid for
\* with revenue, and the ledger was told of every payment and every dollar moved.
THEOREM MoneySafe ==
  Spec => [](TypeOK /\ BalanceNonNegative /\ RefundedOrPaid /\ WalletBound /\ WalletFunded
             /\ EventsCover)
<1>1. Init => MoneyInv
  BY MoneyInit
<1>2. MoneyInv => TypeOK
  BY DEF MoneyInv
<1> QED BY <1>1, <1>2, MoneyInductive, MoneyImplied, PTL DEF Spec

\* When Stripe's deliveries of one payment take turns, all of MoneyKept holds: a
\* payment is credited once, and every company's revenue is what it earned less what
\* it withdrew and what the wallet took.
THEOREM MoneyIsKept ==
  ASSUME ~ConcurrentDeliveries
  PROVE  Spec => []MoneyKept
<1> DEFINE I == MoneyInv /\ ConservedInTurn
<1>1. Init => I
  BY MoneyInit
<1>2. I /\ [Next]_vars => I'
  BY MoneyInductive, ConservedInductive DEF MoneyInv
<1>3. I => MoneyKept
  BY MoneyImplied DEF MoneyInv, MoneyKept, CreditInv, CreditedOnce, TypeOK
<1> QED BY <1>1, <1>2, <1>3, PTL DEF Spec

----------------------------------------------------------------------------
(* CeoPlan: plans and the queue.                                           *)

PlanPoints == {"idle", "context", "plan", "apply", "insert", "mission_event", "event", "dispatch", "failed"}
PlannerRow == [at : PlanPoints, mission : Missions, todo : SUBSET (Titles \X Priorities),
               open : SUBSET Titles, patch : Missions \cup {"none"}]
TaskRow == [title : Titles, priority : Nat, age : Nat, running : BOOLEAN, by : Planners \cup {"founder"}]
PlanTyped ==
  /\ mission \in Missions
  /\ planner \in [Planners -> PlannerRow]
  /\ queue \in Seq(TaskRow)

\* A planner that inserts has seen the titles of what it queued before and is still open.
Seen(p, r, q) == r.at = "insert" => \A i \in 1..Len(q) : q[i].by = p => q[i].title \in r.open
OpenSeen == \A p \in Planners : Seen(p, planner[p], queue)

\* A chat leaves the mission alone.
Plain(p, r) == p \in Chats => r.patch = "none" /\ r.at # "mission_event"
ChatsPlain == \A p \in Planners : Plain(p, planner[p])

\* The mission a heartbeat is about to announce is the one it set.
PatchIsMission == planner[Heartbeat].at = "mission_event" => mission = planner[Heartbeat].patch

PlanInv == PlanTyped /\ OpenSeen /\ ChatsPlain /\ PatchIsMission /\ PlansApplyOnce

\* A planner that begins anew.
LEMMA IdleTyped ==
  ASSUME NEW m0 \in Missions, NEW pt \in PlanPoints
  PROVE  Idle \in PlannerRow /\ [Idle EXCEPT !.at = pt] \in PlannerRow
         /\ [Idle EXCEPT !.at = pt].at = pt /\ [Idle EXCEPT !.at = pt].patch = "none" /\ Idle.at = "idle" /\ Idle.patch = "none"
  <1>1. (CHOOSE m \in Missions : TRUE) \in Missions
    OBVIOUS
  <1>2. Idle \in PlannerRow
    BY <1>1 DEF Idle, PlannerRow, PlanPoints
  <1> QED BY <1>2 DEF Idle, PlannerRow

\* No planner has begun.
LEMMA PlanInitInv == PlanInit => PlanInv
  <1> SUFFICES ASSUME PlanInit PROVE PlanInv
    OBVIOUS
  <1>1. Idle \in PlannerRow /\ Idle.at = "idle" /\ Idle.patch = "none"
    BY IdleTyped DEF PlanInit, PlanPoints
  <1>2. Row(OldTask, OldPriority, "founder") \in TaskRow
    BY CeoPlanAssumption DEF Row, TaskRow
  <1>3. queue \in Seq(TaskRow) /\ Len(queue) = 1
    BY <1>2 DEF PlanInit
  <1>4. PlanTyped
    BY <1>1, <1>3 DEF PlanInit, PlanTyped
  <1>5. Heartbeat \in Planners /\ \A p \in Planners : planner[p].at = "idle" /\ planner[p].patch = "none"
    BY <1>1 DEF PlanInit, Planners
  <1>6. OpenSeen /\ ChatsPlain /\ PatchIsMission
    BY <1>5 DEF OpenSeen, Seen, ChatsPlain, Plain, PatchIsMission
  <1>7. NoRework
    BY <1>3 DEF NoRework
  <1>8. MissionOnLedger
    BY DEF PlanInit, MissionOnLedger
  <1> QED BY <1>4, <1>6, <1>7, <1>8 DEF PlanInv, PlansApplyOnce

\* One planner moves and the queue stays.
LEMMA PlannerMoves ==
  ASSUME PlanInv, NEW p \in Planners, NEW r \in PlannerRow, Becomes(p, r), Seen(p, r, queue), Plain(p, r),
         queue' = queue, mission' \in Missions
  PROVE  /\ PlanTyped' /\ OpenSeen' /\ ChatsPlain' /\ NoRework'
         /\ planner'[p] = r /\ \A q \in Planners : q # p => planner'[q] = planner[q]
  <1>1. planner \in [Planners -> PlannerRow]
    BY DEF PlanInv, PlanTyped
  <1>2. planner' \in [Planners -> PlannerRow] /\ planner'[p] = r /\ \A q \in Planners : q # p => planner'[q] = planner[q]
    BY <1>1 DEF Becomes
  <1>3. PlanTyped'
    BY <1>2 DEF PlanInv, PlanTyped
  <1>4. OpenSeen'
    <2>1. ASSUME NEW q \in Planners PROVE Seen(q, planner'[q], queue)
      BY <1>2 DEF PlanInv, OpenSeen
    <2> QED BY <2>1 DEF OpenSeen, Seen
  <1>5. ChatsPlain'
    <2>1. ASSUME NEW q \in Planners PROVE Plain(q, planner'[q])
      BY <1>2 DEF PlanInv, ChatsPlain
    <2> QED BY <2>1 DEF ChatsPlain, Plain
  <1>6. NoRework'
    BY DEF PlanInv, PlansApplyOnce, NoRework
  <1> QED BY <1>2, <1>3, <1>4, <1>5, <1>6

\* A planner that moves while nobody's mission event is due or done.
LEMMA PlannerOnly ==
  ASSUME PlanInv, NEW p \in Planners, NEW r \in PlannerRow, Becomes(p, r), Seen(p, r, queue), Plain(p, r),
         r.at # "mission_event", planner[p].at # "mission_event", OnlyPlanner
  PROVE  PlanInv'
  <1>1. queue' = queue /\ mission' = mission /\ logged' = logged /\ unlogged' = unlogged /\ mission \in Missions /\ Heartbeat \in Planners
    BY DEF OnlyPlanner, PlanInv, PlanTyped, Planners
  <1>2. PlanTyped' /\ OpenSeen' /\ ChatsPlain' /\ NoRework' /\ planner'[p] = r /\ \A q \in Planners : q # p => planner'[q] = planner[q]
    BY <1>1, PlannerMoves
  <1>3. planner'[Heartbeat] = planner[Heartbeat] \/ (planner'[Heartbeat].at # "mission_event" /\ planner[Heartbeat].at # "mission_event")
    BY <1>1, <1>2
  <1>4. PatchIsMission' /\ MissionOnLedger'
    BY <1>1, <1>3 DEF PlanInv, PlansApplyOnce, PatchIsMission, MissionOnLedger
  <1> QED BY <1>2, <1>4 DEF PlanInv, PlansApplyOnce

\* An attempt of the heartbeat begins: what the one before left in the queue is not in hand.
LEMMA StartAttemptKeeps == PlanInv /\ StartAttempt => PlanInv'
  <1> SUFFICES ASSUME PlanInv, StartAttempt PROVE PlanInv'
    OBVIOUS
  <1> DEFINE r == [Idle EXCEPT !.at = "context", !.mission = mission]
  <1>1. mission \in Missions /\ Heartbeat \in Planners
    BY DEF PlanInv, PlanTyped, Planners
  <1>2. Idle \in PlannerRow
    BY <1>1, IdleTyped DEF PlanPoints
  <1>3. r \in PlannerRow /\ r.at = "context" /\ r.patch = "none"
    BY <1>1, <1>2 DEF Idle, PlannerRow, PlanPoints
  <1>4. Seen(Heartbeat, r, queue) /\ Plain(Heartbeat, r)
    BY <1>3 DEF Seen, Plain
  <1>5. Becomes(Heartbeat, r) /\ planner[Heartbeat].at = "idle"
    BY DEF StartAttempt
  <1>6. queue' = queue /\ mission' = mission /\ logged' = logged /\ unlogged' = unlogged
    BY DEF StartAttempt
  <1> HIDE DEF r
  <1>7. PlanTyped' /\ OpenSeen' /\ ChatsPlain' /\ NoRework' /\ planner'[Heartbeat] = r
    BY <1>1, <1>3, <1>4, <1>5, <1>6, PlannerMoves
  <1>8. PatchIsMission' /\ MissionOnLedger'
    BY <1>3, <1>5, <1>6, <1>7 DEF PlanInv, PlansApplyOnce, PatchIsMission, MissionOnLedger
  <1> QED BY <1>7, <1>8 DEF PlanInv, PlansApplyOnce

\* Where a planner may begin again.
LEMMA Restarts ==
  ASSUME PlanInv, NEW p \in Planners, NEW pt \in PlanPoints \ {"insert", "mission_event"}, Restart(p, pt),
         planner[p].at # "mission_event", OnlyPlanner
  PROVE  PlanInv'
  <1> DEFINE r == [Idle EXCEPT !.at = pt]
  <1>1. r \in PlannerRow /\ r.at = pt /\ r.patch = "none"
    BY IdleTyped DEF PlanInv, PlanTyped
  <1>2. Becomes(p, r) /\ Seen(p, r, queue) /\ Plain(p, r)
    BY <1>1 DEF Restart, Seen, Plain
  <1> HIDE DEF r
  <1> QED BY <1>1, <1>2, PlannerOnly

\* The context is read, or the first results are awaited.
LEMMA GatherContextKeeps == PlanInv /\ GatherContext => PlanInv'
  <1> SUFFICES ASSUME PlanInv, GatherContext PROVE PlanInv'
    OBVIOUS
  <1>1. Heartbeat \in Planners /\ planner[Heartbeat] \in PlannerRow /\ planner[Heartbeat].at = "context" /\ OnlyPlanner
    BY DEF GatherContext, PlanInv, PlanTyped, Planners
  <1>2. CASE Restart(Heartbeat, "dispatch")
    <2>1. "dispatch" \in PlanPoints \ {"insert", "mission_event"}
      BY DEF PlanPoints
    <2> QED BY <1>1, <1>2, <2>1, Restarts
  <1>3. CASE Goto(Heartbeat, "plan")
    <2> DEFINE r == [planner[Heartbeat] EXCEPT !.at = "plan"]
    <2>1. r \in PlannerRow /\ r.at = "plan" /\ r.patch = planner[Heartbeat].patch /\ Heartbeat \notin Chats
      BY <1>1, PlannersAssumption DEF PlannerRow, PlanPoints
    <2>2. Becomes(Heartbeat, r) /\ Seen(Heartbeat, r, queue) /\ Plain(Heartbeat, r)
      BY <1>3, <2>1 DEF Goto, Seen, Plain
    <2> HIDE DEF r
    <2> QED BY <1>1, <2>1, <2>2, PlannerOnly
  <1> QED BY <1>2, <1>3 DEF GatherContext

\* A chat begins.
LEMMA StartChatKeeps == ASSUME PlanInv, NEW p \in Chats, StartChat(p) PROVE PlanInv'
  <1>1. p \in Planners /\ planner[p].at = "idle" /\ Restart(p, "plan") /\ OnlyPlanner /\ "plan" \in PlanPoints \ {"insert", "mission_event"}
    BY DEF StartChat, Planners, PlanPoints
  <1> QED BY <1>1, Restarts

\* A plan is made; the mission patch is the heartbeat's alone.
LEMMA PlanKeeps == ASSUME PlanInv, NEW p \in Planners, Plan(p) PROVE PlanInv'
  <1>1. PICK limit \in PlanLimit(p), patch \in MissionPatches(p) : \E new \in NewTasks(limit) :
          Becomes(p, [planner[p] EXCEPT !.at = "apply", !.todo = new, !.patch = patch])
    BY DEF Plan
  <1>2. PICK new \in NewTasks(limit) : Becomes(p, [planner[p] EXCEPT !.at = "apply", !.todo = new, !.patch = patch])
    BY <1>1
  <1> DEFINE r == [planner[p] EXCEPT !.at = "apply", !.todo = new, !.patch = patch]
  <1>3. planner[p] \in PlannerRow /\ planner[p].at = "plan" /\ OnlyPlanner
    BY DEF Plan, PlanInv, PlanTyped
  <1>4. new \in SUBSET (Titles \X Priorities) /\ patch \in Missions \cup {"none"} /\ (p \in Chats => patch = "none")
    BY DEF NewTasks, MissionPatches
  <1>5. r \in PlannerRow /\ r.at = "apply" /\ r.patch = patch
    BY <1>3, <1>4 DEF PlannerRow, PlanPoints
  <1>6. Becomes(p, r) /\ Seen(p, r, queue) /\ Plain(p, r)
    BY <1>2, <1>4, <1>5 DEF Seen, Plain
  <1> HIDE DEF r
  <1> QED BY <1>3, <1>5, <1>6, PlannerOnly

\* The open titles are read: every title queued and open is among them.
LEMMA ReadOpenKeeps == ASSUME PlanInv, NEW p \in Planners, ReadOpen(p) PROVE PlanInv'
  <1>1. planner[p] \in PlannerRow /\ planner[p].at = "apply" /\ OnlyPlanner /\ queue \in Seq(TaskRow)
    BY DEF ReadOpen, PlanInv, PlanTyped
  <1>2. CASE Restart(p, "event")
    <2>1. "event" \in PlanPoints \ {"insert", "mission_event"}
      BY DEF PlanPoints
    <2> QED BY <1>1, <1>2, <2>1, Restarts
  <1>3. CASE Becomes(p, [planner[p] EXCEPT !.at = "insert", !.open = TitlesOf(queue)])
    <2> DEFINE r == [planner[p] EXCEPT !.at = "insert", !.open = TitlesOf(queue)]
    <2>1. ASSUME NEW i \in 1..Len(queue) PROVE queue[i].title \in Titles
      <3>1. queue[i] \in TaskRow
        BY <1>1, ElementOfSeq
      <3> QED BY <3>1 DEF TaskRow
    <2>2. TitlesOf(queue) \in SUBSET Titles
      BY <2>1 DEF TitlesOf
    <2>3. r \in PlannerRow /\ r.at = "insert" /\ r.open = TitlesOf(queue) /\ r.patch = planner[p].patch
      BY <1>1, <2>2 DEF PlannerRow, PlanPoints
    <2>4. Seen(p, r, queue)
      BY <2>3 DEF Seen, TitlesOf
    <2>5. Plain(p, r)
      BY <2>3 DEF Plain, PlanInv, ChatsPlain
    <2> HIDE DEF r
    <2> QED BY <1>1, <1>3, <2>3, <2>4, <2>5, PlannerOnly DEF r
  <1> QED BY <1>2, <1>3 DEF ReadOpen

\* What a task's row is made of.
LEMMA RowTyped ==
  ASSUME NEW t \in Titles, NEW k \in Priorities, NEW p \in Planners
  PROVE  Row(t, k, p) \in TaskRow /\ Row(t, k, p).title = t /\ Row(t, k, p).by = p
  BY CeoPlanAssumption DEF Row, TaskRow

\* A planner inserts a task unless it has seen one like it; no planner queues the same work twice.
LEMMA QueueTaskKeeps == ASSUME PlanInv, NEW p \in Planners, NEW new, QueueTask(p, new) PROVE PlanInv'
  <1> DEFINE skip == NearDuplicate(p, new[1]) \/ Full
             n == Len(queue)
             o == IF skip THEN planner[p].open ELSE planner[p].open \cup {new[1]}
             r == [planner[p] EXCEPT !.todo = @ \ {new}, !.open = o]
  <1>1. planner[p] \in PlannerRow /\ planner[p].at = "insert" /\ new \in planner[p].todo /\ queue \in Seq(TaskRow)
    BY DEF QueueTask, PlanInv, PlanTyped
  <1>2. new \in Titles \X Priorities
    BY <1>1 DEF PlannerRow
  <1>3. new[1] \in Titles /\ new[2] \in Priorities
    BY <1>2
  <1>4. r \in PlannerRow /\ r.at = "insert" /\ r.patch = planner[p].patch /\ r.open = o /\ planner[p].open \subseteq o
    BY <1>1, <1>3 DEF PlannerRow
  <1>5. Becomes(p, r) /\ queue' = (IF skip THEN queue ELSE Append(queue, Row(new[1], new[2], p)))
        /\ mission' = mission /\ logged' = logged /\ unlogged' = unlogged
    BY DEF QueueTask
  <1>6. planner' \in [Planners -> PlannerRow] /\ planner'[p] = r /\ \A q \in Planners : q # p => planner'[q] = planner[q]
    <2> HIDE DEF r
    <2> QED BY <1>4, <1>5 DEF Becomes, PlanInv, PlanTyped
  <1>7. ChatsPlain'
    <2>1. ASSUME NEW q \in Planners PROVE Plain(q, planner'[q])
      BY <1>1, <1>4, <1>6 DEF PlanInv, ChatsPlain, Plain
    <2> QED BY <2>1 DEF ChatsPlain, Plain
  <1>8. PatchIsMission' /\ MissionOnLedger'
    <2>1. Heartbeat \in Planners /\ planner'[Heartbeat].at = planner[Heartbeat].at /\ planner'[Heartbeat].patch = planner[Heartbeat].patch
      <3>1. Heartbeat \in Planners
        BY DEF Planners
      <3> QED BY <1>1, <1>4, <1>6, <3>1
    <2> QED BY <1>5, <2>1 DEF PlanInv, PlansApplyOnce, PatchIsMission, MissionOnLedger
  <1>9. CASE skip
    <2>1. queue' = queue
      BY <1>5, <1>9
    <2>2. ASSUME NEW q \in Planners PROVE Seen(q, planner'[q], queue)
      BY <1>1, <1>4, <1>6 DEF PlanInv, OpenSeen, Seen
    <2>3. OpenSeen'
      BY <2>1, <2>2 DEF OpenSeen, Seen
    <2>4. PlanTyped' /\ NoRework'
      BY <1>5, <1>6, <2>1 DEF PlanInv, PlanTyped, PlansApplyOnce, NoRework
    <2> QED BY <1>7, <1>8, <2>3, <2>4 DEF PlanInv, PlansApplyOnce
  <1>10. CASE ~skip
    <2> DEFINE row == Row(new[1], new[2], p)
    <2>1. row \in TaskRow /\ row.title = new[1] /\ row.by = p
      BY <1>3, RowTyped
    <2> HIDE DEF row
    <2>2. queue' = Append(queue, row) /\ n \in Nat
      BY <1>1, <1>5, <1>10 DEF row
    <2>3. queue' \in Seq(TaskRow) /\ Len(queue') = n + 1 /\ queue'[n + 1] = row
      BY <1>1, <2>1, <2>2, AppendProperties
    <2>4. ASSUME NEW i \in 1..(n + 1), i # n + 1 PROVE i \in 1..n /\ queue'[i] = queue[i]
      <3>1. i \in 1..n
        BY <2>2, <2>4
      <3>2. Append(queue, row)[i] = queue[i]
        BY <1>1, <2>1, <3>1, AppendProperties
      <3> QED BY <2>2, <3>1, <3>2
    <2>5. ~NearDuplicate(p, new[1]) /\ new[1] \in o
      BY <1>10
    <2>6. ASSUME NEW q \in Planners PROVE Seen(q, planner'[q], queue')
      <3>1. ASSUME planner'[q].at = "insert", NEW i \in 1..Len(queue'), queue'[i].by = q PROVE queue'[i].title \in planner'[q].open
        <4>1. CASE i = n + 1
          <5>1. q = p /\ queue'[i].title = new[1]
            BY <2>1, <2>3, <3>1, <4>1
          <5>2. planner'[q].open = o
            BY <1>4, <1>6, <5>1
          <5> QED BY <2>5, <5>1, <5>2
        <4>2. CASE i # n + 1
          <5>1. i \in 1..n /\ queue'[i] = queue[i]
            BY <2>3, <2>4, <4>2
          <5>2. planner[q].at = "insert" /\ planner[q].open \subseteq planner'[q].open
            BY <1>1, <1>4, <1>6, <3>1
          <5>3. Seen(q, planner[q], queue)
            BY DEF PlanInv, OpenSeen
          <5> QED BY <3>1, <5>1, <5>2, <5>3 DEF Seen
        <4> QED BY <4>1, <4>2
      <3> QED BY <3>1 DEF Seen
    <2>7. OpenSeen'
      BY <2>6 DEF OpenSeen, Seen
    <2>8. ASSUME NEW i \in 1..n, queue[i].by = p PROVE ~near(queue[i].title, new[1]) /\ ~near(new[1], queue[i].title)
      <3>1. queue[i].title \in planner[p].open /\ queue[i] \in TaskRow
        BY <1>1, <2>8, ElementOfSeq DEF PlanInv, OpenSeen, Seen
      <3>2. ~near(queue[i].title, new[1])
        BY <2>5, <3>1 DEF NearDuplicate
      <3>3. queue[i].title \in Titles
        BY <3>1 DEF TaskRow
      <3> QED BY <1>3, <3>2, <3>3, CeoPlanAssumption DEF near
    <2>9. ASSUME NEW i \in 1..(n + 1), NEW j \in 1..(n + 1), i # j, queue'[i].by = queue'[j].by
          PROVE  ~near(queue'[i].title, queue'[j].title)
      <3>1. CASE i = n + 1
        <4>1. j \in 1..n /\ queue'[j] = queue[j]
          BY <2>4, <2>9, <3>1
        <4> QED BY <2>1, <2>3, <2>8, <2>9, <3>1, <4>1
      <3>2. CASE i # n + 1 /\ j = n + 1
        <4>1. i \in 1..n /\ queue'[i] = queue[i]
          BY <2>4, <3>2
        <4> QED BY <2>1, <2>3, <2>8, <2>9, <3>2, <4>1
      <3>3. CASE i # n + 1 /\ j # n + 1
        <4>1. i \in 1..n /\ queue'[i] = queue[i] /\ j \in 1..n /\ queue'[j] = queue[j]
          BY <2>4, <3>3
        <4> QED BY <2>9, <4>1 DEF PlanInv, PlansApplyOnce, NoRework
      <3> QED BY <3>1, <3>2, <3>3
    <2>10. NoRework'
      BY <2>3, <2>9 DEF NoRework
    <2>11. PlanTyped'
      BY <1>5, <1>6, <2>3 DEF PlanInv, PlanTyped
    <2> QED BY <1>7, <1>8, <2>7, <2>10, <2>11 DEF PlanInv, PlansApplyOnce
  <1> QED BY <1>9, <1>10

\* The mission is set to the patch, and is about to be announced.
LEMMA UpdateMissionKeeps == ASSUME PlanInv, NEW p \in Planners, UpdateMission(p) PROVE PlanInv'
  <1>1. planner[p] \in PlannerRow /\ planner[p].at = "insert" /\ mission \in Missions
    BY DEF UpdateMission, PlanInv, PlanTyped
  <1>2. CASE planner[p].patch \in {"none", planner[p].mission}
    <2>1. Restart(p, "event") /\ OnlyPlanner /\ "event" \in PlanPoints \ {"insert", "mission_event"}
      BY <1>2 DEF UpdateMission, OnlyPlanner, PlanPoints
    <2> QED BY <1>1, <2>1, Restarts
  <1>3. CASE planner[p].patch \notin {"none", planner[p].mission}
    <2> DEFINE r == [Idle EXCEPT !.at = "mission_event", !.patch = planner[p].patch]
    <2>1. Idle \in PlannerRow /\ planner[p].patch \in Missions
      BY <1>1, <1>3, IdleTyped DEF PlannerRow, PlanPoints
    <2>2. r \in PlannerRow /\ r.at = "mission_event" /\ r.patch = planner[p].patch
      BY <2>1 DEF PlannerRow, PlanPoints
    <2>3. p = Heartbeat /\ p \notin Chats
      BY <1>3, PlannersAssumption DEF PlanInv, ChatsPlain, Plain, Planners
    <2>4. Becomes(p, r) /\ Seen(p, r, queue) /\ Plain(p, r) /\ mission' = planner[p].patch /\ queue' = queue
      BY <1>3, <2>2, <2>3 DEF UpdateMission, Seen, Plain
    <2> HIDE DEF r
    <2>5. PlanTyped' /\ OpenSeen' /\ ChatsPlain' /\ NoRework' /\ planner'[p] = r
      BY <2>1, <2>2, <2>4, PlannerMoves
    <2>6. PatchIsMission' /\ MissionOnLedger'
      BY <2>2, <2>3, <2>4, <2>5 DEF PatchIsMission, MissionOnLedger
    <2> QED BY <2>5, <2>6 DEF PlanInv, PlansApplyOnce
  <1> QED BY <1>2, <1>3

\* The event tells the mission that was set: nobody else sets one.
LEMMA LogMissionKeeps == ASSUME PlanInv, NEW p \in Planners, LogMission(p) PROVE PlanInv'
  <1> DEFINE r == [Idle EXCEPT !.at = "event"]
  <1>1. p = Heartbeat /\ planner[p].at = "mission_event"
    BY DEF LogMission, PlanInv, ChatsPlain, Plain, Planners
  <1>2. r \in PlannerRow /\ r.at = "event" /\ r.patch = "none"
    BY IdleTyped DEF PlanInv, PlanTyped, PlanPoints
  <1>3. Becomes(p, r) /\ Seen(p, r, queue) /\ Plain(p, r) /\ logged' = planner[p].patch /\ mission' = mission /\ queue' = queue
    BY <1>2 DEF LogMission, Restart, Seen, Plain
  <1> HIDE DEF r
  <1>4. mission' \in Missions
    BY <1>3 DEF PlanInv, PlanTyped
  <1>5. PlanTyped' /\ OpenSeen' /\ ChatsPlain' /\ NoRework' /\ planner'[p] = r
    BY <1>2, <1>3, <1>4, PlannerMoves
  <1>6. PatchIsMission' /\ MissionOnLedger'
    BY <1>1, <1>2, <1>3, <1>5 DEF PlanInv, PatchIsMission, MissionOnLedger
  <1> QED BY <1>5, <1>6 DEF PlanInv, PlansApplyOnce

\* The plan is told to the ledger, and the planner is done.
LEMMA LogPlanKeeps == ASSUME PlanInv, NEW p \in Planners, LogPlan(p) PROVE PlanInv'
  <1>1. planner[p].at = "event" /\ OnlyPlanner
    BY DEF LogPlan
  <1>2. PICK pt \in {"dispatch", "idle"} : Restart(p, pt)
    BY DEF LogPlan
  <1>3. pt \in PlanPoints \ {"insert", "mission_event"}
    BY DEF PlanPoints
  <1> QED BY <1>1, <1>2, <1>3, Restarts

\* A failure between the mission's update and its event is remembered.
LEMMA PlanFailsKeeps == ASSUME PlanInv, NEW p \in Planners, PlanAttemptFails(p) PROVE PlanInv'
  <1> DEFINE r == AfterFailure(p)
  <1>1. Idle \in PlannerRow /\ Idle.at = "idle" /\ Idle.patch = "none" /\ [Idle EXCEPT !.at = "dispatch"] \in PlannerRow
        /\ [Idle EXCEPT !.at = "dispatch"].at = "dispatch" /\ [Idle EXCEPT !.at = "dispatch"].patch = "none"
    BY IdleTyped DEF PlanInv, PlanTyped, PlanPoints
  <1>2. r \in PlannerRow /\ r.at \in {"idle", "dispatch"} /\ r.patch = "none"
    BY <1>1 DEF AfterFailure
  <1>3. Becomes(p, r) /\ Seen(p, r, queue) /\ Plain(p, r) /\ mission' = mission /\ logged' = logged /\ queue' = queue
        /\ unlogged' = (unlogged \/ planner[p].at = "mission_event")
    BY <1>2 DEF PlanAttemptFails, Seen, Plain
  <1> HIDE DEF r
  <1>4. mission' \in Missions /\ Heartbeat \in Planners
    BY <1>3 DEF PlanInv, PlanTyped, Planners
  <1>5. PlanTyped' /\ OpenSeen' /\ ChatsPlain' /\ NoRework' /\ planner'[p] = r /\ \A q \in Planners : q # p => planner'[q] = planner[q]
    BY <1>2, <1>3, <1>4, PlannerMoves
  <1>6. PatchIsMission'
    BY <1>2, <1>3, <1>4, <1>5 DEF PlanInv, PatchIsMission
  <1>7. MissionOnLedger'
    <2>1. CASE p = Heartbeat
      BY <1>3, <2>1 DEF PlanInv, PlansApplyOnce, MissionOnLedger
    <2>2. CASE p # Heartbeat
      BY <1>3, <1>4, <1>5, <2>2 DEF PlanInv, PlansApplyOnce, MissionOnLedger
    <2> QED BY <2>1, <2>2
  <1> QED BY <1>5, <1>6, <1>7 DEF PlanInv, PlansApplyOnce

\* The queue loses rows, or its rows run and age: no planner is touched.
LEMMA QueueMoves ==
  ASSUME PlanInv, queue' \in Seq(TaskRow), NEW f \in [1..Len(queue') -> 1..Len(queue)],
         \A i, j \in 1..Len(queue') : i # j => f[i] # f[j],
         \A i \in 1..Len(queue') : queue'[i].title = queue[f[i]].title /\ queue'[i].by = queue[f[i]].by,
         UNCHANGED <<mission, logged, planner, unlogged>>
  PROVE  PlanInv'
  <1>1. PlanTyped' /\ ChatsPlain' /\ PatchIsMission' /\ MissionOnLedger'
    BY DEF PlanInv, PlansApplyOnce, PlanTyped, ChatsPlain, Plain, PatchIsMission, MissionOnLedger
  <1>2. ASSUME NEW p \in Planners, planner[p].at = "insert", NEW i \in 1..Len(queue'), queue'[i].by = p
        PROVE  queue'[i].title \in planner[p].open
    <2>1. Seen(p, planner[p], queue) /\ f[i] \in 1..Len(queue) /\ queue[f[i]].by = p
      BY <1>2 DEF PlanInv, OpenSeen
    <2> QED BY <1>2, <2>1 DEF Seen
  <1>3. OpenSeen'
    BY <1>2 DEF OpenSeen, Seen
  <1>4. ASSUME NEW i \in 1..Len(queue'), NEW j \in 1..Len(queue'), i # j, queue'[i].by = queue'[j].by
        PROVE  ~near(queue'[i].title, queue'[j].title)
    <2>1. f[i] \in 1..Len(queue) /\ f[j] \in 1..Len(queue) /\ f[i] # f[j] /\ queue[f[i]].by = queue[f[j]].by
      BY <1>4
    <2>2. ~near(queue[f[i]].title, queue[f[j]].title)
      BY <2>1 DEF PlanInv, PlansApplyOnce, NoRework
    <2> QED BY <2>2
  <1>5. NoRework'
    BY <1>4 DEF NoRework
  <1> QED BY <1>1, <1>3, <1>5 DEF PlanInv, PlansApplyOnce

\* A task is picked, or every task is a day older: places and titles stay.
LEMMA RowsChange ==
  ASSUME PlanInv, queue' \in Seq(TaskRow), Len(queue') = Len(queue),
         \A i \in 1..Len(queue) : queue'[i].title = queue[i].title /\ queue'[i].by = queue[i].by,
         UNCHANGED <<mission, logged, planner, unlogged>>
  PROVE  PlanInv'
  <1> DEFINE f == [i \in 1..Len(queue) |-> i]
  <1>1. f \in [1..Len(queue') -> 1..Len(queue)] /\ \A i \in 1..Len(queue) : f[i] = i
    OBVIOUS
  <1> HIDE DEF f
  <1> QED BY <1>1, QueueMoves

\* A task is dispatched: it stays open, under its title.
LEMMA PickNextTaskKeeps == PlanInv /\ PickNextTask => PlanInv'
  <1> SUFFICES ASSUME PlanInv, PickNextTask PROVE PlanInv'
    OBVIOUS
  <1>1. PICK i \in Queued : queue' = [queue EXCEPT ![i].running = TRUE]
    BY DEF PickNextTask
  <1> DEFINE row == [queue[i] EXCEPT !.running = TRUE]
  <1>2. i \in 1..Len(queue) /\ queue \in Seq(TaskRow)
    BY DEF Queued, PlanInv, PlanTyped
  <1>3. queue[i] \in TaskRow
    BY <1>2, ElementOfSeq
  <1>4. row \in TaskRow /\ row.title = queue[i].title /\ row.by = queue[i].by
    BY <1>3 DEF TaskRow
  <1>5. queue' = [queue EXCEPT ![i] = row]
    BY <1>1
  <1> HIDE DEF row
  <1>6. queue' \in Seq(TaskRow) /\ Len(queue') = Len(queue)
        /\ \A j \in 1..Len(queue) : queue'[j] = IF j = i THEN row ELSE queue[j]
    BY <1>2, <1>4, <1>5, ExceptSeq
  <1>7. \A j \in 1..Len(queue) : queue'[j].title = queue[j].title /\ queue'[j].by = queue[j].by
    BY <1>4, <1>6
  <1>8. UNCHANGED <<mission, logged, planner, unlogged>>
    BY DEF PickNextTask
  <1> QED BY <1>6, <1>7, <1>8, RowsChange

\* A day passes: the queue is as it was.
LEMMA PlanDayKeeps == PlanInv /\ NextDay => PlanInv'
  <1> SUFFICES ASSUME PlanInv, NextDay PROVE PlanInv'
    OBVIOUS
  <1> DEFINE Older(row) == [row EXCEPT !.age = IF @ < AgingCap THEN @ + 1 ELSE @]
  <1>1. queue \in Seq(TaskRow) /\ Len(queue) \in Nat
    BY DEF PlanInv, PlanTyped
  <1>2. queue' = [i \in 1..Len(queue) |-> Older(queue[i])]
    BY DEF NextDay
  <1>3. ASSUME NEW i \in 1..Len(queue)
        PROVE  Older(queue[i]) \in TaskRow /\ Older(queue[i]).title = queue[i].title /\ Older(queue[i]).by = queue[i].by
    <2>1. queue[i] \in TaskRow
      BY <1>1, ElementOfSeq
    <2>2. queue[i].age \in Nat
      BY <2>1 DEF TaskRow
    <2> QED BY <2>1, <2>2 DEF TaskRow
  <1> HIDE DEF Older
  <1>4. queue' \in [1..Len(queue) -> TaskRow] /\ \A i \in 1..Len(queue) : queue'[i] = Older(queue[i])
    BY <1>2, <1>3
  <1>5. queue' \in Seq(TaskRow) /\ Len(queue') = Len(queue)
    BY <1>1, <1>4, IsASeq, LenProperties
  <1>6. \A i \in 1..Len(queue) : queue'[i].title = queue[i].title /\ queue'[i].by = queue[i].by
    BY <1>3, <1>4
  <1>7. UNCHANGED <<mission, logged, planner, unlogged>>
    BY DEF NextDay
  <1> QED BY <1>5, <1>6, <1>7, RowsChange

\* What RemoveAt leaves of the queue.
LEMMA RemovedTask ==
  ASSUME NEW s \in Seq(TaskRow), NEW i \in 1..Len(s)
  PROVE  /\ RemoveAt(s, i) \in Seq(TaskRow) /\ Len(RemoveAt(s, i)) = Len(s) - 1
         /\ \A j \in 1..(Len(s) - 1) : RemoveAt(s, i)[j] = IF j < i THEN s[j] ELSE s[j + 1]
  <1> DEFINE a == SubSeq(s, 1, i - 1)
             b == SubSeq(s, i + 1, Len(s))
  <1>1. Len(s) \in Nat /\ i \in Nat /\ i >= 1 /\ i <= Len(s) /\ \A j \in 1..Len(s) : s[j] \in TaskRow
    BY LenProperties, ElementOfSeq
  <1>2. a \in Seq(TaskRow) /\ Len(a) = i - 1 /\ \A j \in 1..(i - 1) : a[j] = s[j]
    <2>1. \A j \in 1..(i - 1) : s[j] \in TaskRow
      BY <1>1
    <2> QED BY <1>1, <2>1, SubSeqProperties
  <1>3. b \in Seq(TaskRow) /\ Len(b) = Len(s) - i /\ \A j \in 1..(Len(s) - i) : b[j] = s[i + j]
    <2>1. \A j \in (i + 1)..Len(s) : s[j] \in TaskRow
      BY <1>1
    <2>2. b \in Seq(TaskRow) /\ Len(b) = (IF i + 1 <= Len(s) THEN Len(s) - (i + 1) + 1 ELSE 0)
          /\ \A j \in 1..(Len(s) - (i + 1) + 1) : b[j] = s[i + 1 + j - 1]
      BY <1>1, <2>1, SubSeqProperties
    <2> QED BY <1>1, <2>2
  <1>4. RemoveAt(s, i) = a \o b
    BY DEF RemoveAt
  <1> HIDE DEF a, b
  <1>5. a \o b \in Seq(TaskRow) /\ Len(a \o b) = Len(s) - 1
    <2>1. a \in Seq(TaskRow) /\ b \in Seq(TaskRow) /\ Len(a) + Len(b) = Len(s) - 1
      BY <1>1, <1>2, <1>3
    <2> QED BY <2>1, ConcatProperties
  <1>6. \A j \in 1..(Len(s) - 1) : (a \o b)[j] = IF j <= i - 1 THEN a[j] ELSE b[j - (i - 1)]
    <2>1. \A j \in 1..(Len(a) + Len(b)) : (a \o b)[j] = IF j <= Len(a) THEN a[j] ELSE b[j - Len(a)]
      BY <1>2, <1>3, ConcatProperties
    <2>2. Len(a) + Len(b) = Len(s) - 1
      BY <1>1, <1>2, <1>3
    <2> QED BY <1>2, <2>1, <2>2
  <1>7. ASSUME NEW j \in 1..(Len(s) - 1) PROVE (a \o b)[j] = IF j < i THEN s[j] ELSE s[j + 1]
    BY <1>1, <1>2, <1>3, <1>6
  <1> QED BY <1>4, <1>5, <1>7

\* A task leaves the queue, which leaves fewer titles open.
LEMMA TaskEndsKeeps == PlanInv /\ TaskEnds => PlanInv'
  <1> SUFFICES ASSUME PlanInv, TaskEnds PROVE PlanInv'
    OBVIOUS
  <1>1. PICK i \in Running : queue' = RemoveAt(queue, i)
    BY DEF TaskEnds
  <1> DEFINE n == Len(queue)
             f == [j \in 1..(n - 1) |-> IF j < i THEN j ELSE j + 1]
  <1>2. i \in 1..n /\ queue \in Seq(TaskRow) /\ n \in Nat
    BY DEF Running, PlanInv, PlanTyped
  <1>3. queue' \in Seq(TaskRow) /\ Len(queue') = n - 1
        /\ \A j \in 1..(n - 1) : queue'[j] = IF j < i THEN queue[j] ELSE queue[j + 1]
    BY <1>1, <1>2, RemovedTask
  <1>4. f \in [1..(n - 1) -> 1..n] /\ \A j \in 1..(n - 1) : f[j] = (IF j < i THEN j ELSE j + 1) /\ queue'[j] = queue[f[j]]
    BY <1>2, <1>3
  <1>5. \A j, k \in 1..(n - 1) : j # k => f[j] # f[k]
    BY <1>2, <1>4
  <1>6. UNCHANGED <<mission, logged, planner, unlogged>>
    BY DEF TaskEnds
  <1> HIDE DEF f
  <1>7. f \in [1..Len(queue') -> 1..Len(queue)] /\ \A j, k \in 1..Len(queue') : j # k => f[j] # f[k]
    BY <1>3, <1>4, <1>5
  <1>8. \A j \in 1..Len(queue') : queue'[j].title = queue[f[j]].title /\ queue'[j].by = queue[f[j]].by
    BY <1>3, <1>4
  <1> HIDE DEF n
  <1> QED BY <1>3, <1>6, <1>7, <1>8, QueueMoves

\* The dispatch loop ends.
LEMMA EndHeartbeatKeeps == PlanInv /\ EndHeartbeat => PlanInv'
  <1> SUFFICES ASSUME PlanInv, EndHeartbeat PROVE PlanInv'
    OBVIOUS
  <1>1. Idle \in PlannerRow /\ Idle.at = "idle" /\ Idle.patch = "none" /\ Heartbeat \in Planners
    BY IdleTyped DEF PlanInv, PlanTyped, PlanPoints, Planners
  <1>2. Becomes(Heartbeat, Idle) /\ Seen(Heartbeat, Idle, queue) /\ Plain(Heartbeat, Idle) /\ planner[Heartbeat].at = "dispatch"
        /\ UNCHANGED <<queue, mission, logged, unlogged>>
    BY <1>1 DEF EndHeartbeat, Seen, Plain
  <1>3. mission' \in Missions
    BY <1>2 DEF PlanInv, PlanTyped
  <1>4. PlanTyped' /\ OpenSeen' /\ ChatsPlain' /\ NoRework' /\ planner'[Heartbeat] = Idle
    BY <1>1, <1>2, <1>3, PlannerMoves
  <1>5. PatchIsMission' /\ MissionOnLedger'
    BY <1>1, <1>2, <1>4 DEF PlanInv, PlansApplyOnce, PatchIsMission, MissionOnLedger
  <1> QED BY <1>4, <1>5 DEF PlanInv, PlansApplyOnce

\* What PlanInv speaks of.
LEMMA PlanStutter == ASSUME PlanInv, UNCHANGED <<queue, mission, logged, planner, unlogged>> PROVE PlanInv'
  BY DEF PlanInv, PlanTyped, OpenSeen, Seen, ChatsPlain, Plain, PatchIsMission, PlansApplyOnce, NoRework, MissionOnLedger

\* A step of planning keeps its invariant.
LEMMA PlanStep == PlanInv /\ [PlanNext]_planVars => PlanInv'
  <1> SUFFICES ASSUME PlanInv, [PlanNext]_planVars PROVE PlanInv'
    OBVIOUS
  <1>1. CASE StartAttempt \/ GatherContext \/ PickNextTask \/ TaskEnds \/ EndHeartbeat \/ NextDay
    BY <1>1, StartAttemptKeeps, GatherContextKeeps, PickNextTaskKeeps, TaskEndsKeeps, EndHeartbeatKeeps, PlanDayKeeps
  <1>2. ASSUME NEW p \in Chats, StartChat(p) PROVE PlanInv'
    BY <1>2, StartChatKeeps
  <1>3. ASSUME NEW p \in Planners, Plan(p) \/ ReadOpen(p) \/ UpdateMission(p) \/ LogMission(p) \/ LogPlan(p) \/ PlanAttemptFails(p)
        PROVE  PlanInv'
    BY <1>3, PlanKeeps, ReadOpenKeeps, UpdateMissionKeeps, LogMissionKeeps, LogPlanKeeps, PlanFailsKeeps
  <1>4. ASSUME NEW p \in Planners, NEW new \in planner[p].todo, QueueTask(p, new) PROVE PlanInv'
    BY <1>4, QueueTaskKeeps
  <1>5. CASE Wallet \/ UNCHANGED planVars
    BY <1>5, PlanStutter DEF Wallet, planVars
  <1> QED BY <1>1, <1>2, <1>3, <1>4, <1>5 DEF PlanNext, Dispatch, Step, Apply

\* What one planner queued is not queued again while it is open, and the ledger tells the company's mission, whatever fails
\* between two writes and whatever the owner's chats queue meanwhile (ceo.ts:224-263).
THEOREM PlansAreAppliedOnce == Halves => []PlansApplyOnce
  <1>1. InitHalf => PlanInv
    BY PlanInitInv DEF InitHalf
  <1>2. PlanInv /\ [NextHalf]_All => PlanInv'
    <2> SUFFICES ASSUME PlanInv, [NextHalf]_All PROVE PlanInv'
      OBVIOUS
    <2>1. [PlanNext]_planVars
      BY DEF NextHalf, All, Planning, Learning, planVars
    <2> QED BY <2>1, PlanStep
  <1>3. PlanInv => PlansApplyOnce
    BY DEF PlanInv
  <1> QED BY <1>1, <1>2, <1>3, PTL DEF Halves

----------------------------------------------------------------------------
(* Lessons: the sheets.                                                    *)

LearnPoints == {"idle", "bump", "fade", "distill", "store", "insert", "next", "promote", "merge", "reward", "prune"}
Early == {"idle", "bump", "fade", "distill", "store", "insert"}
LessonRow == [owner : Learners \cup {"shared"}, text : Texts, score : Int, wins : Nat, active : BOOLEAN, decayed : Nat]
LearnerRow == [at : LearnPoints, new : SUBSET Texts, text : Texts \cup {NoText}, proven : SUBSET Nat, row : Nat, dup : Nat]
Sheet == Seq(LessonRow)
OfIn(s, owner) == {i \in 1..Len(s) : s[i].owner = owner}
ActiveIn(s, owner) == {i \in OfIn(s, owner) : s[i].active}
UnknownIn(s, owner, t) == \A i \in OfIn(s, owner) : s[i].text # t
UnsharedIn(s, t) == \A i \in ActiveIn(s, "shared") : s[i].text # t

LearnTyped ==
  /\ lessons \in Sheet /\ learner \in [Learners -> LearnerRow] /\ recorder \in [Learners -> Texts \cup {NoText}]
  /\ today \in Nat /\ crossed \in BOOLEAN

\* Sheet s has every lesson once, unless writers crossed (x): of a company whatever its status, of the shared ones the active.
OnceIn(s, o) == \A i, j \in OfIn(s, o) : i # j => s[i].text # s[j].text
SharedOnceIn(s) == \A i, j \in ActiveIn(s, "shared") : i # j => s[i].text # s[j].text
Distinctly(s, x) == x \/ (SharedOnceIn(s) /\ \A c \in Learners : OnceIn(s, c))

\* What a worker found new still is.
Recorder(c, t, s, x) == t # NoText => x \/ UnknownIn(s, c, t)

\* A learner's place and what it read: what it is about to insert is new, its candidates are active rows of its own, the one in
\* hand no longer among them; what it promotes is not shared yet, and what it merges into is a shared row of the same text.
Placed(c, r, s, x) ==
  /\ r.at = "insert" => r.text \in Texts /\ (x \/ UnknownIn(s, c, r.text))
  /\ r.at \in Early => r.proven = {}
  /\ r.proven \subseteq ActiveIn(s, c)
  /\ r.at \in {"promote", "merge"} => r.row \in ActiveIn(s, c) /\ r.row \notin r.proven
  /\ r.at = "promote" => x \/ UnsharedIn(s, s[r.row].text)
  /\ r.at = "merge" => s[r.dup].text = s[r.row].text
  /\ r.at \in {"merge", "reward"} => r.dup \in OfIn(s, "shared") /\ (x \/ s[r.dup].active)

\* A retired row has faded or lives on in a shared one.
LivesOn(s, i) == s[i].owner # "shared" /\ \E j \in OfIn(s, "shared") : s[j].text = s[i].text
FadedOnly(s, x) == \A i \in 1..Len(s) : ~s[i].active => s[i].score < Floor \/ x \/ LivesOn(s, i)
DatedBy(s, d) == \A i \in 1..Len(s) : s[i].decayed <= d

LearnInv ==
  /\ LearnTyped /\ Distinctly(lessons, crossed) /\ FadedOnly(lessons, crossed) /\ DatedBy(lessons, today)
  /\ \A c \in Learners : Placed(c, learner[c], lessons, crossed) /\ Recorder(c, recorder[c], lessons, crossed)

\* No shared row loses score on the day of its last decay.
Ageing(s, z, d) == \A i \in ActiveIn(s, "shared") : z[i].score < s[i].score => s[i].decayed < d

\* What follows from the invariant.
LEMMA LearnInvGives == LearnInv => LearnedOnce /\ OnlyTheFadedGo
  <1> SUFFICES ASSUME LearnInv PROVE LearnedOnce /\ OnlyTheFadedGo
    OBVIOUS
  <1>1. \A o : Of(o) = OfIn(lessons, o) /\ Active(o) = ActiveIn(lessons, o)
    BY DEF Of, LessonRows, OfIn, Active, ActiveIn
  <1>2. ASSUME NEW o \in Learners \cup {"shared"}, NEW i \in Active(o), NEW j \in Active(o), i # j
        PROVE  lessons[i].text # lessons[j].text \/ crossed
    <2>1. i \in ActiveIn(lessons, o) /\ j \in ActiveIn(lessons, o) /\ i \in OfIn(lessons, o) /\ j \in OfIn(lessons, o)
      BY <1>1, <1>2 DEF ActiveIn
    <2>2. CASE o = "shared"
      BY <1>2, <2>1, <2>2 DEF LearnInv, Distinctly, SharedOnceIn
    <2>3. CASE o \in Learners
      BY <1>2, <2>1, <2>3 DEF LearnInv, Distinctly, OnceIn
    <2> QED BY <2>2, <2>3
  <1>3. LearnedOnce
    BY <1>2 DEF LearnedOnce
  <1>4. OnlyTheFadedGo
    BY <1>1 DEF LearnInv, FadedOnly, LivesOn, OnlyTheFadedGo, LessonRows
  <1> QED BY <1>3, <1>4

\* The sheets are empty.
LEMMA LearnInitInv == LearnInit => LearnInv
  <1> SUFFICES ASSUME LearnInit PROVE LearnInv
    OBVIOUS
  <1>1. NotLearning \in LearnerRow /\ NotLearning.at = "idle" /\ NotLearning.proven = {}
    BY DEF NotLearning, LearnerRow, LearnPoints, NoRow
  <1>2. lessons \in Sheet /\ Len(lessons) = 0
    BY DEF LearnInit, Sheet
  <1>3. LearnTyped
    BY <1>1, <1>2 DEF LearnInit, LearnTyped
  <1>4. \A o : OfIn(lessons, o) = {} /\ ActiveIn(lessons, o) = {}
    BY <1>2 DEF OfIn, ActiveIn
  <1>5. Distinctly(lessons, crossed) /\ FadedOnly(lessons, crossed) /\ DatedBy(lessons, today)
    BY <1>2, <1>4 DEF Distinctly, SharedOnceIn, OnceIn, FadedOnly, DatedBy
  <1>6. ASSUME NEW c \in Learners PROVE Placed(c, learner[c], lessons, crossed) /\ Recorder(c, recorder[c], lessons, crossed)
    <2>1. learner[c] = NotLearning /\ recorder[c] = NoText
      BY DEF LearnInit
    <2> QED BY <1>1, <2>1 DEF Placed, Recorder, Early
  <1> QED BY <1>3, <1>5, <1>6 DEF LearnInv

\* Rows of a sheet.
LEMMA RowOf ==
  ASSUME NEW s \in Sheet, NEW i \in 1..Len(s)
  PROVE  s[i] \in LessonRow
  BY ElementOfSeq DEF Sheet

\* A sheet is a function that gives a row for each of its places.
LEMMA SheetOf ==
  ASSUME NEW s \in Sheet, NEW z, z \in [1..Len(s) -> LessonRow]
  PROVE  z \in Sheet /\ Len(z) = Len(s)
  <1>1. Len(s) \in Nat
    BY DEF Sheet
  <1>2. z = [i \in 1..Len(s) |-> z[i]] /\ \A i \in 1..Len(s) : z[i] \in LessonRow
    OBVIOUS
  <1>3. z \in Seq(LessonRow)
    BY <1>1, <1>2, IsASeq
  <1> QED BY <1>1, <1>3, LenProperties DEF Sheet

----------------------------------------------------------------------------
\* Rows that keep their owner and their text, and are not revived: z after s.
Kept(s, z) ==
  /\ s \in Sheet /\ z \in Sheet /\ Len(z) = Len(s)
  /\ \A i \in 1..Len(s) : z[i].owner = s[i].owner /\ z[i].text = s[i].text /\ (z[i].active => s[i].active)

\* They are found again.
LEMMA KeptRows ==
  ASSUME NEW s, NEW z, Kept(s, z), NEW o
  PROVE  OfIn(z, o) = OfIn(s, o) /\ ActiveIn(z, o) \subseteq ActiveIn(s, o)
         /\ \A t : UnknownIn(s, o, t) <=> UnknownIn(z, o, t)
  <1>1. OfIn(z, o) = OfIn(s, o)
    BY DEF Kept, OfIn
  <1>2. \A i \in OfIn(s, o) : z[i].text = s[i].text /\ (z[i].active => s[i].active)
    BY DEF Kept, OfIn
  <1>3. ActiveIn(z, o) \subseteq ActiveIn(s, o)
    BY <1>1, <1>2 DEF ActiveIn
  <1>4. ASSUME NEW t PROVE UnknownIn(s, o, t) <=> UnknownIn(z, o, t)
    BY <1>1, <1>2 DEF UnknownIn
  <1> QED BY <1>1, <1>3, <1>4

\* Owners and texts stay and no row comes back: what was there once still is.
LEMMA KeptDistinctly ==
  ASSUME NEW s, NEW z, Kept(s, z), NEW x, NEW y, x => y, Distinctly(s, x)
  PROVE  Distinctly(z, y)
  <1> SUFFICES ASSUME ~x PROVE SharedOnceIn(z) /\ \A c \in Learners : OnceIn(z, c)
    BY DEF Distinctly
  <1>1. SharedOnceIn(s) /\ \A c \in Learners : OnceIn(s, c)
    BY DEF Distinctly
  <1>2. \A o : OfIn(z, o) = OfIn(s, o) /\ ActiveIn(z, o) \subseteq ActiveIn(s, o)
    BY KeptRows
  <1>3. \A o : \A i \in OfIn(s, o) : z[i].text = s[i].text
    BY DEF Kept, OfIn
  <1>4. \A i \in ActiveIn(s, "shared") : z[i].text = s[i].text
    BY <1>3 DEF ActiveIn
  <1>5. SharedOnceIn(z)
    BY <1>1, <1>2, <1>4 DEF SharedOnceIn
  <1>6. ASSUME NEW c \in Learners PROVE OnceIn(z, c)
    <2>1. OnceIn(s, c) /\ OfIn(z, c) = OfIn(s, c) /\ \A i \in OfIn(s, c) : z[i].text = s[i].text
      BY <1>1, <1>2, <1>3
    <2> QED BY <2>1 DEF OnceIn
  <1> QED BY <1>5, <1>6

\* What a worker found new is new while owners and texts stay.
LEMMA KeptRecorder ==
  ASSUME NEW s, NEW z, Kept(s, z), NEW x, NEW y, x => y, NEW c, NEW t, Recorder(c, t, s, x)
  PROVE  Recorder(c, t, z, y)
  BY KeptRows DEF Recorder

\* A learner whose rows are not retired, and whose shared row is not, or writers crossed.
LEMMA KeptPlaced ==
  ASSUME NEW s, NEW z, Kept(s, z), NEW x, NEW y, x => y, NEW c, NEW r, Placed(c, r, s, x),
         r.proven \subseteq ActiveIn(z, c),
         r.at \in {"promote", "merge"} => r.row \in ActiveIn(z, c),
         r.at \in {"merge", "reward"} => y \/ z[r.dup].active
  PROVE  Placed(c, r, z, y)
  <1>1. \A o : OfIn(z, o) = OfIn(s, o) /\ ActiveIn(z, o) \subseteq ActiveIn(s, o)
    BY KeptRows
  <1>2. \A t : UnknownIn(s, c, t) <=> UnknownIn(z, c, t)
    BY KeptRows
  <1>3. \A o : \A i \in OfIn(s, o) : z[i].text = s[i].text
    BY DEF Kept, OfIn
  <1>4. ASSUME NEW t, UnsharedIn(s, t) PROVE UnsharedIn(z, t)
    <2>1. \A i \in ActiveIn(z, "shared") : i \in ActiveIn(s, "shared") /\ z[i].text = s[i].text
      BY <1>1, <1>3 DEF ActiveIn
    <2> QED BY <1>4, <2>1 DEF UnsharedIn
  <1>5. r.at = "insert" => r.text \in Texts /\ (y \/ UnknownIn(z, c, r.text))
    BY <1>2 DEF Placed
  <1>6. r.at \in {"promote", "merge"} => r.row \in OfIn(s, c) /\ z[r.row].text = s[r.row].text
    BY <1>3 DEF Placed, ActiveIn
  <1>7. r.at = "promote" => y \/ UnsharedIn(z, z[r.row].text)
    BY <1>4, <1>6 DEF Placed
  <1>8. r.at \in {"merge", "reward"} => r.dup \in OfIn(z, "shared") /\ z[r.dup].text = s[r.dup].text
    BY <1>1, <1>3 DEF Placed
  <1>9. r.at = "merge" => z[r.dup].text = z[r.row].text
    BY <1>6, <1>8 DEF Placed
  <1> QED BY <1>5, <1>7, <1>8, <1>9 DEF Placed

\* Rows of another owner are as active as before.
LEMMA KeptOthers ==
  ASSUME NEW s, NEW z, Kept(s, z), NEW c, \A i \in OfIn(s, c) : z[i].active = s[i].active
  PROVE  ActiveIn(z, c) = ActiveIn(s, c)
  BY KeptRows DEF ActiveIn

\* What lived on in a shared row still does.
LEMMA KeptLives ==
  ASSUME NEW s, NEW z, Kept(s, z), NEW i \in 1..Len(s), LivesOn(s, i)
  PROVE  LivesOn(z, i)
  <1>1. PICK j \in OfIn(s, "shared") : s[j].text = s[i].text
    BY DEF LivesOn
  <1>2. j \in OfIn(z, "shared") /\ z[j].text = z[i].text /\ z[i].owner # "shared"
    BY <1>1 DEF LivesOn, Kept, OfIn
  <1> QED BY <1>2 DEF LivesOn

\* The parts of the invariant, of the next state.
LEMMA LearnInvNext ==
  ASSUME LearnTyped', Distinctly(lessons', crossed'), FadedOnly(lessons', crossed'), DatedBy(lessons', today'),
         \A c \in Learners : Placed(c, learner'[c], lessons', crossed') /\ Recorder(c, recorder'[c], lessons', crossed')
  PROVE  LearnInv'
  BY DEF LearnInv

\* A learner changes rows that keep owner and text; those of the others stay active, unless writers crossed.
LEMMA KeptStep ==
  ASSUME LearnInv, NEW c \in Learners, NEW r \in LearnerRow, LearnerBecomes(c, r), Kept(lessons, lessons'),
         crossed' \in BOOLEAN, crossed => crossed', recorder' = recorder, today' = today,
         Placed(c, r, lessons', crossed'), FadedOnly(lessons', crossed'), DatedBy(lessons', today),
         \A d \in Learners : d # c => \A i \in OfIn(lessons, d) : lessons'[i].active = lessons[i].active,
         \A d \in Learners : d # c /\ learner[d].at \in {"merge", "reward"} /\ lessons[learner[d].dup].active
                               => crossed' \/ lessons'[learner[d].dup].active
  PROVE  LearnInv'
  <1>1. learner \in [Learners -> LearnerRow]
    BY DEF LearnInv, LearnTyped
  <1>2. learner' \in [Learners -> LearnerRow] /\ learner'[c] = r /\ \A d \in Learners : d # c => learner'[d] = learner[d]
    BY <1>1 DEF LearnerBecomes
  <1>3. LearnTyped'
    BY <1>2 DEF LearnInv, LearnTyped, Kept
  <1>4. Distinctly(lessons', crossed')
    BY KeptDistinctly DEF LearnInv
  <1>5. ASSUME NEW d \in Learners PROVE Recorder(d, recorder'[d], lessons', crossed')
    BY KeptRecorder DEF LearnInv
  <1>6. ASSUME NEW d \in Learners, d # c PROVE Placed(d, learner'[d], lessons', crossed')
    <2> DEFINE q == learner[d]
    <2>1. Placed(d, q, lessons, crossed) /\ learner'[d] = q
      BY <1>2, <1>6 DEF LearnInv
    <2>2. ActiveIn(lessons', d) = ActiveIn(lessons, d)
      BY <1>6, KeptOthers
    <2>3. q.at \in {"merge", "reward"} => crossed' \/ lessons'[q.dup].active
      BY <1>6, <2>1 DEF Placed
    <2>4. q.proven \subseteq ActiveIn(lessons', d) /\ (q.at \in {"promote", "merge"} => q.row \in ActiveIn(lessons', d))
      BY <2>1, <2>2 DEF Placed
    <2> HIDE DEF q
    <2> QED BY <2>1, <2>3, <2>4, KeptPlaced
  <1>7. DatedBy(lessons', today')
    OBVIOUS
  <1>8. \A d \in Learners : Placed(d, learner'[d], lessons', crossed') /\ Recorder(d, recorder'[d], lessons', crossed')
    BY <1>2, <1>5, <1>6
  <1> QED BY <1>3, <1>4, <1>7, <1>8, LearnInvNext

\* Rows that change no more than score, wins and the day of the last decay.
Rescored(s, z) ==
  /\ s \in Sheet /\ z \in Sheet /\ Len(z) = Len(s)
  /\ \A i \in 1..Len(s) : z[i].owner = s[i].owner /\ z[i].text = s[i].text /\ z[i].active = s[i].active

\* New scores leave the owners, the texts and the active rows alone.
LEMMA RescoredKept ==
  ASSUME NEW s, NEW z, Rescored(s, z)
  PROVE  Kept(s, z) /\ \A o : OfIn(z, o) = OfIn(s, o) /\ ActiveIn(z, o) = ActiveIn(s, o)
  <1>1. Kept(s, z)
    BY DEF Rescored, Kept
  <1>2. ASSUME NEW o PROVE OfIn(z, o) = OfIn(s, o) /\ ActiveIn(z, o) = ActiveIn(s, o)
    <2>1. OfIn(z, o) = OfIn(s, o)
      BY DEF Rescored, OfIn
    <2>2. \A i \in OfIn(s, o) : z[i].active = s[i].active
      BY DEF Rescored, OfIn
    <2> QED BY <2>1, <2>2 DEF ActiveIn
  <1> QED BY <1>1, <1>2

\* No row that is retired comes back over the floor, unless writers crossed.
LEMMA RescoredFaded ==
  ASSUME NEW s, NEW z, Rescored(s, z), NEW x, FadedOnly(s, x),
         \A i \in 1..Len(s) : ~s[i].active => z[i].score = s[i].score \/ x
  PROVE  FadedOnly(z, x)
  <1>1. Kept(s, z)
    BY RescoredKept
  <1>2. ASSUME NEW i \in 1..Len(s), ~z[i].active PROVE z[i].score < Floor \/ x \/ LivesOn(z, i)
    <2>1. ~s[i].active /\ (z[i].score = s[i].score \/ x)
      BY <1>2 DEF Rescored
    <2>2. s[i].score < Floor \/ x \/ LivesOn(s, i)
      BY <2>1 DEF FadedOnly
    <2>3. LivesOn(s, i) => LivesOn(z, i)
      BY <1>1, KeptLives
    <2> QED BY <2>1, <2>2, <2>3
  <1> QED BY <1>2 DEF FadedOnly, Rescored

\* A learner rescores rows and goes on to r.
LEMMA RescoredStep ==
  ASSUME LearnInv, NEW c \in Learners, NEW r \in LearnerRow, LearnerBecomes(c, r), Rescored(lessons, lessons'),
         UNCHANGED <<recorder, today, crossed>>, Placed(c, r, lessons, crossed),
         \A i \in 1..Len(lessons) : ~lessons[i].active => lessons'[i].score = lessons[i].score \/ crossed,
         DatedBy(lessons', today)
  PROVE  LearnInv'
  <1>1. Kept(lessons, lessons') /\ \A o : OfIn(lessons', o) = OfIn(lessons, o) /\ ActiveIn(lessons', o) = ActiveIn(lessons, o)
    BY RescoredKept
  <1>2. crossed' \in BOOLEAN /\ (crossed => crossed') /\ crossed' = crossed /\ recorder' = recorder /\ today' = today
    BY DEF LearnInv, LearnTyped
  <1>3. r.at \in {"merge", "reward"} => crossed' \/ lessons'[r.dup].active
    BY <1>2 DEF Placed, Rescored, OfIn
  <1>4. r.proven \subseteq ActiveIn(lessons', c) /\ (r.at \in {"promote", "merge"} => r.row \in ActiveIn(lessons', c))
    BY <1>1 DEF Placed
  <1>5. Placed(c, r, lessons', crossed')
    BY <1>1, <1>2, <1>3, <1>4, KeptPlaced
  <1>6. FadedOnly(lessons', crossed')
    BY <1>2, RescoredFaded DEF LearnInv
  <1>7. \A d \in Learners : d # c => \A i \in OfIn(lessons, d) : lessons'[i].active = lessons[i].active
    BY DEF Rescored, OfIn
  <1>8. \A d \in Learners : d # c /\ learner[d].at \in {"merge", "reward"} /\ lessons[learner[d].dup].active
                               => crossed' \/ lessons'[learner[d].dup].active
    <2> SUFFICES ASSUME NEW d \in Learners, learner[d].at \in {"merge", "reward"}, lessons[learner[d].dup].active
                 PROVE  lessons'[learner[d].dup].active
      OBVIOUS
    <2>1. learner[d].dup \in OfIn(lessons, "shared")
      BY DEF LearnInv, Placed
    <2> QED BY <2>1 DEF Rescored, OfIn
  <1> QED BY <1>1, <1>2, <1>5, <1>6, <1>7, <1>8, KeptStep

\* Nothing is rescored: a learner reads and goes on.
LEMMA ReadStep ==
  ASSUME LearnInv, NEW c \in Learners, NEW r \in LearnerRow, LearnerBecomes(c, r),
         UNCHANGED <<lessons, recorder, today, crossed>>, Placed(c, r, lessons, crossed)
  PROVE  LearnInv' /\ Ageing(lessons, lessons', today)
  <1>1. Rescored(lessons, lessons')
    BY DEF Rescored, LearnInv, LearnTyped
  <1>2. DatedBy(lessons', today)
    BY DEF LearnInv
  <1>3. \A i \in 1..Len(lessons) : lessons'[i].score = lessons[i].score
    OBVIOUS
  <1>4. LearnInv'
    BY <1>1, <1>2, <1>3, RescoredStep
  <1>5. ASSUME NEW i \in ActiveIn(lessons, "shared"), lessons'[i].score < lessons[i].score PROVE FALSE
    <2>1. i \in 1..Len(lessons) /\ lessons \in Sheet
      BY DEF ActiveIn, OfIn, LearnInv, LearnTyped
    <2>2. lessons[i].score \in Int
      BY <2>1, RowOf DEF LessonRow
    <2> QED BY <1>3, <1>5, <2>1, <2>2
  <1> QED BY <1>4, <1>5 DEF Ageing

\* What the invariant says of learner c and the rows.
LEMMA LearnerGiven ==
  ASSUME LearnInv, NEW c \in Learners
  PROVE  /\ lessons \in Sheet /\ Len(lessons) \in Nat /\ learner[c] \in LearnerRow /\ Placed(c, learner[c], lessons, crossed)
         /\ \A i \in 1..Len(lessons) : lessons[i] \in LessonRow /\ lessons[i].score \in Int
         /\ Own(c) = ActiveIn(lessons, c) /\ Shared = ActiveIn(lessons, "shared")
         /\ "shared" \notin Learners
  <1>1. lessons \in Sheet /\ learner[c] \in LearnerRow /\ Placed(c, learner[c], lessons, crossed)
    BY DEF LearnInv, LearnTyped
  <1>2. \A i \in 1..Len(lessons) : lessons[i] \in LessonRow
    BY <1>1, RowOf
  <1>3. \A i \in 1..Len(lessons) : lessons[i].score \in Int
    BY <1>2 DEF LessonRow
  <1>4. Own(c) = ActiveIn(lessons, c) /\ Shared = ActiveIn(lessons, "shared")
    BY DEF Own, Shared, Active, ActiveIn, Of, OfIn, LessonRows
  <1>5. Len(lessons) \in Nat
    BY <1>1 DEF Sheet
  <1> QED BY <1>1, <1>2, <1>3, <1>4, <1>5, LessonsAssumption

\* A learner that goes to an early place, or on from reading its candidates.
LEMMA Going ==
  ASSUME NEW r \in LearnerRow, NEW a \in LearnPoints
  PROVE  [r EXCEPT !.at = a] \in LearnerRow /\ [r EXCEPT !.at = a].at = a /\ [r EXCEPT !.at = a].proven = r.proven
  BY DEF LearnerRow

\* A learner that has not read its candidates holds no row, and goes on without.
LEMMA EarlyPlaced ==
  ASSUME NEW c, NEW r \in LearnerRow, NEW s, NEW x, NEW y, Placed(c, r, s, x), r.at \in Early,
         NEW q, q.proven = r.proven, q.at \in {"idle", "bump", "fade", "distill", "store", "next", "prune"},
         NEW z
  PROVE  Placed(c, q, z, y)
  BY DEF Placed, Early

\* A learner at rest holds nothing.
LEMMA NotLearningPlaced ==
  NotLearning \in LearnerRow /\ \A c, s, x : Placed(c, NotLearning, s, x)
  BY DEF NotLearning, LearnerRow, LearnPoints, NoRow, Placed

\* A sheet with some rows replaced.
Replaced(s, R, g) == [i \in 1..Len(s) |-> IF i \in R THEN g[i] ELSE s[i]]

\* A sheet with some rows replaced is a sheet.
LEMMA ReplacedSheet ==
  ASSUME NEW s \in Sheet, NEW R, NEW g, \A i \in 1..Len(s) : i \in R => g[i] \in LessonRow
  PROVE  /\ Replaced(s, R, g) \in Sheet /\ Len(Replaced(s, R, g)) = Len(s)
         /\ \A i \in 1..Len(s) : Replaced(s, R, g)[i] = IF i \in R THEN g[i] ELSE s[i]
  <1> DEFINE z == Replaced(s, R, g)
  <1>1. \A i \in 1..Len(s) : z[i] = IF i \in R THEN g[i] ELSE s[i]
    BY DEF Replaced
  <1>2. \A i \in 1..Len(s) : s[i] \in LessonRow
    BY RowOf
  <1>3. z \in [1..Len(s) -> LessonRow]
    BY <1>2 DEF Replaced
  <1> HIDE DEF z
  <1>4. z \in Sheet /\ Len(z) = Len(s)
    BY <1>3, SheetOf
  <1> QED BY <1>1, <1>4 DEF z

\* A learner rescores its active rows.
LEMMA OwnRescored ==
  ASSUME LearnInv, NEW c \in Learners, NEW r \in LearnerRow, LearnerBecomes(c, r), UNCHANGED <<recorder, today, crossed>>,
         Placed(c, r, lessons, crossed), NEW g, lessons' = Replaced(lessons, ActiveIn(lessons, c), g),
         \A i \in ActiveIn(lessons, c) : g[i] \in LessonRow /\ g[i].owner = lessons[i].owner /\ g[i].text = lessons[i].text
                                         /\ g[i].active = lessons[i].active /\ g[i].decayed = lessons[i].decayed
  PROVE  LearnInv' /\ Ageing(lessons, lessons', today)
  <1>1. lessons \in Sheet /\ (\A i \in 1..Len(lessons) : lessons[i] \in LessonRow /\ lessons[i].score \in Int) /\ c # "shared"
    BY LearnerGiven
  <1>2. \A i \in 1..Len(lessons) : i \in ActiveIn(lessons, c) => g[i] \in LessonRow
    OBVIOUS
  <1>3. lessons' \in Sheet /\ Len(lessons') = Len(lessons)
        /\ \A i \in 1..Len(lessons) : lessons'[i] = IF i \in ActiveIn(lessons, c) THEN g[i] ELSE lessons[i]
    BY <1>1, <1>2, ReplacedSheet
  <1>4. Rescored(lessons, lessons')
    BY <1>1, <1>3 DEF Rescored
  <1>5. \A i \in 1..Len(lessons) : lessons'[i].decayed = lessons[i].decayed
    BY <1>3
  <1>6. DatedBy(lessons', today)
    BY <1>3, <1>5 DEF DatedBy, LearnInv
  <1>7. \A i \in 1..Len(lessons) : i \notin ActiveIn(lessons, c) => lessons'[i].score = lessons[i].score
    BY <1>3
  <1>8. \A i \in 1..Len(lessons) : ~lessons[i].active => lessons'[i].score = lessons[i].score \/ crossed
    BY <1>7 DEF ActiveIn
  <1>9. LearnInv'
    BY <1>4, <1>6, <1>8, RescoredStep
  <1>10. ASSUME NEW i \in ActiveIn(lessons, "shared") PROVE ~(lessons'[i].score < lessons[i].score)
    <2>1. i \in 1..Len(lessons) /\ i \notin ActiveIn(lessons, c)
      BY <1>1 DEF ActiveIn, OfIn
    <2> QED BY <1>1, <1>7, <2>1
  <1> QED BY <1>9, <1>10 DEF Ageing

\* A decayed score is an integer.
LEMMA DecayInt == ASSUME NEW score \in Int PROVE decay(score) \in Int
  <1>1. score * DecayNum \in Int /\ DecayDen \in Int /\ DecayDen > 0
    BY LessonsAssumption
  <1> DEFINE k == score * DecayNum
  <1>2. k \in Int
    BY <1>1
  <1> HIDE DEF k
  <1>3. k \div DecayDen \in Int
    BY <1>1, <1>2
  <1> QED BY <1>3 DEF decay, k

\* A company's own rows lose score; the shared ones do not.
LEMMA DecayOwnKeeps == ASSUME LearnInv, NEW c \in Learners, DecayOwn(c) PROVE LearnInv' /\ Ageing(lessons, lessons', today)
  <1> DEFINE New(r) == [r EXCEPT !.score = decay(@)]
             l == [learner[c] EXCEPT !.at = "bump"]
             g == [i \in ActiveIn(lessons, c) |-> New(lessons[i])]
  <1>1. lessons' = [i \in 1..Len(lessons) |-> IF i \in Own(c) THEN New(lessons[i]) ELSE lessons[i]]
    BY DEF DecayOwn, Update, LessonRows
  <1>2. LearnerBecomes(c, l) /\ learner[c].at = "idle" /\ UNCHANGED <<recorder, today, crossed>>
    BY DEF DecayOwn, LearnerGoes
  <1>3. learner[c] \in LearnerRow /\ Placed(c, learner[c], lessons, crossed) /\ Own(c) = ActiveIn(lessons, c)
        /\ \A i \in 1..Len(lessons) : lessons[i] \in LessonRow /\ lessons[i].score \in Int
    BY LearnerGiven
  <1>4. l \in LearnerRow /\ l.at = "bump" /\ l.proven = learner[c].proven
    BY <1>3, Going DEF LearnPoints
  <1>5. Placed(c, l, lessons, crossed)
    BY <1>2, <1>3, <1>4, EarlyPlaced DEF Early
  <1>6. ASSUME NEW i \in ActiveIn(lessons, c)
        PROVE  New(lessons[i]) \in LessonRow /\ New(lessons[i]).owner = lessons[i].owner /\ New(lessons[i]).text = lessons[i].text
               /\ New(lessons[i]).active = lessons[i].active /\ New(lessons[i]).decayed = lessons[i].decayed
    <2>1. lessons[i] \in LessonRow /\ decay(lessons[i].score) \in Int
      BY <1>3, DecayInt DEF ActiveIn, OfIn
    <2> QED BY <2>1 DEF LessonRow
  <1> HIDE DEF New, l
  <1>7. lessons' = Replaced(lessons, ActiveIn(lessons, c), g)
    BY <1>1, <1>3 DEF Replaced
  <1>8. \A i \in ActiveIn(lessons, c) : g[i] \in LessonRow /\ g[i].owner = lessons[i].owner /\ g[i].text = lessons[i].text
                                         /\ g[i].active = lessons[i].active /\ g[i].decayed = lessons[i].decayed
    BY <1>6
  <1> HIDE DEF g
  <1> QED BY <1>2, <1>4, <1>5, <1>7, <1>8, OwnRescored

\* A company's own rows are scored by its day.
LEMMA BumpOwnKeeps == ASSUME LearnInv, NEW c \in Learners, BumpOwn(c) PROVE LearnInv' /\ Ageing(lessons, lessons', today)
  <1>0. PICK bump \in Bumps : Update(Own(c), LAMBDA r : [r EXCEPT !.score = @ + bump[1], !.wins = @ + bump[2]])
    BY DEF BumpOwn
  <1> DEFINE New(r) == [r EXCEPT !.score = @ + bump[1], !.wins = @ + bump[2]]
             l == [learner[c] EXCEPT !.at = "fade"]
             g == [i \in ActiveIn(lessons, c) |-> New(lessons[i])]
  <1>1. lessons' = [i \in 1..Len(lessons) |-> IF i \in Own(c) THEN New(lessons[i]) ELSE lessons[i]]
    BY <1>0 DEF Update, LessonRows
  <1>2. LearnerBecomes(c, l) /\ learner[c].at = "bump" /\ UNCHANGED <<recorder, today, crossed>>
    BY DEF BumpOwn, LearnerGoes, OnlyRows
  <1>3. learner[c] \in LearnerRow /\ Placed(c, learner[c], lessons, crossed) /\ Own(c) = ActiveIn(lessons, c)
        /\ \A i \in 1..Len(lessons) : lessons[i] \in LessonRow /\ lessons[i].score \in Int
    BY LearnerGiven
  <1>4. l \in LearnerRow /\ l.at = "fade" /\ l.proven = learner[c].proven
    BY <1>3, Going DEF LearnPoints
  <1>5. Placed(c, l, lessons, crossed)
    BY <1>2, <1>3, <1>4, EarlyPlaced DEF Early
  <1>6. ASSUME NEW i \in ActiveIn(lessons, c)
        PROVE  New(lessons[i]) \in LessonRow /\ New(lessons[i]).owner = lessons[i].owner /\ New(lessons[i]).text = lessons[i].text
               /\ New(lessons[i]).active = lessons[i].active /\ New(lessons[i]).decayed = lessons[i].decayed
    <2>1. lessons[i] \in LessonRow
      BY <1>3 DEF ActiveIn, OfIn
    <2>2. lessons[i].score + bump[1] \in Int /\ lessons[i].wins + bump[2] \in Nat
      BY <2>1, LessonsAssumption DEF LessonRow
    <2> QED BY <2>1, <2>2 DEF LessonRow
  <1> HIDE DEF New, l
  <1>7. lessons' = Replaced(lessons, ActiveIn(lessons, c), g)
    BY <1>1, <1>3 DEF Replaced
  <1>8. \A i \in ActiveIn(lessons, c) : g[i] \in LessonRow /\ g[i].owner = lessons[i].owner /\ g[i].text = lessons[i].text
                                         /\ g[i].active = lessons[i].active /\ g[i].decayed = lessons[i].decayed
    BY <1>6
  <1> HIDE DEF g
  <1> QED BY <1>2, <1>4, <1>5, <1>7, <1>8, OwnRescored

\* Rows that are retired: what is retired has faded, or is a copy that lives on.
Retired(s, z, R) ==
  /\ s \in Sheet /\ z \in Sheet /\ Len(z) = Len(s)
  /\ \A i \in 1..Len(s) : z[i].owner = s[i].owner /\ z[i].text = s[i].text /\ z[i].score = s[i].score /\ z[i].decayed = s[i].decayed
                          /\ z[i].active = (s[i].active /\ i \notin R)

\* What retiring rows gives.
LEMMA RetiredRows ==
  ASSUME NEW s \in Sheet, NEW R
  PROVE  Retired(s, [i \in 1..Len(s) |-> IF i \in R THEN [s[i] EXCEPT !.active = FALSE] ELSE s[i]], R)
  <1> DEFINE New(r) == [r EXCEPT !.active = FALSE]
             g == [i \in R |-> New(s[i])]
             z == Replaced(s, R, g)
  <1>1. \A i \in 1..Len(s) : s[i] \in LessonRow /\ s[i].active \in BOOLEAN
    <2>1. \A i \in 1..Len(s) : s[i] \in LessonRow
      BY RowOf
    <2> QED BY <2>1 DEF LessonRow
  <1>2. \A i \in 1..Len(s) : New(s[i]) \in LessonRow /\ New(s[i]).owner = s[i].owner /\ New(s[i]).text = s[i].text
               /\ New(s[i]).active = FALSE /\ New(s[i]).decayed = s[i].decayed /\ New(s[i]).score = s[i].score
    BY <1>1 DEF LessonRow
  <1>3. [i \in 1..Len(s) |-> IF i \in R THEN [s[i] EXCEPT !.active = FALSE] ELSE s[i]] = z
    BY DEF Replaced
  <1> HIDE DEF New
  <1>5. \A i \in 1..Len(s) : i \in R => g[i] = New(s[i])
    OBVIOUS
  <1> HIDE DEF g
  <1>6. \A i \in 1..Len(s) : i \in R => g[i] \in LessonRow
    BY <1>2, <1>5
  <1>7. z \in Sheet /\ Len(z) = Len(s) /\ \A i \in 1..Len(s) : z[i] = IF i \in R THEN g[i] ELSE s[i]
    BY <1>6, ReplacedSheet
  <1> HIDE DEF z
  <1>9. ASSUME NEW i \in 1..Len(s)
        PROVE  z[i].owner = s[i].owner /\ z[i].text = s[i].text /\ z[i].score = s[i].score
               /\ z[i].decayed = s[i].decayed /\ z[i].active = (s[i].active /\ i \notin R)
    <2>1. CASE i \in R
      <3>1. z[i] = New(s[i])
        BY <1>5, <1>7, <2>1
      <3> QED BY <1>2, <2>1, <3>1
    <2>2. CASE i \notin R
      <3>1. z[i] = s[i]
        BY <1>7, <2>2
      <3> QED BY <1>1, <2>2, <3>1
    <2> QED BY <2>1, <2>2
  <1>10. Retired(s, z, R)
    BY <1>7, <1>9 DEF Retired
  <1> QED BY <1>3, <1>10

\* A learner retires rows R, its own or shared ones that no one else is merging into, or writers crossed.
LEMMA RetiredStep ==
  ASSUME LearnInv, NEW c \in Learners, NEW r \in LearnerRow, LearnerBecomes(c, r), NEW R, Retired(lessons, lessons', R),
         crossed' \in BOOLEAN, crossed => crossed', recorder' = recorder, today' = today, Placed(c, r, lessons', crossed'),
         \A i \in R : i \in ActiveIn(lessons, c) \/ i \in ActiveIn(lessons, "shared"),
         \A i \in R : lessons[i].score < Floor \/ LivesOn(lessons, i),
         \A d \in Learners : d # c /\ learner[d].at \in {"merge", "reward"} /\ learner[d].dup \in R => crossed'
  PROVE  LearnInv' /\ Ageing(lessons, lessons', today)
  <1>1. Kept(lessons, lessons')
    BY DEF Retired, Kept
  <1>2. \A i \in 1..Len(lessons) : i \notin R => lessons'[i].active = lessons[i].active
    <2>1. \A i \in 1..Len(lessons) : lessons[i].active \in BOOLEAN
      <3>1. \A i \in 1..Len(lessons) : lessons[i] \in LessonRow
        BY LearnerGiven
      <3> QED BY <3>1 DEF LessonRow
    <2> QED BY <2>1 DEF Retired
  <1>3. DatedBy(lessons', today)
    BY DEF DatedBy, Retired, LearnInv
  <1>4. ASSUME NEW i \in 1..Len(lessons), ~lessons'[i].active PROVE lessons'[i].score < Floor \/ crossed' \/ LivesOn(lessons', i)
    <2>1. lessons[i].score < Floor \/ crossed \/ LivesOn(lessons, i)
      BY <1>2, <1>4 DEF LearnInv, FadedOnly
    <2>2. LivesOn(lessons, i) => LivesOn(lessons', i)
      BY <1>1, KeptLives
    <2> QED BY <2>1, <2>2 DEF Retired
  <1>5. FadedOnly(lessons', crossed')
    BY <1>4 DEF FadedOnly, Retired
  <1>6. "shared" \notin Learners
    BY LessonsAssumption
  <1>7. ASSUME NEW d \in Learners, d # c, NEW i \in OfIn(lessons, d) PROVE lessons'[i].active = lessons[i].active
    <2>1. i \notin R /\ i \in 1..Len(lessons)
      BY <1>6, <1>7 DEF ActiveIn, OfIn
    <2> QED BY <1>2, <2>1
  <1>8. ASSUME NEW d \in Learners, d # c, learner[d].at \in {"merge", "reward"}, lessons[learner[d].dup].active
        PROVE  crossed' \/ lessons'[learner[d].dup].active
    <2>1. learner[d].dup \in 1..Len(lessons)
      BY <1>8 DEF LearnInv, Placed, OfIn
    <2> QED BY <1>2, <1>8, <2>1
  <1>9. LearnInv'
    BY <1>1, <1>3, <1>5, <1>7, <1>8, KeptStep
  <1>10. ASSUME NEW i \in ActiveIn(lessons, "shared") PROVE ~(lessons'[i].score < lessons[i].score)
    <2>1. i \in 1..Len(lessons) /\ lessons[i].score \in Int
      BY LearnerGiven DEF ActiveIn, OfIn
    <2> QED BY <2>1 DEF Retired
  <1> QED BY <1>9, <1>10 DEF Ageing

\* A company's faded rows are retired, before it reads its candidates.
LEMMA RetireOwnKeeps == ASSUME LearnInv, NEW c \in Learners, RetireOwn(c) PROVE LearnInv' /\ Ageing(lessons, lessons', today)
  <1> DEFINE l == [learner[c] EXCEPT !.at = "distill"]
             R == Faded(Own(c))
  <1>1. lessons' = [i \in 1..Len(lessons) |-> IF i \in R THEN [lessons[i] EXCEPT !.active = FALSE] ELSE lessons[i]]
    BY DEF RetireOwn, Update, LessonRows
  <1>2. LearnerBecomes(c, l) /\ learner[c].at = "fade" /\ UNCHANGED <<recorder, today, crossed>>
    BY DEF RetireOwn, LearnerGoes, OnlyRows
  <1>3. learner[c] \in LearnerRow /\ Placed(c, learner[c], lessons, crossed) /\ Own(c) = ActiveIn(lessons, c) /\ "shared" \notin Learners
    BY LearnerGiven
  <1>4. l \in LearnerRow /\ l.at = "distill" /\ l.proven = learner[c].proven
    BY <1>3, Going DEF LearnPoints
  <1>5. Placed(c, l, lessons', crossed')
    BY <1>2, <1>3, <1>4, EarlyPlaced DEF Early
  <1>6. \A i \in R : i \in ActiveIn(lessons, c) /\ lessons[i].score < Floor
    BY <1>3 DEF Faded
  <1>7. ASSUME NEW d \in Learners, d # c, learner[d].at \in {"merge", "reward"}, learner[d].dup \in R PROVE crossed'
    <2>1. learner[d].dup \in OfIn(lessons, "shared") /\ learner[d].dup \in OfIn(lessons, c)
      BY <1>6, <1>7 DEF LearnInv, Placed, ActiveIn
    <2> QED BY <1>3, <2>1 DEF OfIn
  <1>8. Retired(lessons, lessons', R)
    <2>1. lessons \in Sheet
      BY DEF LearnInv, LearnTyped
    <2> HIDE DEF l, R
    <2>2. Retired(lessons, [i \in 1..Len(lessons) |-> IF i \in R THEN [lessons[i] EXCEPT !.active = FALSE] ELSE lessons[i]], R)
      BY <2>1, RetiredRows
    <2> QED BY <1>1, <2>2
  <1>9. crossed' \in BOOLEAN /\ (crossed => crossed') /\ recorder' = recorder /\ today' = today
    BY <1>2 DEF LearnInv, LearnTyped
  <1> HIDE DEF l, R
  <1> QED BY <1>2, <1>4, <1>5, <1>6, <1>7, <1>8, <1>9, RetiredStep

\* What appending a row gives.
LEMMA GrownRows ==
  ASSUME NEW s \in Sheet, NEW row \in LessonRow
  PROVE  /\ Append(s, row) \in Sheet /\ Len(Append(s, row)) = Len(s) + 1 /\ Append(s, row)[Len(s) + 1] = row
         /\ \A i \in 1..Len(s) : Append(s, row)[i] = s[i]
         /\ \A i \in 1..(Len(s) + 1) : i \in 1..Len(s) \/ i = Len(s) + 1
         /\ Len(s) \in Nat
  <1>1. s \in Seq(LessonRow) /\ Len(s) \in Nat
    BY DEF Sheet
  <1> QED BY <1>1, AppendProperties DEF Sheet

\* Sheet z is s and one more, active row of company c.
Grown(s, z, c) ==
  /\ s \in Sheet /\ z \in Sheet /\ Len(s) \in Nat /\ Len(z) = Len(s) + 1
  /\ \A i \in 1..Len(s) : z[i] = s[i]
  /\ z[Len(s) + 1].owner = c /\ z[Len(s) + 1].active

\* Its owner has the new row, the others have what they had.
LEMMA GrownOf ==
  ASSUME NEW s, NEW z, NEW c, Grown(s, z, c), NEW o
  PROVE  /\ OfIn(z, o) = (IF o = c THEN OfIn(s, o) \cup {Len(s) + 1} ELSE OfIn(s, o))
         /\ ActiveIn(z, o) = (IF o = c THEN ActiveIn(s, o) \cup {Len(s) + 1} ELSE ActiveIn(s, o))
         /\ Len(s) + 1 \notin OfIn(s, o) /\ OfIn(s, o) \subseteq 1..Len(s)
  <1>1. \A i : i \in 1..Len(z) <=> i \in 1..Len(s) \/ i = Len(s) + 1
    BY DEF Grown
  <1>2. Len(s) + 1 \notin 1..Len(s)
    BY DEF Grown
  <1>3. ASSUME NEW i PROVE i \in OfIn(z, o) <=> (i \in OfIn(s, o) \/ (i = Len(s) + 1 /\ o = c))
    BY <1>1, <1>2 DEF OfIn, Grown
  <1>4. OfIn(z, o) = (IF o = c THEN OfIn(s, o) \cup {Len(s) + 1} ELSE OfIn(s, o))
    BY <1>3
  <1>5. ASSUME NEW i PROVE i \in ActiveIn(z, o) <=> (i \in ActiveIn(s, o) \/ (i = Len(s) + 1 /\ o = c))
    <2>1. i \in OfIn(s, o) => z[i] = s[i] /\ i # Len(s) + 1
      BY <1>2 DEF OfIn, Grown
    <2>2. z[Len(s) + 1].active
      BY DEF Grown
    <2> QED BY <1>3, <2>1, <2>2 DEF ActiveIn
  <1>6. ActiveIn(z, o) = (IF o = c THEN ActiveIn(s, o) \cup {Len(s) + 1} ELSE ActiveIn(s, o))
    BY <1>5
  <1>7. Len(s) + 1 \notin OfIn(s, o) /\ OfIn(s, o) \subseteq 1..Len(s)
    BY <1>2 DEF OfIn
  <1> QED BY <1>4, <1>6, <1>7

\* A text is still unknown to an owner that did not get it.
LEMMA GrownUnknown ==
  ASSUME NEW s, NEW z, NEW c, Grown(s, z, c), NEW o, NEW t, UnknownIn(s, o, t), o = c => t # z[Len(s) + 1].text
  PROVE  UnknownIn(z, o, t)
  <1>1. ASSUME NEW i \in OfIn(z, o) PROVE z[i].text # t
    <2>1. CASE i \in OfIn(s, o)
      <3>1. z[i] = s[i]
        BY <2>1, GrownOf DEF Grown
      <3> QED BY <2>1, <3>1 DEF UnknownIn
    <2>2. CASE i \notin OfIn(s, o)
      <3>1. o = c /\ i = Len(s) + 1
        BY <2>2, GrownOf
      <3> QED BY <3>1
    <2> QED BY <2>1, <2>2
  <1> QED BY <1>1 DEF UnknownIn

\* A learner keeps its place when a row is added, unless it was about to add the very text.
LEMMA GrownPlaced ==
  ASSUME NEW s, NEW z, NEW c, Grown(s, z, c), NEW d \in Learners, NEW r, NEW x, NEW y, x => y, Placed(d, r, s, x), c \in Learners,
         d = c /\ r.at = "insert" => y \/ r.text # z[Len(s) + 1].text
  PROVE  Placed(d, r, z, y)
  <1>0. c # "shared"
    BY LessonsAssumption
  <1>1. r.at = "insert" => r.text \in Texts /\ (y \/ UnknownIn(z, d, r.text))
    <2> SUFFICES ASSUME r.at = "insert", ~y PROVE UnknownIn(z, d, r.text)
      BY DEF Placed
    <2>1. UnknownIn(s, d, r.text) /\ (d = c => r.text # z[Len(s) + 1].text)
      BY DEF Placed
    <2> DEFINE t == r.text
    <2>2. UnknownIn(s, d, t) /\ (d = c => t # z[Len(s) + 1].text)
      BY <2>1
    <2> HIDE DEF t
    <2>3. UnknownIn(z, d, t)
      BY <2>2, GrownUnknown
    <2> QED BY <2>3 DEF t
  <1>2. ActiveIn(s, d) \subseteq ActiveIn(z, d)
    BY GrownOf
  <1>3. ActiveIn(z, "shared") = ActiveIn(s, "shared") /\ OfIn(z, "shared") = OfIn(s, "shared")
    BY <1>0, GrownOf
  <1>4. \A o : \A i \in OfIn(s, o) : z[i] = s[i]
    BY GrownOf DEF Grown
  <1>5. \A i \in ActiveIn(s, "shared") : z[i] = s[i]
    BY <1>4 DEF ActiveIn
  <1>6. r.at \in {"promote", "merge"} => z[r.row] = s[r.row] /\ r.row \in ActiveIn(z, d)
    BY <1>2, <1>4 DEF Placed, ActiveIn
  <1>7. r.at = "promote" => y \/ UnsharedIn(z, z[r.row].text)
    BY <1>3, <1>5, <1>6 DEF Placed, UnsharedIn
  <1>8. r.at \in {"merge", "reward"} => r.dup \in OfIn(z, "shared") /\ z[r.dup] = s[r.dup]
    BY <1>3, <1>4 DEF Placed
  <1> QED BY <1>1, <1>2, <1>6, <1>7, <1>8 DEF Placed

\* A row of a text unknown to its owner leaves every lesson there once.
LEMMA GrownSheet ==
  ASSUME NEW s, NEW z, NEW c \in Learners, Grown(s, z, c), NEW x, NEW y, x => y, Distinctly(s, x), FadedOnly(s, x),
         y \/ UnknownIn(s, c, z[Len(s) + 1].text)
  PROVE  Distinctly(z, y) /\ FadedOnly(z, y)
  <1>0. c # "shared" /\ \A o : \A i \in OfIn(s, o) : z[i] = s[i]
    BY LessonsAssumption, GrownOf DEF Grown
  <1>1. Distinctly(z, y)
    <2> SUFFICES ASSUME ~y PROVE SharedOnceIn(z) /\ \A d \in Learners : OnceIn(z, d)
      BY DEF Distinctly
    <2>1. SharedOnceIn(s) /\ (\A d \in Learners : OnceIn(s, d)) /\ UnknownIn(s, c, z[Len(s) + 1].text)
      BY DEF Distinctly
    <2>2. SharedOnceIn(z)
      <3>1. ActiveIn(z, "shared") = ActiveIn(s, "shared") /\ \A i \in ActiveIn(s, "shared") : z[i] = s[i]
        BY <1>0, GrownOf DEF ActiveIn
      <3> QED BY <2>1, <3>1 DEF SharedOnceIn
    <2>3. ASSUME NEW d \in Learners, d # c PROVE OnceIn(z, d)
      <3>1. OfIn(z, d) = OfIn(s, d)
        BY <2>3, GrownOf
      <3> QED BY <1>0, <2>1, <3>1 DEF OnceIn
    <2>4. OnceIn(z, c)
      <3>1. OfIn(z, c) = OfIn(s, c) \cup {Len(s) + 1} /\ Len(s) + 1 \notin OfIn(s, c)
        BY GrownOf
      <3>2. \A i \in OfIn(s, c) : z[i].text # z[Len(s) + 1].text
        BY <1>0, <2>1 DEF UnknownIn
      <3>3. \A i, j \in OfIn(s, c) : i # j => z[i].text # z[j].text
        BY <1>0, <2>1 DEF OnceIn
      <3> QED BY <3>1, <3>2, <3>3 DEF OnceIn
    <2> QED BY <2>2, <2>3, <2>4
  <1>2. ASSUME NEW i \in 1..Len(z), ~z[i].active PROVE z[i].score < Floor \/ y \/ LivesOn(z, i)
    <2>1. i \in 1..Len(s) /\ z[i] = s[i]
      <3>1. i # Len(s) + 1
        BY <1>2 DEF Grown
      <3> QED BY <3>1 DEF Grown
    <2>2. s[i].score < Floor \/ x \/ LivesOn(s, i)
      BY <1>2, <2>1 DEF FadedOnly
    <2>3. ASSUME LivesOn(s, i) PROVE LivesOn(z, i)
      <3>1. PICK j \in OfIn(s, "shared") : s[j].text = s[i].text
        BY <2>3 DEF LivesOn
      <3>2. j \in OfIn(z, "shared") /\ z[j] = s[j]
        BY <1>0, <3>1, GrownOf
      <3> QED BY <2>1, <2>3, <3>1, <3>2 DEF LivesOn
    <2> QED BY <2>1, <2>2, <2>3
  <1> QED BY <1>1, <1>2 DEF FadedOnly

\* A lesson nobody knew is inserted, or writers crossed.
LEMMA GrownStep ==
  ASSUME LearnInv, NEW c \in Learners, NEW row \in LessonRow, row.owner = c, row.active, row.decayed = today,
         lessons' = Append(lessons, row), today' = today, crossed' \in BOOLEAN, crossed => crossed',
         learner' \in [Learners -> LearnerRow], recorder' \in [Learners -> Texts \cup {NoText}],
         \A d \in Learners : d # c => learner'[d] = learner[d] /\ recorder'[d] = recorder[d],
         crossed' \/ UnknownIn(lessons, c, row.text),
         Placed(c, learner'[c], lessons, crossed), Recorder(c, recorder'[c], lessons, crossed),
         learner'[c].at = "insert" => crossed' \/ learner'[c].text # row.text,
         recorder'[c] # NoText => crossed' \/ recorder'[c] # row.text
  PROVE  LearnInv' /\ Ageing(lessons, lessons', today)
  <1>1. lessons \in Sheet /\ (\A i \in 1..Len(lessons) : lessons[i] \in LessonRow /\ lessons[i].score \in Int) /\ Len(lessons) \in Nat
    BY LearnerGiven
  <1>2. lessons' \in Sheet /\ Len(lessons') = Len(lessons) + 1 /\ lessons'[Len(lessons) + 1] = row
        /\ (\A i \in 1..Len(lessons) : lessons'[i] = lessons[i])
        /\ \A i \in 1..(Len(lessons) + 1) : i \in 1..Len(lessons) \/ i = Len(lessons) + 1
    BY <1>1, GrownRows
  <1>3. Grown(lessons, lessons', c) /\ lessons'[Len(lessons) + 1].text = row.text
    BY <1>1, <1>2 DEF Grown
  <1>4. Distinctly(lessons', crossed') /\ FadedOnly(lessons', crossed')
    BY <1>3, GrownSheet DEF LearnInv
  <1>5. DatedBy(lessons', today')
    <2>1. ASSUME NEW i \in 1..Len(lessons') PROVE lessons'[i].decayed <= today
      <3>1. CASE i = Len(lessons) + 1
        BY <1>2, <3>1 DEF LearnInv, LearnTyped
      <3>2. CASE i # Len(lessons) + 1
        BY <1>2, <3>2 DEF LearnInv, DatedBy
      <3> QED BY <3>1, <3>2
    <2> QED BY <2>1 DEF DatedBy
  <1>6. ASSUME NEW d \in Learners PROVE Placed(d, learner'[d], lessons', crossed')
    <2> DEFINE r == learner'[d]
    <2>1. Placed(d, r, lessons, crossed) /\ (d = c /\ r.at = "insert" => crossed' \/ r.text # lessons'[Len(lessons) + 1].text)
      BY <1>3 DEF LearnInv
    <2> DEFINE z == lessons'
               y == crossed'
    <2>2. Grown(lessons, z, c) /\ (crossed => y) /\ Placed(d, r, lessons, crossed)
      BY <1>3, <2>1
    <2>3. d = c /\ r.at = "insert" => y \/ r.text # z[Len(lessons) + 1].text
      BY <2>1
    <2> HIDE DEF r, z, y
    <2>4. Placed(d, r, z, y)
      BY <2>2, <2>3, GrownPlaced
    <2> QED BY <2>4 DEF r, z, y
  <1>7. ASSUME NEW d \in Learners PROVE Recorder(d, recorder'[d], lessons', crossed')
    <2> DEFINE t == recorder'[d]
    <2> SUFFICES ASSUME t # NoText, ~crossed' PROVE UnknownIn(lessons', d, t)
      BY DEF Recorder
    <2>1. UnknownIn(lessons, d, t) /\ (d = c => t # lessons'[Len(lessons) + 1].text)
      BY <1>3 DEF LearnInv, Recorder
    <2> HIDE DEF t
    <2> QED BY <1>3, <2>1, GrownUnknown
  <1>8. LearnTyped'
    BY <1>2 DEF LearnTyped, LearnInv
  <1>9. LearnInv'
    BY <1>4, <1>5, <1>6, <1>7, <1>8, LearnInvNext
  <1>10. ASSUME NEW i \in ActiveIn(lessons, "shared") PROVE ~(lessons'[i].score < lessons[i].score)
    <2>1. i \in 1..Len(lessons)
      BY DEF ActiveIn, OfIn
    <2> QED BY <1>1, <1>2, <2>1
  <1> QED BY <1>9, <1>10 DEF Ageing

\* A new row is active and dated today.
LEMMA FreshRow ==
  ASSUME LearnInv, NEW c \in Learners, NEW t \in Texts
  PROVE  Fresh(c, t) \in LessonRow /\ Fresh(c, t).owner = c /\ Fresh(c, t).active /\ Fresh(c, t).decayed = today /\ Fresh(c, t).text = t
  <1>1. today \in Nat
    BY DEF LearnInv, LearnTyped
  <1> QED BY <1>1, LessonsAssumption DEF Fresh, LessonRow

\* A distilled lesson is inserted: unknown at the lookup, unless a worker recorded it since, which crosses the two.
LEMMA InsertNewKeeps == ASSUME LearnInv, NEW c \in Learners, InsertNew(c) PROVE LearnInv' /\ Ageing(lessons, lessons', today)
  <1> DEFINE l == [learner[c] EXCEPT !.at = "store", !.text = NoText]
             t == learner[c].text
             row == Fresh(c, t)
  <1>1. LearnerBecomes(c, l) /\ learner[c].at = "insert" /\ recorder' = recorder /\ today' = today
        /\ crossed' = (crossed \/ recorder[c] = t) /\ lessons' = Append(lessons, row)
    BY DEF InsertNew, OnlyRows
  <1>2. learner[c] \in LearnerRow /\ Placed(c, learner[c], lessons, crossed) /\ lessons \in Sheet
    BY LearnerGiven
  <1>3. t \in Texts /\ (crossed \/ UnknownIn(lessons, c, t))
    BY <1>1, <1>2 DEF Placed
  <1>4. l \in LearnerRow /\ l.at = "store" /\ l.proven = learner[c].proven
    BY <1>2 DEF LearnerRow, LearnPoints
  <1>5. Placed(c, l, lessons, crossed)
    BY <1>1, <1>2, <1>4, EarlyPlaced DEF Early
  <1> HIDE DEF l, t
  <1>6. row \in LessonRow /\ row.owner = c /\ row.active /\ row.decayed = today /\ row.text = t
    BY <1>3, FreshRow
  <1> HIDE DEF row
  <1>7. learner' \in [Learners -> LearnerRow] /\ learner'[c] = l /\ \A d \in Learners : d # c => learner'[d] = learner[d]
    BY <1>1, <1>4 DEF LearnerBecomes, LearnInv, LearnTyped
  <1>8. recorder' \in [Learners -> Texts \cup {NoText}] /\ Recorder(c, recorder'[c], lessons, crossed) /\ crossed' \in BOOLEAN
    BY <1>1 DEF LearnInv, LearnTyped
  <1>9. crossed' \/ UnknownIn(lessons, c, row.text)
    BY <1>1, <1>3, <1>6
  <1>10. recorder'[c] # NoText => crossed' \/ recorder'[c] # row.text
    BY <1>1, <1>6
  <1>11. learner'[c].at = "insert" => crossed' \/ learner'[c].text # row.text
    BY <1>4, <1>7
  <1>12. \A d \in Learners : d # c => learner'[d] = learner[d] /\ recorder'[d] = recorder[d]
    BY <1>1, <1>7
  <1>13. Placed(c, learner'[c], lessons, crossed) /\ (crossed => crossed')
    BY <1>1, <1>5, <1>7
  <1> QED BY <1>1, <1>6, <1>7, <1>8, <1>9, <1>10, <1>11, <1>12, <1>13, GrownStep

\* A worker's lesson is inserted; a learner that looked the same text up has been crossed.
LEMMA RecordInsertKeeps == ASSUME LearnInv, NEW c \in Learners, RecordInsert(c) PROVE LearnInv' /\ Ageing(lessons, lessons', today)
  <1> DEFINE t == recorder[c]
             row == Fresh(c, t)
  <1>1. learner' = learner /\ recorder' = [recorder EXCEPT ![c] = NoText] /\ today' = today
        /\ crossed' = (crossed \/ learner[c].text = t) /\ lessons' = Append(lessons, row) /\ t # NoText
    BY DEF RecordInsert
  <1>2. Placed(c, learner[c], lessons, crossed) /\ lessons \in Sheet /\ learner \in [Learners -> LearnerRow]
        /\ recorder \in [Learners -> Texts \cup {NoText}] /\ crossed \in BOOLEAN /\ Recorder(c, t, lessons, crossed)
    BY DEF LearnInv, LearnTyped
  <1>3. t \in Texts /\ (crossed \/ UnknownIn(lessons, c, t))
    BY <1>1, <1>2 DEF Recorder
  <1> HIDE DEF t
  <1>4. row \in LessonRow /\ row.owner = c /\ row.active /\ row.decayed = today /\ row.text = t
    BY <1>3, FreshRow
  <1> HIDE DEF row
  <1>5. recorder' \in [Learners -> Texts \cup {NoText}] /\ recorder'[c] = NoText /\ \A d \in Learners : d # c => recorder'[d] = recorder[d]
    BY <1>1, <1>2
  <1>6. Recorder(c, recorder'[c], lessons, crossed)
    BY <1>5 DEF Recorder
  <1>7. learner' \in [Learners -> LearnerRow] /\ learner'[c] = learner[c] /\ Placed(c, learner'[c], lessons, crossed)
    BY <1>1, <1>2
  <1>8. learner'[c].at = "insert" => crossed' \/ learner'[c].text # row.text
    BY <1>1, <1>4, <1>7
  <1>9. (\A d \in Learners : d # c => learner'[d] = learner[d] /\ recorder'[d] = recorder[d]) /\ crossed' \in BOOLEAN /\ (crossed => crossed')
    BY <1>1, <1>2, <1>5
  <1>10. crossed' \/ UnknownIn(lessons, c, row.text)
    BY <1>1, <1>3, <1>4
  <1> QED BY <1>1, <1>4, <1>5, <1>6, <1>7, <1>8, <1>9, <1>10, GrownStep

\* Lessons are distilled: the sheets are as they were.
LEMMA DistillKeeps == ASSUME LearnInv, NEW c \in Learners, Distill(c) PROVE LearnInv' /\ Ageing(lessons, lessons', today)
  <1>1. PICK new \in SUBSET (Texts \ Digest(c)) : LearnerBecomes(c, [learner[c] EXCEPT !.at = "store", !.new = new])
    BY DEF Distill
  <1> DEFINE l == [learner[c] EXCEPT !.at = "store", !.new = new]
  <1>2. learner[c].at = "distill" /\ UNCHANGED <<lessons, recorder, today, crossed>>
    BY DEF Distill, OnlyLearner
  <1>3. learner[c] \in LearnerRow /\ Placed(c, learner[c], lessons, crossed)
    BY LearnerGiven
  <1>4. l \in LearnerRow /\ l.at = "store" /\ l.proven = learner[c].proven
    BY <1>3 DEF LearnerRow, LearnPoints
  <1>5. Placed(c, l, lessons, crossed)
    BY <1>2, <1>3, <1>4, EarlyPlaced DEF Early
  <1> HIDE DEF l
  <1>6. LearnerBecomes(c, l)
    BY <1>1 DEF l
  <1> QED BY <1>2, <1>4, <1>5, <1>6, ReadStep

\* What is not known to company c.
LEMMA UnknownHere == ASSUME NEW c, NEW t PROVE Unknown(c, t) <=> UnknownIn(lessons, c, t)
  BY DEF Unknown, UnknownIn, Of, OfIn, LessonRows

\* A distilled text is looked up among the company's rows of any status.
LEMMA LookUpNewKeeps == ASSUME LearnInv, NEW c \in Learners, LookUpNew(c) PROVE LearnInv' /\ Ageing(lessons, lessons', today)
  <1>1. PICK t \in learner[c].new :
          LearnerBecomes(c, [learner[c] EXCEPT !.new = @ \ {t}, !.at = IF Unknown(c, t) THEN "insert" ELSE @,
                                               !.text = IF Unknown(c, t) THEN t ELSE @])
    BY DEF LookUpNew
  <1>2. learner[c].at = "store" /\ UNCHANGED <<lessons, recorder, today, crossed>>
    BY DEF LookUpNew, OnlyLearner
  <1>3. learner[c] \in LearnerRow /\ Placed(c, learner[c], lessons, crossed)
    BY LearnerGiven
  <1>4. t \in Texts
    BY <1>3 DEF LearnerRow
  <1> DEFINE a == IF Unknown(c, t) THEN "insert" ELSE learner[c].at
             u == IF Unknown(c, t) THEN t ELSE learner[c].text
             l == [learner[c] EXCEPT !.new = @ \ {t}, !.at = a, !.text = u]
  <1>5. a \in {"insert", "store"} /\ u \in Texts \cup {NoText} /\ (a = "insert" => u = t /\ UnknownIn(lessons, c, t))
    BY <1>2, <1>3, <1>4, UnknownHere DEF LearnerRow
  <1>6. LearnerBecomes(c, l)
    BY <1>1
  <1> HIDE DEF a, u
  <1>7. l \in LearnerRow /\ l.at = a /\ l.text = u /\ l.proven = learner[c].proven
    BY <1>3, <1>5 DEF LearnerRow, LearnPoints
  <1> HIDE DEF l
  <1>8. l.proven = {}
    BY <1>2, <1>3, <1>7 DEF Placed, Early
  <1>9. Placed(c, l, lessons, crossed)
    BY <1>4, <1>5, <1>7, <1>8 DEF Placed, Early
  <1> QED BY <1>2, <1>6, <1>7, <1>9, ReadStep

\* A worker looks its text up.
LEMMA RecordLookUpKeeps == ASSUME LearnInv, NEW c \in Learners, NEW t \in Texts, RecordLookUp(c, t) PROVE LearnInv' /\ Ageing(lessons, lessons', today)
  <1>1. recorder' = [recorder EXCEPT ![c] = t] /\ UnknownIn(lessons, c, t) /\ UNCHANGED <<lessons, learner, today, crossed>>
    BY UnknownHere DEF RecordLookUp
  <1>2. recorder \in [Learners -> Texts \cup {NoText}] /\ lessons \in Sheet
    BY DEF LearnInv, LearnTyped
  <1>3. recorder' \in [Learners -> Texts \cup {NoText}] /\ recorder'[c] = t /\ \A d \in Learners : d # c => recorder'[d] = recorder[d]
    BY <1>1, <1>2
  <1>4. LearnTyped'
    BY <1>1, <1>3 DEF LearnInv, LearnTyped
  <1>5. ASSUME NEW d \in Learners PROVE Recorder(d, recorder'[d], lessons, crossed)
    BY <1>1, <1>3 DEF LearnInv, Recorder
  <1>6. Distinctly(lessons', crossed') /\ FadedOnly(lessons', crossed') /\ DatedBy(lessons', today')
        /\ \A d \in Learners : Placed(d, learner'[d], lessons', crossed') /\ Recorder(d, recorder'[d], lessons', crossed')
    BY <1>1, <1>5 DEF LearnInv
  <1>7. LearnInv'
    BY <1>4, <1>6, LearnInvNext
  <1>8. \A i \in ActiveIn(lessons, "shared") : ~(lessons'[i].score < lessons[i].score)
    BY <1>1, LearnerGiven DEF ActiveIn, OfIn
  <1> QED BY <1>7, <1>8 DEF Ageing

\* The candidates are read: active rows of the company.
LEMMA ReadProvenKeeps == ASSUME LearnInv, NEW c \in Learners, ReadProven(c) PROVE LearnInv' /\ Ageing(lessons, lessons', today)
  <1> DEFINE Q == {i \in Own(c) : qualifiesForPromotion(lessons[i])}
             l == [NotLearning EXCEPT !.at = "next", !.proven = Q]
  <1>1. LearnerBecomes(c, l) /\ UNCHANGED <<lessons, recorder, today, crossed>>
    BY DEF ReadProven, OnlyLearner
  <1>2. Own(c) = ActiveIn(lessons, c) /\ Len(lessons) \in Nat
    BY LearnerGiven
  <1>3. Q \subseteq ActiveIn(lessons, c) /\ Q \subseteq Nat
    BY <1>2 DEF ActiveIn, OfIn
  <1> HIDE DEF Q
  <1>4. l \in LearnerRow /\ l.at = "next" /\ l.proven = Q
    BY <1>3, NotLearningPlaced DEF LearnerRow, LearnPoints
  <1> HIDE DEF l
  <1>5. Placed(c, l, lessons, crossed)
    BY <1>3, <1>4 DEF Placed, Early
  <1> QED BY <1>1, <1>4, <1>5, ReadStep

\* Either no shared row has the candidate's text, or the learner goes to merge with one that has.
LEMMA LookUpSharedKeeps == ASSUME LearnInv, NEW c \in Learners, LookUpShared(c) PROVE LearnInv' /\ Ageing(lessons, lessons', today)
  <1>1. PICK i \in learner[c].proven :
          \/ SameOf(i) = {} /\ LearnerBecomes(c, [learner[c] EXCEPT !.proven = @ \ {i}, !.at = "promote", !.row = i])
          \/ \E j \in SameOf(i) : LearnerBecomes(c, [learner[c] EXCEPT !.proven = @ \ {i}, !.at = "merge", !.row = i, !.dup = j])
    BY DEF LookUpShared
  <1>2. learner[c].at = "next" /\ UNCHANGED <<lessons, recorder, today, crossed>>
    BY DEF LookUpShared, OnlyLearner
  <1>3. learner[c] \in LearnerRow /\ Placed(c, learner[c], lessons, crossed) /\ Shared = ActiveIn(lessons, "shared") /\ Len(lessons) \in Nat
    BY LearnerGiven
  <1>4. i \in ActiveIn(lessons, c) /\ learner[c].proven \ {i} \subseteq ActiveIn(lessons, c) /\ i \in Nat /\ learner[c].proven \ {i} \in SUBSET Nat
    BY <1>3 DEF Placed, LearnerRow
  <1>5. CASE SameOf(i) = {} /\ LearnerBecomes(c, [learner[c] EXCEPT !.proven = @ \ {i}, !.at = "promote", !.row = i])
    <2> DEFINE l == [learner[c] EXCEPT !.proven = @ \ {i}, !.at = "promote", !.row = i]
    <2>1. l \in LearnerRow /\ l.at = "promote" /\ l.proven = learner[c].proven \ {i} /\ l.row = i
      BY <1>3, <1>4 DEF LearnerRow, LearnPoints
    <2>2. LearnerBecomes(c, l)
      BY <1>5
    <2> HIDE DEF l
    <2>3. UnsharedIn(lessons, lessons[i].text)
      BY <1>3, <1>5 DEF SameOf, UnsharedIn
    <2>4. Placed(c, l, lessons, crossed)
      BY <1>4, <2>1, <2>3 DEF Placed, Early
    <2> QED BY <1>2, <2>1, <2>2, <2>4, ReadStep
  <1>6. ASSUME NEW j \in SameOf(i), LearnerBecomes(c, [learner[c] EXCEPT !.proven = @ \ {i}, !.at = "merge", !.row = i, !.dup = j])
        PROVE  LearnInv' /\ Ageing(lessons, lessons', today)
    <2> DEFINE l == [learner[c] EXCEPT !.proven = @ \ {i}, !.at = "merge", !.row = i, !.dup = j]
    <2>1. j \in ActiveIn(lessons, "shared") /\ lessons[j].text = lessons[i].text
      BY <1>3 DEF SameOf
    <2>2. j \in OfIn(lessons, "shared") /\ lessons[j].active /\ j \in Nat
      BY <1>3, <2>1 DEF ActiveIn, OfIn
    <2>3. l \in LearnerRow /\ l.at = "merge" /\ l.proven = learner[c].proven \ {i} /\ l.row = i /\ l.dup = j
      BY <1>3, <1>4, <2>2 DEF LearnerRow, LearnPoints
    <2>4. LearnerBecomes(c, l)
      BY <1>6
    <2> HIDE DEF l
    <2>5. Placed(c, l, lessons, crossed)
      BY <1>4, <2>1, <2>2, <2>3 DEF Placed, Early
    <2> QED BY <1>2, <2>3, <2>4, <2>5, ReadStep
  <1> QED BY <1>1, <1>5, <1>6

\* The copy of a merge is retired: the shared row it merges into has its text.
LEMMA RetireCopyKeeps == ASSUME LearnInv, NEW c \in Learners, RetireCopy(c) PROVE LearnInv' /\ Ageing(lessons, lessons', today)
  <1> DEFINE l == [learner[c] EXCEPT !.at = "reward"]
             R == {learner[c].row}
  <1>1. lessons' = [i \in 1..Len(lessons) |-> IF i \in R THEN [lessons[i] EXCEPT !.active = FALSE] ELSE lessons[i]]
    BY DEF RetireCopy, Update, LessonRows
  <1>2. LearnerBecomes(c, l) /\ learner[c].at = "merge" /\ UNCHANGED <<recorder, today, crossed>>
    BY DEF RetireCopy, LearnerGoes, OnlyRows
  <1>3. learner[c] \in LearnerRow /\ Placed(c, learner[c], lessons, crossed) /\ lessons \in Sheet /\ "shared" \notin Learners
    BY LearnerGiven
  <1>4. l \in LearnerRow /\ l.at = "reward" /\ l.proven = learner[c].proven /\ l.dup = learner[c].dup
    BY <1>3 DEF LearnerRow, LearnPoints
  <1>5. learner[c].row \in ActiveIn(lessons, c) /\ learner[c].row \notin learner[c].proven /\ learner[c].dup \in OfIn(lessons, "shared")
        /\ lessons[learner[c].dup].text = lessons[learner[c].row].text /\ learner[c].proven \subseteq ActiveIn(lessons, c)
        /\ (crossed \/ lessons[learner[c].dup].active)
    BY <1>2, <1>3 DEF Placed
  <1>6. Retired(lessons, lessons', R)
    <2> HIDE DEF l, R
    <2>1. Retired(lessons, [i \in 1..Len(lessons) |-> IF i \in R THEN [lessons[i] EXCEPT !.active = FALSE] ELSE lessons[i]], R)
      BY <1>3, RetiredRows
    <2> QED BY <1>1, <2>1
  <1>7. Kept(lessons, lessons')
    BY <1>6 DEF Retired, Kept
  <1>8. \A o : OfIn(lessons', o) = OfIn(lessons, o)
    BY <1>7, KeptRows
  <1>9. l.proven \subseteq ActiveIn(lessons', c)
    <2>1. ASSUME NEW i \in learner[c].proven PROVE i \in ActiveIn(lessons', c)
      <3>1. i \in OfIn(lessons, c) /\ lessons[i].active /\ i \notin R
        BY <1>5 DEF ActiveIn
      <3>2. lessons'[i].active
        BY <1>6, <3>1 DEF Retired, OfIn
      <3> QED BY <1>8, <3>1, <3>2 DEF ActiveIn
    <2> QED BY <1>4, <2>1
  <1>10. l.dup \in OfIn(lessons', "shared") /\ (crossed' \/ lessons'[l.dup].active)
    <2>1. learner[c].dup \in 1..Len(lessons) /\ learner[c].dup # learner[c].row
      BY <1>3, <1>5 DEF OfIn, ActiveIn
    <2> QED BY <1>2, <1>4, <1>5, <1>6, <1>8, <2>1 DEF Retired
  <1>11. LivesOn(lessons, learner[c].row)
    BY <1>3, <1>5 DEF LivesOn, ActiveIn, OfIn
  <1>12. \A i \in R : (i \in ActiveIn(lessons, c) \/ i \in ActiveIn(lessons, "shared")) /\ (lessons[i].score < Floor \/ LivesOn(lessons, i))
    BY <1>5, <1>11
  <1>13. ASSUME NEW d \in Learners, d # c, learner[d].at \in {"merge", "reward"}, learner[d].dup \in R PROVE crossed'
    <2>1. learner[d].dup \in OfIn(lessons, "shared") /\ learner[d].dup \in OfIn(lessons, c)
      BY <1>5, <1>13 DEF LearnInv, Placed, ActiveIn
    <2> QED BY <1>3, <2>1 DEF OfIn
  <1> HIDE DEF l, R
  <1>14. Placed(c, l, lessons', crossed')
    BY <1>4, <1>9, <1>10 DEF Placed, Early
  <1>15. crossed' \in BOOLEAN /\ (crossed => crossed') /\ recorder' = recorder /\ today' = today
    BY <1>2 DEF LearnInv, LearnTyped
  <1> QED BY <1>2, <1>4, <1>6, <1>12, <1>13, <1>14, <1>15, RetiredStep

\* The shared sheet's faded rows are retired; who was merging into one of them has been crossed.
LEMMA RetireSharedKeeps == ASSUME LearnInv, NEW c \in Learners, RetireShared(c) PROVE LearnInv' /\ Ageing(lessons, lessons', today)
  <1> DEFINE R == Faded(Shared)
  <1>1. lessons' = [i \in 1..Len(lessons) |-> IF i \in R THEN [lessons[i] EXCEPT !.active = FALSE] ELSE lessons[i]]
    BY DEF RetireShared, Update, LessonRows
  <1>2. LearnerBecomes(c, NotLearning) /\ crossed' = (crossed \/ \E d \in Learners \ {c} : learner[d].dup \in R)
        /\ recorder' = recorder /\ today' = today
    BY DEF RetireShared, OnlyRows
  <1>3. lessons \in Sheet /\ Shared = ActiveIn(lessons, "shared") /\ crossed \in BOOLEAN
    BY LearnerGiven DEF LearnInv, LearnTyped
  <1>4. \A i \in R : i \in ActiveIn(lessons, "shared") /\ lessons[i].score < Floor
    BY <1>3 DEF Faded
  <1> HIDE DEF R
  <1>5. Retired(lessons, lessons', R)
    <2>1. Retired(lessons, [i \in 1..Len(lessons) |-> IF i \in R THEN [lessons[i] EXCEPT !.active = FALSE] ELSE lessons[i]], R)
      BY <1>3, RetiredRows
    <2> QED BY <1>1, <2>1
  <1>6. crossed' \in BOOLEAN /\ (crossed => crossed')
        /\ \A d \in Learners : d # c /\ learner[d].at \in {"merge", "reward"} /\ learner[d].dup \in R => crossed'
    BY <1>2, <1>3
  <1>7. NotLearning \in LearnerRow /\ Placed(c, NotLearning, lessons', crossed')
    BY NotLearningPlaced
  <1> QED BY <1>2, <1>4, <1>5, <1>6, <1>7, RetiredStep

\* The shared row merged into gains score; it was there, of the copy's text.
LEMMA RewardSharedKeeps == ASSUME LearnInv, NEW c \in Learners, RewardShared(c) PROVE LearnInv' /\ Ageing(lessons, lessons', today)
  <1> DEFINE New(r) == [r EXCEPT !.score = @ + MergeReward, !.wins = @ + 1]
             k == learner[c].dup
             l == [learner[c] EXCEPT !.at = "next", !.row = NoRow, !.dup = NoRow]
             g == [i \in {k} |-> New(lessons[i])]
  <1>1. lessons' = [i \in 1..Len(lessons) |-> IF i \in {k} THEN New(lessons[i]) ELSE lessons[i]]
    BY DEF RewardShared, Update, LessonRows
  <1>2. LearnerBecomes(c, l) /\ learner[c].at = "reward" /\ UNCHANGED <<recorder, today, crossed>>
    BY DEF RewardShared, Promoted, OnlyRows
  <1>3. learner[c] \in LearnerRow /\ Placed(c, learner[c], lessons, crossed) /\ lessons \in Sheet
        /\ \A i \in 1..Len(lessons) : lessons[i] \in LessonRow /\ lessons[i].score \in Int
    BY LearnerGiven
  <1>4. l \in LearnerRow /\ l.at = "next" /\ l.proven = learner[c].proven
    BY <1>3 DEF LearnerRow, LearnPoints, NoRow
  <1>5. k \in OfIn(lessons, "shared") /\ (crossed \/ lessons[k].active) /\ l.proven \subseteq ActiveIn(lessons, c)
    BY <1>2, <1>3, <1>4 DEF Placed
  <1>6. Placed(c, l, lessons, crossed)
    BY <1>4, <1>5 DEF Placed, Early
  <1>7. k \in 1..Len(lessons) /\ New(lessons[k]) \in LessonRow /\ New(lessons[k]).owner = lessons[k].owner /\ New(lessons[k]).text = lessons[k].text
        /\ New(lessons[k]).active = lessons[k].active /\ New(lessons[k]).decayed = lessons[k].decayed
        /\ New(lessons[k]).score = lessons[k].score + MergeReward
    <2>1. k \in 1..Len(lessons) /\ lessons[k] \in LessonRow
      BY <1>3, <1>5 DEF OfIn
    <2> HIDE DEF k
    <2>2. lessons[k].score + MergeReward \in Int /\ lessons[k].wins + 1 \in Nat
      <3>1. lessons[k].score \in Int /\ lessons[k].wins \in Nat
        BY <2>1 DEF LessonRow
      <3>2. MergeReward \in Nat
        BY LessonsAssumption
      <3> QED BY <3>1, <3>2
    <2> QED BY <2>1, <2>2 DEF LessonRow
  <1> HIDE DEF New, l
  <1>8. lessons' = Replaced(lessons, {k}, g) /\ g[k] = New(lessons[k])
    BY <1>1 DEF Replaced
  <1> HIDE DEF g
  <1>9. \A i \in 1..Len(lessons) : i \in {k} => g[i] \in LessonRow
    BY <1>7, <1>8
  <1>10. lessons' \in Sheet /\ Len(lessons') = Len(lessons) /\ \A i \in 1..Len(lessons) : lessons'[i] = IF i \in {k} THEN g[i] ELSE lessons[i]
    BY <1>3, <1>8, <1>9, ReplacedSheet
  <1>11. \A i \in 1..Len(lessons) : i # k => lessons'[i] = lessons[i]
    BY <1>10
  <1>12. lessons'[k] = New(lessons[k])
    BY <1>7, <1>8, <1>10
  <1> HIDE DEF k
  <1>13. ASSUME NEW i \in 1..Len(lessons)
         PROVE  lessons'[i].owner = lessons[i].owner /\ lessons'[i].text = lessons[i].text /\ lessons'[i].active = lessons[i].active
                /\ lessons'[i].decayed = lessons[i].decayed
    BY <1>7, <1>11, <1>12
  <1>14. Rescored(lessons, lessons') /\ DatedBy(lessons', today)
    BY <1>3, <1>10, <1>13 DEF Rescored, DatedBy, LearnInv
  <1>15. \A i \in 1..Len(lessons) : ~lessons[i].active => lessons'[i].score = lessons[i].score \/ crossed
    BY <1>5, <1>11
  <1>16. LearnInv'
    BY <1>2, <1>4, <1>6, <1>14, <1>15, RescoredStep
  <1>17. ASSUME NEW i \in ActiveIn(lessons, "shared") PROVE ~(lessons'[i].score < lessons[i].score)
    <2>1. i \in 1..Len(lessons) /\ lessons[i].score \in Int /\ MergeReward \in Nat
      BY <1>3, LessonsAssumption DEF ActiveIn, OfIn
    <2>2. lessons'[i].score = lessons[i].score \/ lessons'[i].score = lessons[i].score + MergeReward
      BY <1>7, <1>11, <1>12, <2>1
    <2> QED BY <2>1, <2>2
  <1> QED BY <1>16, <1>17 DEF Ageing

----------------------------------------------------------------------------
\* decayFor is a recursion over the days; a table of it exists, of integers.
DecayTable(score, d, f) == f = [n \in 0..d |-> IF n = 0 THEN score ELSE decay(f[n - 1])]
\* By induction on the days.
LEMMA DecayTableExists == ASSUME NEW score \in Int, NEW d \in Nat PROVE \E f : DecayTable(score, d, f)
  <1> DEFINE P(m, f) == f \in [0..m -> Int] /\ \A n \in 0..m : f[n] = IF n = 0 THEN score ELSE decay(f[n - 1])
             T == {m \in Nat : \E f \in [0..m -> Int] : P(m, f)}
  <1>1. 0 \in T
    <2> DEFINE f == [n \in 0..0 |-> score]
    <2>1. P(0, f) /\ f \in [0..0 -> Int]
      OBVIOUS
    <2> HIDE DEF f
    <2> QED BY <2>1
  <1>2. ASSUME NEW m \in Nat, m \in T PROVE m + 1 \in T
    <2>1. PICK f \in [0..m -> Int] : P(m, f)
      BY <1>2
    <2> DEFINE h == [n \in 0..(m + 1) |-> IF n = 0 THEN score ELSE decay(f[n - 1])]
    <2>2. \A n \in 0..(m + 1) : n # 0 => n - 1 \in 0..m
      OBVIOUS
    <2>3. \A n \in 0..(m + 1) : n # 0 => decay(f[n - 1]) \in Int
      BY <2>2, DecayInt
    <2>4. h \in [0..(m + 1) -> Int] /\ \A n \in 0..(m + 1) : h[n] = IF n = 0 THEN score ELSE decay(f[n - 1])
      BY <2>3
    <2> HIDE DEF h
    <2>5. ASSUME NEW n \in 0..m PROVE h[n] = f[n]
      <3>1. n \in 0..(m + 1)
        OBVIOUS
      <3> QED BY <2>1, <2>4, <3>1
    <2>6. \A n \in 0..(m + 1) : h[n] = IF n = 0 THEN score ELSE decay(h[n - 1])
      BY <2>2, <2>4, <2>5
    <2>7. m + 1 \in Nat /\ h \in [0..(m + 1) -> Int] /\ P(m + 1, h)
      BY <2>4, <2>6
    <2> HIDE DEF P
    <2> QED BY <2>7
  <1> HIDE DEF T
  <1>3. d \in T
    BY <1>1, <1>2, NatInduct
  <1>4. PICK f \in [0..d -> Int] : P(d, f)
    BY <1>3 DEF T
  <1>5. f = [n \in 0..d |-> IF n = 0 THEN score ELSE decay(f[n - 1])]
    BY <1>4
  <1> QED BY <1>5 DEF DecayTable

\* What decayFor gives is an integer, and on the day of the last decay the score itself.
LEMMA DecayForGives == ASSUME NEW score \in Int, NEW d \in Nat PROVE decayFor(score, d) \in Int /\ (d = 0 => decayFor(score, d) = score)
  <1> DEFINE after == CHOOSE f : DecayTable(score, d, f)
  <1>1. decayFor(score, d) = after[d]
    BY DEF decayFor, DecayTable
  <1>2. DecayTable(score, d, after)
    BY DecayTableExists
  <1> HIDE DEF after
  <1>3. \A n \in 0..d : after[n] = IF n = 0 THEN score ELSE decay(after[n - 1])
    BY <1>2 DEF DecayTable
  <1> DEFINE T == {m \in Nat : m <= d => after[m] \in Int}
  <1>4. 0 \in T
    BY <1>3
  <1>5. ASSUME NEW m \in Nat, m \in T PROVE m + 1 \in T
    <2> SUFFICES ASSUME m + 1 <= d PROVE after[m + 1] \in Int
      OBVIOUS
    <2>1. after[m] \in Int /\ m + 1 \in 0..d /\ m + 1 # 0 /\ (m + 1) - 1 = m
      BY <1>5
    <2>2. after[m + 1] = decay(after[m])
      BY <1>3, <2>1
    <2> QED BY <2>1, <2>2, DecayInt
  <1> HIDE DEF T
  <1>6. d \in T
    BY <1>4, <1>5, NatInduct
  <1>7. after[d] \in Int
    BY <1>6 DEF T
  <1>8. d = 0 => after[d] = score
    BY <1>3
  <1> QED BY <1>1, <1>7, <1>8

\* The shared rows lose score by the days since their last decay: none on the day itself.
LEMMA DecaySharedKeeps == ASSUME LearnInv, NEW c \in Learners, DecayShared(c) PROVE LearnInv' /\ Ageing(lessons, lessons', today)
  <1> DEFINE R == ActiveIn(lessons, "shared")
             l == [learner[c] EXCEPT !.at = "prune"]
             g == [i \in R |-> DecayByTime(lessons[i])]
  <1>1. lessons' = [i \in 1..Len(lessons) |-> IF i \in Shared THEN DecayByTime(lessons[i]) ELSE lessons[i]]
    BY DEF DecayShared, Update, LessonRows
  <1>2. LearnerBecomes(c, l) /\ learner[c].at = "next" /\ learner[c].proven = {} /\ UNCHANGED <<recorder, today, crossed>>
    BY DEF DecayShared, LearnerGoes, OnlyRows
  <1>3. learner[c] \in LearnerRow /\ Placed(c, learner[c], lessons, crossed) /\ lessons \in Sheet /\ Shared = R
        /\ \A i \in 1..Len(lessons) : lessons[i] \in LessonRow /\ lessons[i].score \in Int
    BY LearnerGiven
  <1>4. l \in LearnerRow /\ l.at = "prune" /\ l.proven = {}
    BY <1>2, <1>3, Going DEF LearnPoints
  <1>5. Placed(c, l, lessons, crossed)
    BY <1>4 DEF Placed, Early
  <1>6. today \in Nat
    BY DEF LearnInv, LearnTyped
  <1>7. ASSUME NEW i \in 1..Len(lessons)
        PROVE  DecayByTime(lessons[i]) \in LessonRow /\ DecayByTime(lessons[i]).owner = lessons[i].owner /\ DecayByTime(lessons[i]).text = lessons[i].text
               /\ DecayByTime(lessons[i]).active = lessons[i].active /\ DecayByTime(lessons[i]).decayed = today
               /\ (~(lessons[i].decayed < today) => DecayByTime(lessons[i]).score = lessons[i].score)
    <2>1. lessons[i] \in LessonRow /\ lessons[i].score \in Int /\ lessons[i].decayed \in Nat /\ lessons[i].decayed <= today
      BY <1>3 DEF LessonRow, LearnInv, DatedBy
    <2> DEFINE days == today - lessons[i].decayed
               v == decayFor(lessons[i].score, days)
    <2>2. days \in Nat /\ (~(lessons[i].decayed < today) => days = 0)
      BY <1>6, <2>1
    <2> HIDE DEF days
    <2>3. v \in Int /\ (days = 0 => v = lessons[i].score)
      BY <2>1, <2>2, DecayForGives
    <2>4. DecayByTime(lessons[i]) = [lessons[i] EXCEPT !.score = v, !.decayed = today]
      BY DEF DecayByTime, days
    <2> HIDE DEF v
    <2> QED BY <1>6, <2>1, <2>2, <2>3, <2>4 DEF LessonRow
  <1> HIDE DEF l
  <1>8. lessons' = Replaced(lessons, R, g) /\ \A i \in R : g[i] = DecayByTime(lessons[i])
    BY <1>1, <1>3 DEF Replaced
  <1> HIDE DEF g
  <1>9. \A i \in 1..Len(lessons) : i \in R => g[i] \in LessonRow
    BY <1>7, <1>8
  <1>10. lessons' \in Sheet /\ Len(lessons') = Len(lessons) /\ \A i \in 1..Len(lessons) : lessons'[i] = IF i \in R THEN g[i] ELSE lessons[i]
    BY <1>3, <1>8, <1>9, ReplacedSheet
  <1>11. \A i \in 1..Len(lessons) : lessons'[i] = IF i \in R THEN DecayByTime(lessons[i]) ELSE lessons[i]
    BY <1>8, <1>10
  <1>12. ASSUME NEW i \in 1..Len(lessons)
         PROVE  lessons'[i].owner = lessons[i].owner /\ lessons'[i].text = lessons[i].text /\ lessons'[i].active = lessons[i].active
                /\ lessons'[i].decayed <= today
    BY <1>6, <1>7, <1>11 DEF LearnInv, DatedBy
  <1>13. Rescored(lessons, lessons') /\ DatedBy(lessons', today)
    BY <1>3, <1>10, <1>12 DEF Rescored, DatedBy
  <1>14. \A i \in 1..Len(lessons) : ~lessons[i].active => lessons'[i].score = lessons[i].score \/ crossed
    BY <1>11 DEF ActiveIn
  <1>15. LearnInv'
    BY <1>2, <1>4, <1>5, <1>13, <1>14, RescoredStep
  <1>16. ASSUME NEW i \in R, lessons'[i].score < lessons[i].score PROVE lessons[i].decayed < today
    <2>1. i \in 1..Len(lessons) /\ lessons[i].score \in Int
      BY <1>3 DEF ActiveIn, OfIn
    <2>2. lessons'[i] = DecayByTime(lessons[i])
      BY <1>11, <2>1
    <2> QED BY <1>7, <1>16, <2>1, <2>2
  <1> QED BY <1>15, <1>16 DEF Ageing

----------------------------------------------------------------------------
\* Row k, an active one of company c, becomes shared: z after s.
GivenToAll(s, z, k, c, d) ==
  /\ s \in Sheet /\ z \in Sheet /\ Len(z) = Len(s) /\ c \in Learners /\ k \in ActiveIn(s, c)
  /\ \A i \in 1..Len(s) : i # k => z[i] = s[i]
  /\ z[k].owner = "shared" /\ z[k].text = s[k].text /\ z[k].score = s[k].score /\ z[k].active /\ z[k].decayed = d

\* What giving a row to the shared sheet gives.
LEMMA MovedRows ==
  ASSUME NEW s \in Sheet, NEW c \in Learners, NEW k \in ActiveIn(s, c), NEW d \in Nat
  PROVE  GivenToAll(s, [i \in 1..Len(s) |-> IF i \in {k} THEN [s[i] EXCEPT !.owner = "shared", !.decayed = d] ELSE s[i]], k, c, d)
  <1> DEFINE New(r) == [r EXCEPT !.owner = "shared", !.decayed = d]
             g == [i \in {k} |-> New(s[i])]
             z == Replaced(s, {k}, g)
  <1>1. k \in 1..Len(s) /\ s[k] \in LessonRow /\ s[k].active
    <2>1. k \in 1..Len(s) /\ s[k].active
      BY DEF ActiveIn, OfIn
    <2> QED BY <2>1, RowOf
  <1>2. New(s[k]) \in LessonRow /\ New(s[k]).owner = "shared" /\ New(s[k]).text = s[k].text /\ New(s[k]).score = s[k].score
        /\ New(s[k]).active = s[k].active /\ New(s[k]).decayed = d
    BY <1>1 DEF LessonRow
  <1>3. [i \in 1..Len(s) |-> IF i \in {k} THEN [s[i] EXCEPT !.owner = "shared", !.decayed = d] ELSE s[i]] = z
    BY DEF Replaced
  <1> HIDE DEF New
  <1>4. g[k] = New(s[k])
    OBVIOUS
  <1> HIDE DEF g
  <1>5. \A i \in 1..Len(s) : i \in {k} => g[i] \in LessonRow
    BY <1>2, <1>4
  <1>6. z \in Sheet /\ Len(z) = Len(s) /\ \A i \in 1..Len(s) : z[i] = IF i \in {k} THEN g[i] ELSE s[i]
    BY <1>5, ReplacedSheet
  <1> HIDE DEF z
  <1>7. z[k] = New(s[k]) /\ \A i \in 1..Len(s) : i # k => z[i] = s[i]
    BY <1>1, <1>4, <1>6
  <1>8. GivenToAll(s, z, k, c, d)
    BY <1>1, <1>2, <1>6, <1>7 DEF GivenToAll
  <1> QED BY <1>3, <1>8

\* The company loses the row, the shared sheet has one more.
LEMMA MovedOf ==
  ASSUME NEW s, NEW z, NEW k, NEW c, NEW d, GivenToAll(s, z, k, c, d)
  PROVE  /\ OfIn(z, "shared") = OfIn(s, "shared") \cup {k} /\ ActiveIn(z, "shared") = ActiveIn(s, "shared") \cup {k}
         /\ \A o \in Learners : OfIn(z, o) = OfIn(s, o) \ {k} /\ ActiveIn(z, o) = ActiveIn(s, o) \ {k}
         /\ \A o \in Learners : o # c => k \notin OfIn(s, o)
         /\ k \notin OfIn(s, "shared") /\ k \in OfIn(s, c) /\ k \in 1..Len(s)
  <1>0. "shared" \notin Learners /\ k \in 1..Len(s) /\ s[k].owner = c /\ s[k].active /\ z[k].owner = "shared" /\ z[k].active /\ c \in Learners
    BY LessonsAssumption DEF GivenToAll, ActiveIn, OfIn
  <1>1. ASSUME NEW i PROVE i \in OfIn(z, "shared") <=> i \in OfIn(s, "shared") \/ i = k
    BY <1>0 DEF OfIn, GivenToAll
  <1>2. ASSUME NEW i PROVE i \in ActiveIn(z, "shared") <=> i \in ActiveIn(s, "shared") \/ i = k
    <2>1. CASE i = k
      BY <1>0, <1>1, <2>1 DEF ActiveIn
    <2>2. CASE i # k
      BY <1>1, <2>2 DEF ActiveIn, GivenToAll, OfIn
    <2> QED BY <2>1, <2>2
  <1>3. ASSUME NEW o \in Learners, NEW i PROVE (i \in OfIn(z, o) <=> i \in OfIn(s, o) /\ i # k) /\ (i \in ActiveIn(z, o) <=> i \in ActiveIn(s, o) /\ i # k)
    <2>1. i \in OfIn(z, o) <=> i \in OfIn(s, o) /\ i # k
      BY <1>0 DEF OfIn, GivenToAll
    <2>2. i # k /\ i \in OfIn(s, o) => z[i] = s[i]
      BY DEF GivenToAll, OfIn
    <2> QED BY <2>1, <2>2 DEF ActiveIn
  <1>4. \A o \in Learners : OfIn(z, o) = OfIn(s, o) \ {k} /\ ActiveIn(z, o) = ActiveIn(s, o) \ {k}
    BY <1>3
  <1>5. OfIn(z, "shared") = OfIn(s, "shared") \cup {k} /\ ActiveIn(z, "shared") = ActiveIn(s, "shared") \cup {k}
    BY <1>1, <1>2
  <1>6. (\A o \in Learners : o # c => k \notin OfIn(s, o)) /\ k \notin OfIn(s, "shared") /\ k \in OfIn(s, c)
    BY <1>0 DEF OfIn
  <1> QED BY <1>0, <1>4, <1>5, <1>6

\* A row moved to a shared sheet without its text leaves every lesson there once.
LEMMA MovedSheet ==
  ASSUME NEW s, NEW z, NEW k, NEW c, NEW d, GivenToAll(s, z, k, c, d), NEW x, NEW y, x => y, Distinctly(s, x), FadedOnly(s, x),
         y \/ UnsharedIn(s, s[k].text)
  PROVE  Distinctly(z, y) /\ FadedOnly(z, y)
  <1>0. \A o : \A i \in OfIn(s, o) : z[i].text = s[i].text
    BY DEF OfIn, GivenToAll
  <1>1. Distinctly(z, y)
    <2> SUFFICES ASSUME ~y PROVE SharedOnceIn(z) /\ \A o \in Learners : OnceIn(z, o)
      BY DEF Distinctly
    <2>1. SharedOnceIn(s) /\ (\A o \in Learners : OnceIn(s, o)) /\ UnsharedIn(s, s[k].text)
      BY DEF Distinctly
    <2>2. \A i \in ActiveIn(s, "shared") : z[i].text = s[i].text
      BY <1>0 DEF ActiveIn
    <2>3. ActiveIn(z, "shared") = ActiveIn(s, "shared") \cup {k} /\ z[k].text = s[k].text
      BY MovedOf DEF GivenToAll
    <2>4. \A i \in ActiveIn(s, "shared") : z[i].text # z[k].text
      BY <2>1, <2>2, <2>3 DEF UnsharedIn
    <2>5. \A i, j \in ActiveIn(s, "shared") : i # j => z[i].text # z[j].text
      BY <2>1, <2>2 DEF SharedOnceIn
    <2>6. SharedOnceIn(z)
      BY <2>3, <2>4, <2>5 DEF SharedOnceIn
    <2>7. ASSUME NEW o \in Learners PROVE OnceIn(z, o)
      <3>1. OfIn(z, o) \subseteq OfIn(s, o) /\ OnceIn(s, o)
        BY <2>1, MovedOf
      <3> QED BY <1>0, <3>1 DEF OnceIn
    <2> QED BY <2>6, <2>7
  <1>2. ASSUME NEW i \in 1..Len(z), ~z[i].active PROVE z[i].score < Floor \/ y \/ LivesOn(z, i)
    <2>1. i \in 1..Len(s) /\ i # k /\ z[i] = s[i]
      BY <1>2 DEF GivenToAll
    <2>2. s[i].score < Floor \/ x \/ LivesOn(s, i)
      BY <1>2, <2>1 DEF FadedOnly
    <2>3. ASSUME LivesOn(s, i) PROVE LivesOn(z, i)
      <3>1. PICK j \in OfIn(s, "shared") : s[j].text = s[i].text
        BY <2>3 DEF LivesOn
      <3>2. j \in OfIn(z, "shared") /\ z[j].text = s[j].text
        BY <1>0, <3>1, MovedOf
      <3> QED BY <2>1, <2>3, <3>1, <3>2 DEF LivesOn
    <2> QED BY <2>1, <2>2, <2>3
  <1> QED BY <1>1, <1>2 DEF FadedOnly

\* Another learner keeps its place, unless it had looked up the very text.
LEMMA MovedPlaced ==
  ASSUME NEW s, NEW z, NEW k, NEW c, NEW d, GivenToAll(s, z, k, c, d), NEW x, NEW y, x => y, NEW e \in Learners, e # c, NEW r, Placed(e, r, s, x),
         r.at = "promote" /\ s[r.row].text = s[k].text => y
  PROVE  Placed(e, r, z, y)
  <1>1. OfIn(z, e) = OfIn(s, e) /\ ActiveIn(z, e) = ActiveIn(s, e)
    <2>1. e \in Learners /\ k \notin OfIn(s, e) /\ OfIn(z, e) = OfIn(s, e) \ {k} /\ ActiveIn(z, e) = ActiveIn(s, e) \ {k}
      BY MovedOf
    <2> QED BY <2>1 DEF ActiveIn
  <1>2. \A o : \A i \in OfIn(s, o) : z[i].text = s[i].text
    BY DEF OfIn, GivenToAll
  <1>3. \A t : UnknownIn(s, e, t) => UnknownIn(z, e, t)
    BY <1>1, <1>2 DEF UnknownIn
  <1>4. r.at = "insert" => r.text \in Texts /\ (y \/ UnknownIn(z, e, r.text))
    BY <1>3 DEF Placed
  <1>5. r.at \in {"promote", "merge"} => z[r.row].text = s[r.row].text /\ r.row \in OfIn(s, e)
    BY <1>2 DEF Placed, ActiveIn
  <1>6. ASSUME NEW t, UnsharedIn(s, t), t # s[k].text PROVE UnsharedIn(z, t)
    <2>1. \A i \in ActiveIn(z, "shared") : i \in ActiveIn(s, "shared") \/ i = k
      BY MovedOf
    <2>2. \A i \in ActiveIn(s, "shared") : z[i].text = s[i].text
      BY <1>2 DEF ActiveIn
    <2>3. z[k].text = s[k].text
      BY DEF GivenToAll
    <2> QED BY <1>6, <2>1, <2>2, <2>3 DEF UnsharedIn
  <1>7. r.at = "promote" => y \/ UnsharedIn(z, z[r.row].text)
    BY <1>5, <1>6 DEF Placed
  <1>8. r.at \in {"merge", "reward"} => r.dup \in OfIn(z, "shared") /\ z[r.dup].text = s[r.dup].text /\ (y \/ z[r.dup].active)
    <2> SUFFICES ASSUME r.at \in {"merge", "reward"} PROVE r.dup \in OfIn(z, "shared") /\ z[r.dup].text = s[r.dup].text /\ (y \/ z[r.dup].active)
      OBVIOUS
    <2>1. r.dup \in OfIn(s, "shared") /\ (x \/ s[r.dup].active)
      BY DEF Placed
    <2>2. r.dup # k /\ r.dup \in 1..Len(s) /\ r.dup \in OfIn(z, "shared")
      BY <2>1, MovedOf DEF OfIn
    <2>3. z[r.dup] = s[r.dup]
      BY <2>2 DEF GivenToAll
    <2> QED BY <2>1, <2>2, <2>3
  <1> QED BY <1>1, <1>4, <1>5, <1>7, <1>8 DEF Placed

\* A candidate goes to the shared sheet, dated today; a sibling that had looked its text up has been crossed.
LEMMA PromoteInPlaceKeeps == ASSUME LearnInv, NEW c \in Learners, PromoteInPlace(c) PROVE LearnInv' /\ Ageing(lessons, lessons', today)
  <1> DEFINE k == learner[c].row
             l == [learner[c] EXCEPT !.at = "next", !.row = NoRow, !.dup = NoRow]
  <1>1. lessons' = [i \in 1..Len(lessons) |-> IF i \in {k} THEN [lessons[i] EXCEPT !.owner = "shared", !.decayed = today] ELSE lessons[i]]
    BY DEF PromoteInPlace, Update, LessonRows
  <1>2. LearnerBecomes(c, l) /\ learner[c].at = "promote" /\ recorder' = recorder /\ today' = today
        /\ crossed' = (crossed \/ SiblingLookedUp(c, lessons[k].text))
    BY DEF PromoteInPlace, Promoted, OnlyRows
  <1>3. learner \in [Learners -> LearnerRow] /\ learner[c] \in LearnerRow /\ Placed(c, learner[c], lessons, crossed) /\ lessons \in Sheet
        /\ today \in Nat /\ crossed \in BOOLEAN /\ \A i \in 1..Len(lessons) : lessons[i].score \in Int
    BY LearnerGiven DEF LearnInv, LearnTyped
  <1>4. l \in LearnerRow /\ l.at = "next" /\ l.proven = learner[c].proven
    BY <1>3 DEF LearnerRow, LearnPoints, NoRow
  <1>5. k \in ActiveIn(lessons, c) /\ k \notin l.proven /\ l.proven \subseteq ActiveIn(lessons, c) /\ (crossed \/ UnsharedIn(lessons, lessons[k].text))
    BY <1>2, <1>3, <1>4 DEF Placed
  <1> HIDE DEF l, k
  <1>6. GivenToAll(lessons, lessons', k, c, today)
    BY <1>1, <1>3, <1>5, MovedRows
  <1>7. crossed' \in BOOLEAN /\ (crossed => crossed')
    BY <1>2, <1>3
  <1>8. Distinctly(lessons', crossed') /\ FadedOnly(lessons', crossed')
    BY <1>5, <1>6, <1>7, MovedSheet DEF LearnInv
  <1>9. DatedBy(lessons', today')
    BY <1>2, <1>3, <1>6 DEF DatedBy, GivenToAll, LearnInv
  <1>10. learner' \in [Learners -> LearnerRow] /\ learner'[c] = l /\ \A d \in Learners : d # c => learner'[d] = learner[d]
    BY <1>2, <1>3, <1>4 DEF LearnerBecomes
  <1>11. LearnTyped'
    BY <1>2, <1>6, <1>7, <1>10 DEF LearnTyped, LearnInv, GivenToAll
  <1>12. Placed(c, learner'[c], lessons', crossed')
    <2>1. ActiveIn(lessons', c) = ActiveIn(lessons, c) \ {k}
      BY <1>6, MovedOf
    <2> QED BY <1>4, <1>5, <1>10, <2>1 DEF Placed, Early
  <1>13. ASSUME NEW d \in Learners, d # c PROVE Placed(d, learner'[d], lessons', crossed')
    <2> DEFINE r == learner[d]
    <2>1. Placed(d, r, lessons, crossed) /\ learner'[d] = r
      BY <1>10, <1>13 DEF LearnInv
    <2>2. r.at = "promote" /\ lessons[r.row].text = lessons[k].text => crossed'
      BY <1>2, <1>13 DEF SiblingLookedUp
    <2> HIDE DEF r
    <2>3. Placed(d, r, lessons', crossed')
      BY <1>6, <1>7, <1>13, <2>1, <2>2, MovedPlaced
    <2> QED BY <2>1, <2>3
  <1>14. ASSUME NEW d \in Learners PROVE Recorder(d, recorder'[d], lessons', crossed')
    <2> DEFINE t == recorder[d]
    <2> SUFFICES ASSUME t # NoText, ~crossed' PROVE UnknownIn(lessons', d, t)
      BY <1>2 DEF Recorder
    <2>1. UnknownIn(lessons, d, t)
      BY <1>7 DEF LearnInv, Recorder
    <2>2. OfIn(lessons', d) \subseteq OfIn(lessons, d)
      BY <1>6, MovedOf
    <2>3. \A i \in OfIn(lessons, d) : lessons'[i].text = lessons[i].text
      BY <1>6 DEF OfIn, GivenToAll
    <2> HIDE DEF t
    <2> QED BY <2>1, <2>2, <2>3 DEF UnknownIn
  <1>15. LearnInv'
    BY <1>8, <1>9, <1>11, <1>12, <1>13, <1>14, LearnInvNext
  <1>16. ASSUME NEW i \in ActiveIn(lessons, "shared") PROVE ~(lessons'[i].score < lessons[i].score)
    <2>1. i \in 1..Len(lessons) /\ i # k
      BY <1>6, MovedOf DEF ActiveIn, OfIn
    <2>2. lessons'[i] = lessons[i] /\ lessons[i].score \in Int
      BY <1>3, <1>6, <2>1 DEF GivenToAll
    <2> QED BY <2>2
  <1> QED BY <1>15, <1>16 DEF Ageing

----------------------------------------------------------------------------
\* No row is touched.
LEMMA NoAgeing == ASSUME LearnInv, lessons' = lessons PROVE Ageing(lessons, lessons', today)
  <1>1. ASSUME NEW i \in ActiveIn(lessons, "shared") PROVE ~(lessons'[i].score < lessons[i].score)
    BY LearnerGiven, RowOf DEF ActiveIn, OfIn, LearnInv, LearnTyped, LessonRow
  <1> QED BY <1>1 DEF Ageing

\* The learning step gives up: its places are forgotten, its writes stay.
LEMMA LearningFailsKeeps == ASSUME LearnInv, NEW c \in Learners, LearningFails(c) PROVE LearnInv' /\ Ageing(lessons, lessons', today)
  <1>1. LearnerBecomes(c, NotLearning) /\ lessons' = lessons /\ recorder' = recorder /\ today' = today
        /\ crossed' = (crossed \/ learner[c].at = "reward")
    BY DEF LearningFails
  <1>2. NotLearning \in LearnerRow /\ Placed(c, NotLearning, lessons', crossed')
    BY NotLearningPlaced
  <1>3. Kept(lessons, lessons') /\ crossed' \in BOOLEAN /\ (crossed => crossed')
    BY <1>1 DEF Kept, LearnInv, LearnTyped
  <1>4. FadedOnly(lessons', crossed') /\ DatedBy(lessons', today)
    BY <1>1, <1>3 DEF LearnInv, FadedOnly
  <1>5. \A i : lessons'[i].active = lessons[i].active
    BY <1>1
  <1>6. LearnInv'
    BY <1>1, <1>2, <1>3, <1>4, <1>5, KeptStep
  <1> QED BY <1>1, <1>6, NoAgeing

\* A day passes.
LEMMA LearnDayKeeps == ASSUME LearnInv, AnotherDay PROVE LearnInv' /\ Ageing(lessons, lessons', today)
  <1>1. today' = today + 1 /\ lessons' = lessons /\ learner' = learner /\ recorder' = recorder /\ crossed' = crossed
    BY DEF AnotherDay
  <1>2. today \in Nat /\ (\A i \in 1..Len(lessons) : lessons[i] \in LessonRow) /\ DatedBy(lessons, today)
    BY RowOf DEF LearnInv, LearnTyped
  <1>3. \A i \in 1..Len(lessons) : lessons[i].decayed \in Nat /\ lessons[i].decayed <= today
    BY <1>2 DEF LessonRow, DatedBy
  <1>4. DatedBy(lessons', today')
    BY <1>1, <1>2, <1>3 DEF DatedBy
  <1>5. LearnTyped'
    BY <1>1, <1>2 DEF LearnInv, LearnTyped
  <1>6. Distinctly(lessons', crossed') /\ FadedOnly(lessons', crossed')
        /\ \A c \in Learners : Placed(c, learner'[c], lessons', crossed') /\ Recorder(c, recorder'[c], lessons', crossed')
    BY <1>1 DEF LearnInv
  <1> QED BY <1>1, <1>4, <1>5, <1>6, LearnInvNext, NoAgeing

\* A step of learning keeps its invariant, and ages no shared row twice a day.
LEMMA LearnStep == ASSUME LearnInv, [LearnNext]_learnVars PROVE LearnInv' /\ Ageing(lessons, lessons', today)
  <1>1. ASSUME NEW c \in Learners, Reinforce(c) PROVE LearnInv' /\ Ageing(lessons, lessons', today)
    BY <1>1, DecayOwnKeeps, BumpOwnKeeps, RetireOwnKeeps DEF Reinforce
  <1>2. ASSUME NEW c \in Learners, Store(c) PROVE LearnInv' /\ Ageing(lessons, lessons', today)
    BY <1>2, DistillKeeps, LookUpNewKeeps, InsertNewKeeps DEF Store
  <1>3. ASSUME NEW c \in Learners, Record(c) PROVE LearnInv' /\ Ageing(lessons, lessons', today)
    BY <1>3, RecordLookUpKeeps, RecordInsertKeeps DEF Record
  <1>4. ASSUME NEW c \in Learners, Promote(c) PROVE LearnInv' /\ Ageing(lessons, lessons', today)
    BY <1>4, ReadProvenKeeps, LookUpSharedKeeps, PromoteInPlaceKeeps, RetireCopyKeeps, RewardSharedKeeps DEF Promote
  <1>5. ASSUME NEW c \in Learners, Maintain(c) PROVE LearnInv' /\ Ageing(lessons, lessons', today)
    BY <1>5, DecaySharedKeeps, RetireSharedKeeps DEF Maintain
  <1>6. ASSUME NEW c \in Learners, LearningFails(c) PROVE LearnInv' /\ Ageing(lessons, lessons', today)
    BY <1>6, LearningFailsKeeps
  <1>7. CASE AnotherDay
    BY <1>7, LearnDayKeeps
  <1>8. CASE UNCHANGED learnVars
    <2>1. lessons' = lessons /\ learner' = learner /\ recorder' = recorder /\ today' = today /\ crossed' = crossed
      BY <1>8 DEF learnVars
    <2>2. LearnTyped' /\ Distinctly(lessons', crossed') /\ FadedOnly(lessons', crossed') /\ DatedBy(lessons', today')
          /\ \A c \in Learners : Placed(c, learner'[c], lessons', crossed') /\ Recorder(c, recorder'[c], lessons', crossed')
      BY <2>1 DEF LearnInv, LearnTyped
    <2> QED BY <2>1, <2>2, LearnInvNext, NoAgeing
  <1> QED BY <1>1, <1>2, <1>3, <1>4, <1>5, <1>6, <1>7, <1>8 DEF LearnNext, Learn

\* A lesson is on a sheet once, leaves the sheets only by fading, and the shared sheet ages with the days, however the companies'
\* heartbeats and workers interleave and fail, unless two wrote after the same lookup (ceo.ts:307-520).
THEOREM LearningStaysKept == Halves => LearningKept
  <1>1. InitHalf => LearnInv
    BY LearnInitInv DEF InitHalf
  <1>2. LearnInv /\ [NextHalf]_All => LearnInv' /\ Ageing(lessons, lessons', today)
    <2> SUFFICES ASSUME LearnInv, [NextHalf]_All PROVE LearnInv' /\ Ageing(lessons, lessons', today)
      OBVIOUS
    <2>1. [LearnNext]_learnVars
      BY DEF NextHalf, All, Planning, Learning, learnVars
    <2> QED BY <2>1, LearnStep
  <1>3. LearnInv /\ [NextHalf]_All => [\A i \in Shared : lessons'[i].score < lessons[i].score => lessons[i].decayed < today]_learnVars
    <2> SUFFICES ASSUME LearnInv, [NextHalf]_All, NEW i \in Shared, lessons'[i].score < lessons[i].score PROVE lessons[i].decayed < today
      OBVIOUS
    <2>1. i \in ActiveIn(lessons, "shared")
      BY DEF Shared, Active, ActiveIn, Of, OfIn, LessonRows
    <2> QED BY <1>2, <2>1 DEF Ageing
  <1>4. LearnInv => LearnedOnce /\ OnlyTheFadedGo
    BY LearnInvGives
  <1>5. LearnInv /\ [NextHalf]_All => LearnInv'
    BY <1>2
  <1> QED BY <1>1, <1>3, <1>4, <1>5, PTL DEF Halves, LearningKept, SharedAgesByDays
=============================================================================
