------------------------ MODULE GatewayAndToolsProofs ------------------------
(***************************************************************************)
(* Proofs about ToolGateway, for every limit, window and number of         *)
(* requests, and about WorkerTools: the sites, for any workers, visitors   *)
(* and files, and the tools the workers share, for any workers and calls.  *)
(* The gateway shares no variable with the others.                         *)
(***************************************************************************)
EXTENDS ToolGateway, WorkerTools, SequenceTheorems, FiniteSetTheorems, FunctionTheorems, TLAPS

----------------------------------------------------------------------------
(* The rate limiter.                                                       *)

LimiterTyped ==
  /\ clock \in Nat /\ serial \in Nat
  /\ hits \in [Actions -> SUBSET Hits] /\ admitted \in [Actions -> SUBSET Hits]
  /\ at \in [Calls -> Points] /\ action \in [Calls -> Actions] /\ hit \in [Calls -> Hits]
  /\ \A a \in Actions : IsFiniteSet(hits[a]) /\ IsFiniteSet(admitted[a])

\* A call that counts has its own hit among the rows, made at this very time.
OwnHitCounted ==
  \A c \in Calls : at[c] = "count" => hit[c] \in hits[action[c]] /\ hit[c].at = clock

\* Nothing is admitted before its time, and no admitted hit that a window can
\* still reach has been pruned.
AdmittedKept ==
  \A a \in Actions : \A h \in admitted[a] :
    /\ h.at <= clock
    /\ h.at > clock - Day => h \in hits[a]

RateInv ==
  /\ LimiterTyped
  /\ OwnHitCounted
  /\ AdmittedKept
  /\ RateBound

\* A larger set of rows counts for more in every window.
LEMMA WithinMonotone ==
  ASSUME NEW S, NEW T, IsFiniteSet(T), NEW len, NEW now,
         Within(S, len, now) \subseteq Within(T, len, now)
  PROVE  /\ Cardinality(Within(S, len, now)) \in Nat
         /\ Cardinality(Within(T, len, now)) \in Nat
         /\ Cardinality(Within(S, len, now)) <= Cardinality(Within(T, len, now))
  <1>1. Within(T, len, now) \subseteq T
    BY DEF Within
  <1>2. IsFiniteSet(Within(T, len, now))
    BY <1>1, FS_Subset
  <1>3. IsFiniteSet(Within(S, len, now))
    BY <1>2, FS_Subset
  <1> QED
    BY <1>2, <1>3, FS_Subset, FS_CardinalityType

LEMMA InitRate == Init => RateInv
  <1> SUFFICES ASSUME Init PROVE RateInv
    OBVIOUS
  <1>1. LimiterTyped
    BY FS_EmptySet, ToolGatewayAssumption DEF Init, LimiterTyped, Hits, NoHit, Points
  <1>2. OwnHitCounted /\ AdmittedKept
    BY DEF Init, OwnHitCounted, AdmittedKept
  <1>3. ASSUME NEW a \in Actions, NEW now \in 0..clock, NEW len
        PROVE  Cardinality(Within(admitted[a], len, now)) = 0
    <2>1. Within(admitted[a], len, now) = {}
      BY DEF Init, Within
    <2> QED
      BY <2>1, FS_EmptySet
  <1>4. RateBound
    BY <1>3, ToolGatewayAssumption DEF RateBound
  <1> QED
    BY <1>1, <1>2, <1>4 DEF RateInv

\* The INSERT and the prune: what is pruned no window reaches any more.
LEMMA RecordHitRate ==
  ASSUME RateInv, NEW c \in Calls, NEW a \in Actions, RecordHit(c, a)
  PROVE  RateInv'
  <1> DEFINE h == [id |-> serial, at |-> clock]
  <1>1. PICK old \in {{}, Prunable(a)} : hits' = [hits EXCEPT ![a] = (@ \ old) \cup {h}]
    BY DEF RecordHit
  <1>2. /\ action' = [action EXCEPT ![c] = a] /\ hit' = [hit EXCEPT ![c] = h]
        /\ serial' = serial + 1 /\ at' = [at EXCEPT ![c] = "count"]
        /\ UNCHANGED <<clock, admitted>>
    BY DEF RecordHit, Goto
  <1>3. h \in Hits /\ h.at = clock
    BY DEF Hits, RateInv, LimiterTyped
  <1>4. \A b \in Actions : \A g \in hits[b] : g.at = clock => g \in hits'[b]
    BY <1>1, ToolGatewayAssumption DEF Prunable, RateInv, LimiterTyped
  <1>5. h \in hits'[a]
    BY <1>1 DEF RateInv, LimiterTyped
  <1>6. LimiterTyped'
    <2>1. hits' \in [Actions -> SUBSET Hits]
      BY <1>1, <1>3 DEF RateInv, LimiterTyped
    <2>2. IsFiniteSet((hits[a] \ old) \cup {h})
      BY FS_Subset, FS_AddElement DEF RateInv, LimiterTyped
    <2>3. \A b \in Actions : IsFiniteSet(hits'[b])
      BY <1>1, <2>2 DEF RateInv, LimiterTyped
    <2> QED
      BY <1>2, <1>3, <2>1, <2>3 DEF RateInv, LimiterTyped, Points
  <1>7. OwnHitCounted'
    <2> SUFFICES ASSUME NEW d \in Calls, at'[d] = "count"
                 PROVE  hit'[d] \in hits'[action'[d]] /\ hit'[d].at = clock'
      BY DEF OwnHitCounted
    <2>1. CASE d = c
      BY <1>2, <1>3, <1>5, <2>1 DEF RateInv, LimiterTyped
    <2>2. CASE d # c
      <3>1. at[d] = "count" /\ hit'[d] = hit[d] /\ action'[d] = action[d]
        BY <1>2, <2>2
      <3> QED
        BY <1>2, <1>4, <3>1 DEF RateInv, LimiterTyped, OwnHitCounted
    <2> QED
      BY <2>1, <2>2
  <1>8. AdmittedKept'
    BY <1>1, <1>2, ToolGatewayAssumption
    DEF Prunable, RateInv, LimiterTyped, AdmittedKept, Hits
  <1>9. RateBound'
    BY <1>2 DEF RateInv, RateBound, Within, InWindow
  <1> QED
    BY <1>6, <1>7, <1>8, <1>9 DEF RateInv

\* The count: with the new call, the admitted ones of the current window are
\* among the rows just counted; earlier windows end before it.
LEMMA AdmitRate ==
  ASSUME RateInv, NEW c \in Calls, Admit(c)
  PROVE  RateInv'
  <1> DEFINE a == action[c]
  <1>1. /\ at[c] = "count" /\ UnderLimits(a)
        /\ admitted' = [admitted EXCEPT ![a] = @ \cup {hit[c]}]
        /\ hit' = [hit EXCEPT ![c] = NoHit] /\ at' = [at EXCEPT ![c] = "paused?"]
        /\ UNCHANGED <<clock, hits, serial, action>>
    BY DEF Admit, Goto
  <1>2. a \in Actions /\ hit[c] \in Hits /\ hit[c] \in hits[a] /\ hit[c].at = clock
    BY <1>1 DEF RateInv, LimiterTyped, OwnHitCounted
  <1>3. LimiterTyped'
    <2>1. NoHit \in Hits
      BY DEF NoHit, Hits
    <2>2. \A b \in Actions : IsFiniteSet(admitted'[b])
      BY <1>1, FS_AddElement DEF RateInv, LimiterTyped
    <2>3. admitted' \in [Actions -> SUBSET Hits]
      BY <1>1, <1>2 DEF RateInv, LimiterTyped
    <2>4. hit' \in [Calls -> Hits]
      BY <1>1, <2>1 DEF RateInv, LimiterTyped
    <2> QED
      BY <1>1, <2>2, <2>3, <2>4 DEF RateInv, LimiterTyped, Points
  <1>4. OwnHitCounted'
    <2>1. ASSUME NEW d \in Calls, at'[d] = "count" PROVE at[d] = "count" /\ hit'[d] = hit[d]
      BY <1>1, <2>1 DEF RateInv, LimiterTyped
    <2> QED
      BY <1>1, <2>1 DEF RateInv, OwnHitCounted
  <1>5. AdmittedKept'
    BY <1>1, <1>2 DEF RateInv, LimiterTyped, AdmittedKept
  <1>6. ASSUME NEW b \in Actions, NEW now \in 0..clock, NEW len \in {Hour, Day}
        PROVE  \/ /\ len = Hour => Cardinality(Within(admitted'[b], len, now)) <= HourLimit
                  /\ len = Day => Cardinality(Within(admitted'[b], len, now)) <= DayLimit
               \/ Cardinality(Within(admitted'[b], len, now))
                    = Cardinality(Within(admitted[b], len, now))
    <2>1. CASE b = a /\ now = clock
      <3>1. Within(admitted'[a], len, clock) \subseteq Within(hits[a], len, clock)
        BY <1>1, <1>2, ToolGatewayAssumption
        DEF Within, InWindow, RateInv, LimiterTyped, AdmittedKept, Hits
      <3>2. Cardinality(Within(admitted'[a], len, clock)) <= Cardinality(Within(hits[a], len, clock))
            /\ Cardinality(Within(admitted'[a], len, clock)) \in Nat
            /\ Cardinality(Within(hits[a], len, clock)) \in Nat
        BY <1>2, <3>1, WithinMonotone DEF RateInv, LimiterTyped
      <3> QED
        BY <1>1, <2>1, <3>2, ToolGatewayAssumption DEF UnderLimits
    <2>2. CASE b # a \/ now # clock
      <3>1. Within(admitted'[b], len, now) = Within(admitted[b], len, now)
        BY <1>1, <1>2, <2>2 DEF Within, RateInv, LimiterTyped
      <3> QED
        BY <3>1
    <2> QED
      BY <2>1, <2>2
  <1>7. RateBound'
    <2> SUFFICES ASSUME NEW b \in Actions, NEW now \in 0..clock
                 PROVE  /\ Cardinality(Within(admitted'[b], Hour, now)) <= HourLimit
                        /\ Cardinality(Within(admitted'[b], Day, now)) <= DayLimit
      BY <1>1 DEF RateBound, Within, InWindow
    <2>1. /\ Cardinality(Within(admitted[b], Hour, now)) <= HourLimit
          /\ Cardinality(Within(admitted[b], Day, now)) <= DayLimit
      BY DEF RateInv, RateBound
    <2> QED
      BY <1>6, <2>1
  <1> QED
    BY <1>3, <1>4, <1>5, <1>7 DEF RateInv

\* The clock: a window that ends now holds no more than the one a tick ago.
LEMMA TickRate ==
  ASSUME RateInv, Tick
  PROVE  RateInv'
  <1>1. /\ \A c \in Calls : at[c] # "count"
        /\ clock' = clock + 1
        /\ UNCHANGED <<hits, admitted, serial, at, action, hit>>
    BY DEF Tick, calls
  <1>2. LimiterTyped'
    BY <1>1 DEF RateInv, LimiterTyped
  <1>3. OwnHitCounted' /\ AdmittedKept'
    BY <1>1, ToolGatewayAssumption DEF RateInv, LimiterTyped, OwnHitCounted, AdmittedKept, Hits
  <1>4. ASSUME NEW a \in Actions, NEW len \in {Hour, Day}
        PROVE  /\ Cardinality(Within(admitted[a], len, clock + 1)) \in Nat
               /\ Cardinality(Within(admitted[a], len, clock)) \in Nat
               /\ Cardinality(Within(admitted[a], len, clock + 1))
                    <= Cardinality(Within(admitted[a], len, clock))
    <2>1. Within(admitted[a], len, clock + 1) \subseteq Within(admitted[a], len, clock)
      BY ToolGatewayAssumption DEF Within, InWindow, RateInv, LimiterTyped, AdmittedKept, Hits
    <2>2. /\ IsFiniteSet(Within(admitted[a], len, clock))
          /\ IsFiniteSet(Within(admitted[a], len, clock + 1))
      BY FS_Subset DEF RateInv, LimiterTyped, Within
    <2> QED
      BY <2>1, <2>2, FS_Subset, FS_CardinalityType
  <1>5. RateBound'
    <2> SUFFICES ASSUME NEW a \in Actions, NEW now \in 0..clock'
                 PROVE  /\ Cardinality(Within(admitted[a], Hour, now)) <= HourLimit
                        /\ Cardinality(Within(admitted[a], Day, now)) <= DayLimit
      BY <1>1 DEF RateBound, Within, InWindow
    <2>1. CASE now \in 0..clock
      BY <2>1 DEF RateInv, RateBound
    <2>2. CASE now = clock + 1
      <3>1. clock \in 0..clock
        BY DEF RateInv, LimiterTyped
      <3> QED
        BY <1>4, <2>2, <3>1, ToolGatewayAssumption DEF RateInv, RateBound
    <2> QED
      BY <1>1, <2>1, <2>2 DEF RateInv, LimiterTyped
  <1> QED
    BY <1>2, <1>3, <1>5 DEF RateInv

\* Every other step leaves rows and clock alone, and brings no call to its count.
LEMMA OtherRate ==
  ASSUME RateInv, UNCHANGED <<limiter, action>>,
         at' \in [Calls -> Points], hit' \in [Calls -> Hits],
         \A c \in Calls : at'[c] = "count" => at[c] = "count" /\ hit'[c] = hit[c]
  PROVE  RateInv'
  <1>1. UNCHANGED <<clock, hits, admitted, serial, action>>
    BY DEF limiter
  <1>2. LimiterTyped' /\ OwnHitCounted' /\ AdmittedKept'
    BY <1>1 DEF RateInv, LimiterTyped, OwnHitCounted, AdmittedKept
  <1>3. RateBound'
    BY <1>1 DEF RateInv, RateBound, Within, InWindow
  <1> QED
    BY <1>2, <1>3 DEF RateInv

LEMMA StepRate == RateInv /\ [Next]_vars => RateInv'
  <1> SUFFICES ASSUME RateInv, [Next]_vars PROVE RateInv'
    OBVIOUS
  <1> DEFINE MovesOn(c) ==
        /\ UNCHANGED <<limiter, action, hit>>
        /\ \E p \in Points \ {"count"} : at' = [at EXCEPT ![c] = p]
  <1>1. ASSUME NEW c \in Calls, MovesOn(c) PROVE RateInv'
    BY <1>1, OtherRate DEF RateInv, LimiterTyped
  <1>2. ASSUME UNCHANGED <<limiter, calls>> PROVE RateInv'
    BY <1>2, OtherRate DEF calls, RateInv, LimiterTyped
  <1>3. ASSUME NEW c \in Calls, ToolCall(c) PROVE RateInv'
    <2>1. ASSUME NEW a \in Actions, RecordHit(c, a) PROVE RateInv'
      BY <2>1, RecordHitRate
    <2>2. CASE Admit(c)
      BY <2>2, AdmitRate
    <2>3. CASE RateLimited(c)
      <3>1. /\ UNCHANGED <<limiter, action>> /\ NoHit \in Hits
            /\ hit' = [hit EXCEPT ![c] = NoHit] /\ at' = [at EXCEPT ![c] = "idle"]
        BY <2>3 DEF RateLimited, Goto, NoHit, Hits
      <3>2. at' \in [Calls -> Points] /\ hit' \in [Calls -> Hits]
        BY <3>1 DEF RateInv, LimiterTyped, Points
      <3>3. \A d \in Calls : at'[d] = "count" => at[d] = "count" /\ hit'[d] = hit[d]
        BY <3>1 DEF RateInv, LimiterTyped
      <3> QED
        BY <3>1, <3>2, <3>3, OtherRate
    <2>4. CASE Refuse(c) \/ NotPaused(c) \/ PassGate(c) \/ HoldAtGate(c) \/ Handler(c)
               \/ ReuseRequest(c) \/ NoOpenRequest(c) \/ RequestApproval(c)
      <3>1. MovesOn(c)
        BY <2>4 DEF Refuse, NotPaused, PassGate, HoldAtGate, Handler, ReuseRequest,
                    NoOpenRequest, RequestApproval, Goto, Points
      <3> QED
        BY <1>1, <3>1
    <2> QED
      BY <1>3, <2>1, <2>2, <2>3, <2>4 DEF ToolCall
  <1>4. ASSUME NEW k \in Clicks, Resolve(k) PROVE RateInv'
    <2>1. UNCHANGED <<limiter, calls>>
      BY <1>4 DEF Resolve, StartResolve, Reject, Unrunnable, Execute, Record
    <2> QED
      BY <1>2, <2>1
  <1>5. CASE Crash
    <2>1. /\ UNCHANGED <<limiter, action>> /\ NoHit \in Hits
          /\ hit' = [c \in Calls |-> NoHit] /\ at' = [c \in Calls |-> "idle"]
      BY <1>5 DEF Crash, NoHit, Hits
    <2> QED
      BY <2>1, OtherRate DEF Points
  <1>6. CASE Tick
    BY <1>6, TickRate
  <1>7. CASE \/ \E i \in Ids : Stale(i)
             \/ Expire \/ Pause \/ Resume
             \/ \E level \in {"supervised", "bounded", "full"} : SetAutonomy(level)
    <2>1. UNCHANGED <<limiter, calls>>
      BY <1>7 DEF Stale, Expire, Pause, Resume, SetAutonomy
    <2> QED
      BY <1>2, <2>1
  <1>8. CASE UNCHANGED vars
    BY <1>2, <1>8 DEF vars
  <1> QED
    BY <1>3, <1>4, <1>5, <1>6, <1>7, <1>8 DEF Next

\* PgRateLimiter: record, then count. However calls interleave, whatever is
\* pruned and whenever, no window admits more calls than its limit.
THEOREM RateHolds == Spec => []RateBound
  <1>1. RateInv => RateBound
    BY DEF RateInv
  <1> QED
    BY InitRate, StepRate, <1>1, PTL DEF Spec

----------------------------------------------------------------------------
(* The pause.                                                              *)

OnTheWay == {c \in Calls : at[c] \in {"gate", "handler"}}

PauseInv ==
  /\ at \in [Calls -> Points]
  /\ sincePause \in Nat
  /\ PauseHalts

LEMMA OnTheWayFinite ==
  /\ IsFiniteSet(OnTheWay) /\ Cardinality(OnTheWay) \in Nat
  /\ Cardinality(OnTheWay) <= Cardinality(Calls) /\ Cardinality(Calls) \in Nat
  <1>1. OnTheWay \subseteq Calls
    BY DEF OnTheWay
  <1> QED
    BY <1>1, ToolGatewayAssumption, FS_Subset, FS_CardinalityType

\* A step that puts nobody on the way to a handler, and runs none.
LEMMA NoMoreOnTheWay ==
  ASSUME PauseInv, at' \in [Calls -> Points], OnTheWay' \subseteq OnTheWay,
         UNCHANGED <<paused, sincePause>>
  PROVE  PauseInv'
  <1>1. Cardinality(OnTheWay') \in Nat /\ Cardinality(OnTheWay') <= Cardinality(OnTheWay)
    BY OnTheWayFinite, FS_Subset, FS_CardinalityType
  <1> QED
    BY <1>1, OnTheWayFinite DEF PauseInv, PauseHalts, OnTheWay

LEMMA StepPause == PauseInv /\ [Next]_vars => PauseInv'
  <1> SUFFICES ASSUME PauseInv, [Next]_vars PROVE PauseInv'
    OBVIOUS
  <1>1. ASSUME UNCHANGED <<at, paused, sincePause>> PROVE PauseInv'
    BY <1>1, NoMoreOnTheWay DEF PauseInv, OnTheWay
  <1>2. ASSUME NEW c \in Calls, ToolCall(c) PROVE PauseInv'
    <2>1. CASE NotPaused(c)
      BY <2>1 DEF NotPaused, Goto, company, PauseInv, PauseHalts, Points
    <2>2. CASE Handler(c)
      <3>1. /\ at[c] = "handler" /\ at' = [at EXCEPT ![c] = "idle"] /\ UNCHANGED paused
            /\ sincePause' = sincePause + (IF paused THEN 1 ELSE 0)
        BY <2>2 DEF Handler, Goto, company
      <3>2. c \in OnTheWay /\ OnTheWay' = OnTheWay \ {c}
        BY <3>1 DEF OnTheWay, PauseInv
      <3>3. Cardinality(OnTheWay') = Cardinality(OnTheWay) - 1
        BY <3>2, OnTheWayFinite, FS_RemoveElement
      <3>4. at' \in [Calls -> Points] /\ sincePause' \in Nat
        BY <3>1 DEF PauseInv, Points
      <3> QED
        BY <3>1, <3>3, <3>4, OnTheWayFinite DEF PauseInv, PauseHalts, OnTheWay
    <2>3. CASE \/ \E a \in Actions : RecordHit(c, a)
               \/ Admit(c) \/ RateLimited(c) \/ Refuse(c) \/ PassGate(c) \/ HoldAtGate(c)
               \/ ReuseRequest(c) \/ NoOpenRequest(c) \/ RequestApproval(c)
      <3>1. UNCHANGED <<paused, sincePause>>
        BY <2>3 DEF RecordHit, Admit, RateLimited, Refuse, PassGate, HoldAtGate, ReuseRequest,
                    NoOpenRequest, RequestApproval, company
      <3>2. \E p \in Points : /\ at' = [at EXCEPT ![c] = p]
                              /\ p \in {"gate", "handler"} => at[c] = "gate"
        BY <2>3 DEF RecordHit, Admit, RateLimited, Refuse, PassGate, HoldAtGate, ReuseRequest,
                    NoOpenRequest, RequestApproval, Goto, Points
      <3>3. at' \in [Calls -> Points] /\ OnTheWay' \subseteq OnTheWay
        BY <3>2 DEF PauseInv, OnTheWay
      <3> QED
        BY <3>1, <3>3, NoMoreOnTheWay
    <2> QED
      BY <1>2, <2>1, <2>2, <2>3 DEF ToolCall
  <1>3. ASSUME NEW k \in Clicks, Resolve(k) PROVE PauseInv'
    BY <1>1, <1>3 DEF Resolve, StartResolve, Reject, Unrunnable, Execute, Record, company, calls
  <1>4. CASE Crash
    <2>1. /\ at' = [c \in Calls |-> "idle"] /\ UNCHANGED <<paused, sincePause>>
      BY <1>4 DEF Crash, company
    <2> QED
      BY <2>1, NoMoreOnTheWay DEF OnTheWay, Points
  <1>5. CASE Pause
    <2>1. sincePause' = 0 /\ UNCHANGED at
      BY <1>5 DEF Pause, calls
    <2> QED
      BY <2>1, OnTheWayFinite DEF PauseInv, PauseHalts, OnTheWay
  <1>6. CASE Resume
    BY <1>6 DEF Resume, calls, PauseInv, PauseHalts
  <1>7. CASE \/ \E i \in Ids : Stale(i)
             \/ Expire \/ Tick
             \/ \E level \in {"supervised", "bounded", "full"} : SetAutonomy(level)
    BY <1>1, <1>7 DEF Stale, Expire, Tick, SetAutonomy, company, calls
  <1>8. CASE UNCHANGED vars
    BY <1>1, <1>8 DEF vars, company, calls
  <1> QED
    BY <1>2, <1>3, <1>4, <1>5, <1>6, <1>7, <1>8 DEF Next

\* The gateway's pause check: after a pause, each open call runs at most one
\* handler more, however many calls are open and whatever they do next.
THEOREM PauseHolds == Spec => []PauseHalts
  <1>1. Init => PauseInv
    BY DEF Init, PauseInv, PauseHalts, Points
  <1>2. PauseInv => PauseHalts
    BY DEF PauseInv
  <1> QED
    BY <1>1, <1>2, StepPause, PTL DEF Spec

----------------------------------------------------------------------------
(* The approvals: type correctness first. The limiter's variables and the   *)
(* handler count are typed by the two invariants above.                     *)

ParkedTyped ==
  /\ row \in [Ids -> [action : Actions, status : {"none", "pending", "approved", "rejected"},
                      stale : BOOLEAN]]
  /\ click \in [Clicks -> [at : {"idle", "approve", "record", "reject"}, id : 0..MaxRows]]
  /\ executed \in [Ids -> Nat] /\ cut \in [Ids -> Nat]
CompanyTyped ==
  paused \in BOOLEAN /\ autonomy \in {"supervised", "bounded", "full"} /\ faults \in Nat

GatewayTyped == RateInv /\ PauseInv /\ ParkedTyped /\ CompanyTyped

LEMMA NoClickTyped == NoClick \in [at : {"idle", "approve", "record", "reject"}, id : 0..MaxRows]
  BY ToolGatewayAssumption DEF NoClick

LEMMA CompanyTypedStep ==
  ASSUME CompanyTyped, [Next]_vars
  PROVE  CompanyTyped'
  <1>1. ASSUME NEW c \in Calls, ToolCall(c) PROVE UNCHANGED <<paused, autonomy, faults>>
    BY <1>1 DEF ToolCall, RecordHit, Admit, RateLimited, Refuse, NotPaused, PassGate, HoldAtGate, Handler,
                ReuseRequest, NoOpenRequest, RequestApproval, company
  <1>2. ASSUME NEW k \in Clicks, Resolve(k) PROVE UNCHANGED <<paused, autonomy, faults>>
    BY <1>2 DEF Resolve, StartResolve, Reject, Unrunnable, Execute, Record, company
  <1>3. CASE Crash
    BY <1>3 DEF Crash, company, CompanyTyped
  <1>4. CASE Pause \/ Resume
    BY <1>4 DEF Pause, Resume, CompanyTyped
  <1>5. CASE \E level \in {"supervised", "bounded", "full"} : SetAutonomy(level)
    BY <1>5 DEF SetAutonomy, CompanyTyped
  <1>6. CASE (\E i \in Ids : Stale(i)) \/ Expire \/ Tick \/ UNCHANGED vars
    BY <1>6 DEF Stale, Expire, Tick, vars, company, CompanyTyped
  <1> QED
    BY <1>1, <1>2, <1>3, <1>4, <1>5, <1>6 DEF Next, CompanyTyped

LEMMA ParkedTypedStep ==
  ASSUME ParkedTyped, RateInv, [Next]_vars
  PROVE  ParkedTyped'
  <1>1. ASSUME NEW c \in Calls, ToolCall(c) PROVE ParkedTyped'
    <2>1. CASE RequestApproval(c)
      <3>1. PICK i \in Ids : row' = [row EXCEPT ![i] = [action |-> action[c], status |-> "pending", stale |-> FALSE]]
        BY <2>1 DEF RequestApproval
      <3>2. action[c] \in Actions
        BY DEF RateInv, LimiterTyped
      <3> QED
        BY <2>1, <3>1, <3>2 DEF RequestApproval, ParkedTyped
    <2>2. CASE UNCHANGED parked
      BY <2>2 DEF parked, ParkedTyped
    <2> QED
      BY <1>1, <2>1, <2>2
      DEF ToolCall, RecordHit, Admit, RateLimited, Refuse, NotPaused, PassGate, HoldAtGate, Handler,
          ReuseRequest, NoOpenRequest
  <1>2. ASSUME NEW k \in Clicks, Resolve(k) PROVE ParkedTyped'
    <2>1. ASSUME NEW i \in Ids, NEW d \in {"approve", "reject"}, StartResolve(k, i, d) PROVE ParkedTyped'
      <3>1. i \in 0..MaxRows
        BY ToolGatewayAssumption DEF Ids
      <3> QED
        BY <2>1, <3>1 DEF StartResolve, ParkedTyped
    <2>2. ASSUME NEW s \in {"approved", "rejected"}, Resolved(click[k].id, s), Answered(k), UNCHANGED <<executed, cut>>
          PROVE  ParkedTyped'
      BY <2>2, NoClickTyped DEF Resolved, Answered, ParkedTyped
    <2>3. CASE Reject(k) \/ Unrunnable(k) \/ Record(k)
      BY <2>2, <2>3 DEF Reject, Unrunnable, Record
    <2>4. CASE Execute(k)
      <3>1. click' \in [Clicks -> [at : {"idle", "approve", "record", "reject"}, id : 0..MaxRows]]
        BY <2>4 DEF Execute, ParkedTyped
      <3>2. executed' \in [Ids -> Nat]
        <4>1. executed' = [executed EXCEPT ![click[k].id] = executed[click[k].id] + 1]
          BY <2>4 DEF Execute
        <4>2. executed \in [Ids -> Nat]
          BY DEF ParkedTyped
        <4>3. CASE click[k].id \in Ids
          <5>1. executed[click[k].id] + 1 \in Nat
            BY <4>2, <4>3
          <5> QED
            BY <4>1, <4>2, <5>1
        <4>4. CASE click[k].id \notin Ids
          BY <4>1, <4>2, <4>4
        <4> QED
          BY <4>3, <4>4
      <3> QED
        BY <2>4, <3>1, <3>2 DEF Execute, ParkedTyped
    <2> QED
      BY <1>2, <2>1, <2>3, <2>4 DEF Resolve
  <1>3. CASE Crash
    BY <1>3, NoClickTyped DEF Crash, ParkedTyped
  <1>4. ASSUME NEW i \in Ids, Stale(i) PROVE ParkedTyped'
    BY <1>4 DEF Stale, ParkedTyped
  <1>5. CASE Expire
    BY <1>5 DEF Expire, ParkedTyped
  <1>6. CASE \/ Tick \/ Pause \/ Resume \/ UNCHANGED vars
             \/ \E level \in {"supervised", "bounded", "full"} : SetAutonomy(level)
    BY <1>6 DEF Tick, Pause, Resume, SetAutonomy, vars, parked, ParkedTyped
  <1> QED
    BY <1>1, <1>2, <1>3, <1>4, <1>5, <1>6 DEF Next

LEMMA GatewayTypedInit == Init => GatewayTyped
  <1> SUFFICES ASSUME Init PROVE GatewayTyped
    OBVIOUS
  <1>1. (CHOOSE a \in Actions : TRUE) \in Actions
    BY ToolGatewayAssumption
  <1>2. ParkedTyped
    BY <1>1, NoClickTyped DEF Init, ParkedTyped
  <1>3. PauseInv /\ CompanyTyped
    BY DEF Init, PauseInv, PauseHalts, Points, CompanyTyped
  <1> QED
    BY <1>2, <1>3, InitRate DEF GatewayTyped

LEMMA GatewayTypedStep == GatewayTyped /\ [Next]_vars => GatewayTyped'
  BY StepRate, StepPause, ParkedTypedStep, CompanyTypedStep DEF GatewayTyped

LEMMA Typed == GatewayTyped => TypeOK
  BY DEF GatewayTyped, RateInv, LimiterTyped, PauseInv, ParkedTyped, CompanyTyped, TypeOK

----------------------------------------------------------------------------
(* Requests that raced each other: each was found missing by a call of its own. *)

Inserting(a) == {c \in Calls : at[c] = "insert" /\ action[c] = a}

PendingInv == GatewayTyped /\ PendingBound

LEMMA PendingFinite ==
  ASSUME NEW a
  PROVE  /\ IsFiniteSet(PendingFor(a)) /\ Cardinality(PendingFor(a)) \in Nat
         /\ IsFiniteSet(Inserting(a)) /\ Cardinality(Inserting(a)) \in Nat
         /\ Cardinality(Inserting(a)) <= Cardinality(Calls) /\ Cardinality(Calls) \in Nat
  <1>1. IsFiniteSet(Ids)
    BY ToolGatewayAssumption, FS_Interval DEF Ids
  <1>2. PendingFor(a) \subseteq Ids /\ Inserting(a) \subseteq Calls
    BY DEF PendingFor, Inserting
  <1> QED
    BY <1>1, <1>2, ToolGatewayAssumption, FS_Subset, FS_CardinalityType

LEMMA BoundOf ==
  ASSUME PendingInv, NEW a \in Actions
  PROVE  Cardinality(PendingFor(a)) + Cardinality(Inserting(a)) <= Cardinality(Calls)
  BY DEF PendingInv, PendingBound, Inserting

\* A step that adds neither a request nor a call about to insert one.
LEMMA NoMorePending ==
  ASSUME PendingInv,
         \A a \in Actions : PendingFor(a)' \subseteq PendingFor(a) /\ Inserting(a)' \subseteq Inserting(a)
  PROVE  PendingBound'
  <1>1. ASSUME NEW a \in Actions
        PROVE  Cardinality(PendingFor(a)') + Cardinality(Inserting(a)') <= Cardinality(Calls)
    <2>1. /\ Cardinality(PendingFor(a)') \in Nat /\ Cardinality(PendingFor(a)') <= Cardinality(PendingFor(a))
          /\ Cardinality(Inserting(a)') \in Nat /\ Cardinality(Inserting(a)') <= Cardinality(Inserting(a))
      BY PendingFinite, FS_Subset, FS_CardinalityType
    <2>2. Cardinality(PendingFor(a)) \in Nat /\ Cardinality(Inserting(a)) \in Nat /\ Cardinality(Calls) \in Nat
      BY PendingFinite
    <2>3. Cardinality(PendingFor(a)) + Cardinality(Inserting(a)) <= Cardinality(Calls)
      BY BoundOf
    <2> QED
      BY <2>1, <2>2, <2>3
  <1> QED
    BY <1>1 DEF PendingBound, Inserting

LEMMA StepPending == PendingInv /\ [Next]_vars => PendingInv'
  <1> SUFFICES ASSUME PendingInv, TypeOK, [Next]_vars PROVE PendingInv'
    BY Typed DEF PendingInv
  <1> SUFFICES PendingBound'
    BY GatewayTypedStep DEF PendingInv
  <1>2. ASSUME UNCHANGED <<at, action>>, \A i \in Ids : row'[i] = row[i] \/
                 (row'[i].status # "pending" /\ row'[i].action = row[i].action) \/
                 (row'[i].status = row[i].status /\ row'[i].action = row[i].action)
        PROVE  PendingBound'
    BY <1>2, NoMorePending DEF PendingFor, Inserting
  <1>3. ASSUME NEW c \in Calls, ToolCall(c) PROVE PendingBound'
    <2>1. CASE NoOpenRequest(c)
      <3>1. /\ PendingFor(action[c]) = {} /\ at' = [at EXCEPT ![c] = "insert"] /\ UNCHANGED <<action, row>>
        BY <2>1 DEF NoOpenRequest, Goto, parked
      <3>2. ASSUME NEW a \in Actions
            PROVE  Cardinality(PendingFor(a)') + Cardinality(Inserting(a)') <= Cardinality(Calls)
        <4>1. PendingFor(a)' = PendingFor(a)
          BY <3>1 DEF PendingFor
        <4>2. CASE a = action[c]
          <5>1. Inserting(a)' \subseteq Calls
            BY DEF Inserting
          <5>2. Cardinality(Inserting(a)') \in Nat /\ Cardinality(Inserting(a)') <= Cardinality(Calls)
            BY <5>1, ToolGatewayAssumption, FS_Subset, FS_CardinalityType
          <5>3. Cardinality(PendingFor(a)') = 0
            BY <3>1, <4>1, <4>2, FS_EmptySet
          <5> QED
            BY <5>2, <5>3, PendingFinite
        <4>3. CASE a # action[c]
          <5>1. Inserting(a)' = Inserting(a)
            BY <3>1, <4>3 DEF Inserting, TypeOK
          <5> QED
            BY <4>1, <5>1, BoundOf
        <4> QED
          BY <4>2, <4>3
      <3> QED
        BY <3>2 DEF PendingBound, Inserting
    <2>2. CASE RequestApproval(c)
      <3>1. PICK i \in Ids :
               /\ row[i].status = "none"
               /\ row' = [row EXCEPT ![i] = [action |-> action[c], status |-> "pending", stale |-> FALSE]]
        BY <2>2 DEF RequestApproval, FirstFree
      <3>2. at[c] = "insert" /\ at' = [at EXCEPT ![c] = "idle"] /\ action' = action
        BY <2>2 DEF RequestApproval, Goto
      <3>3. ASSUME NEW a \in Actions
            PROVE  Cardinality(PendingFor(a)') + Cardinality(Inserting(a)') <= Cardinality(Calls)
        <4>1. CASE a = action[c]
          <5>1. PendingFor(a)' = PendingFor(a) \cup {i} /\ i \notin PendingFor(a)
            BY <3>1, <4>1 DEF PendingFor, TypeOK
          <5>2. Inserting(a)' = Inserting(a) \ {c} /\ c \in Inserting(a)
            BY <3>2, <4>1 DEF Inserting, TypeOK
          <5>3. Cardinality(PendingFor(a) \cup {i}) = Cardinality(PendingFor(a)) + 1
            BY <5>1, PendingFinite, FS_AddElement
          <5>4. Cardinality(Inserting(a) \ {c}) = Cardinality(Inserting(a)) - 1
            BY <5>2, PendingFinite, FS_RemoveElement
          <5>5. Cardinality(PendingFor(a)) \in Nat /\ Cardinality(Inserting(a)) \in Nat
            BY PendingFinite
          <5> QED
            BY <5>1, <5>2, <5>3, <5>4, <5>5, BoundOf
        <4>2. CASE a # action[c]
          <5>1. PendingFor(a)' = PendingFor(a) /\ Inserting(a)' = Inserting(a)
            BY <3>1, <3>2, <4>2 DEF PendingFor, Inserting, TypeOK
          <5> QED
            BY <5>1, BoundOf
        <4> QED
          BY <4>1, <4>2
      <3> QED
        BY <3>3 DEF PendingBound, Inserting
    <2>3. ASSUME NEW p \in Points \ {"insert"}, at' = [at EXCEPT ![c] = p], row' = row,
                 \A d \in Calls \ {c} : action'[d] = action[d]
          PROVE  PendingBound'
      BY <2>3, NoMorePending DEF PendingFor, Inserting, TypeOK
    <2>4. CASE \/ \E a \in Actions : RecordHit(c, a)
               \/ Admit(c) \/ RateLimited(c) \/ Refuse(c) \/ NotPaused(c) \/ PassGate(c) \/ HoldAtGate(c)
               \/ Handler(c) \/ ReuseRequest(c)
      <3>1. /\ \E p \in {"idle", "count", "paused?", "gate", "handler", "lookup"} : at' = [at EXCEPT ![c] = p]
            /\ row' = row
        BY <2>4 DEF RecordHit, Admit, RateLimited, Refuse, NotPaused, PassGate, HoldAtGate, Handler,
                    ReuseRequest, Goto, parked
      <3>2. \A d \in Calls \ {c} : action'[d] = action[d]
        BY <2>4 DEF RecordHit, Admit, RateLimited, Refuse, NotPaused, PassGate, HoldAtGate, Handler,
                    ReuseRequest, TypeOK
      <3> QED
        BY <2>3, <3>1, <3>2 DEF Points
    <2> QED
      BY <1>3, <2>1, <2>2, <2>4 DEF ToolCall
  <1>4. ASSUME NEW k \in Clicks, Resolve(k) PROVE PendingBound'
    <2>1. UNCHANGED <<at, action>>
      BY <1>4 DEF Resolve, StartResolve, Reject, Unrunnable, Execute, Record, calls
    <2>2. row' = row \/ \E s \in {"approved", "rejected"} : row' = [row EXCEPT ![click[k].id].status = s]
      BY <1>4 DEF Resolve, StartResolve, Reject, Unrunnable, Execute, Record, Resolved
    <2> QED
      BY <1>2, <2>1, <2>2 DEF TypeOK
  <1>5. CASE Crash
    <2>1. row' = row /\ \A c \in Calls : at'[c] = "idle"
      BY <1>5 DEF Crash
    <2>2. \A a \in Actions : PendingFor(a)' = PendingFor(a) /\ Inserting(a)' = {}
      BY <2>1 DEF PendingFor, Inserting
    <2> QED
      BY <2>2, NoMorePending
  <1>6. CASE (\E i \in Ids : Stale(i)) \/ Expire
    <2>1. UNCHANGED <<at, action>>
      BY <1>6 DEF Stale, Expire, calls
    <2>2. \A i \in Ids : row'[i].action = row[i].action /\ row'[i].status \in {row[i].status, "rejected"}
      BY <1>6 DEF Stale, Expire, TypeOK
    <2> QED
      BY <1>2, <2>1, <2>2
  <1>7. CASE \/ Tick \/ Pause \/ Resume \/ UNCHANGED vars
             \/ \E level \in {"supervised", "bounded", "full"} : SetAutonomy(level)
    <2>1. UNCHANGED <<at, action, row>>
      BY <1>7 DEF Tick, Pause, Resume, SetAutonomy, vars, calls, parked
    <2> QED
      BY <1>2, <2>1
  <1> QED
    BY <1>3, <1>4, <1>5, <1>6, <1>7 DEF Next

\* requestApproval's look before the insert: however many calls race, there are never more open
\* requests for an action than calls that can be open at once.
THEOREM RequestsAreBounded == Spec => []PendingBound
  <1>1. Init => PendingInv
    <2> SUFFICES ASSUME Init PROVE PendingBound
      BY GatewayTypedInit DEF PendingInv
    <2>1. ASSUME NEW a \in Actions PROVE PendingFor(a) = {} /\ Inserting(a) = {}
      BY DEF Init, PendingFor, Inserting
    <2> QED
      BY <2>1, PendingFinite, FS_EmptySet DEF PendingBound, Inserting
  <1>2. PendingInv => PendingBound
    BY DEF PendingInv
  <1> QED
    BY <1>1, <1>2, StepPending, PTL DEF Spec

----------------------------------------------------------------------------
(* Resolution, by one click at a time: approvals that overlap both execute. *)

OneClick == \A j, k \in Clicks : j = k

\* A click that is still to execute or to reject finds nothing unrecorded, one that
\* is to record has executed once more than was recorded.
ClickInv ==
  \A k \in Clicks :
    /\ click[k].at = "idle" => click[k].id = 0
    /\ click[k].at # "idle" => click[k].id \in Ids
    /\ click[k].at \in {"approve", "reject"} => executed[click[k].id] <= cut[click[k].id]
    /\ click[k].at = "record" => executed[click[k].id] <= 1 + cut[click[k].id]

ResolveInv == ParkedTyped /\ ExecutedOnce /\ ExecutedIsApproved /\ ClickInv

\* Steps that resolve nothing: no request becomes pending again, none loses its approval.
LEMMA UnresolvedStep ==
  ASSUME ResolveInv, ParkedTyped', UNCHANGED <<click, executed, cut>>,
         \A i \in Ids : row[i].status = "approved" => row'[i].status = "approved"
  PROVE  ResolveInv'
  BY DEF ResolveInv, ExecutedOnce, ExecutedIsApproved, ClickInv

LEMMA StartResolveStep ==
  ASSUME OneClick, ResolveInv, ParkedTyped', NEW k \in Clicks, NEW i \in Ids, NEW d \in {"approve", "reject"},
         StartResolve(k, i, d)
  PROVE  ResolveInv'
  <1>1. /\ click[k].at = "idle" /\ row[i].status = "pending" /\ click' = [click EXCEPT ![k] = [at |-> d, id |-> i]]
        /\ UNCHANGED <<row, executed, cut>>
    BY DEF StartResolve
  <1>2. click'[k] = [at |-> d, id |-> i] /\ \A j \in Clicks : j = k
    BY <1>1 DEF OneClick, ResolveInv, ParkedTyped
  <1>3. click[k].id # i /\ executed[i] \in Nat /\ cut[i] \in Nat
    BY <1>1, ToolGatewayAssumption DEF ResolveInv, ClickInv, ParkedTyped, Ids
  <1>4. executed[i] <= cut[i]
    BY <1>1, <1>2, <1>3 DEF ResolveInv, ExecutedIsApproved
  <1>5. ClickInv'
    BY <1>1, <1>2, <1>4 DEF ClickInv
  <1>6. ExecutedIsApproved'
    <2>1. ASSUME NEW j \in Ids, executed[j] > cut[j], j # i PROVE row[j].status = "approved"
      <3>1. click[k].id # j
        BY <1>1, ToolGatewayAssumption DEF ResolveInv, ClickInv, Ids
      <3> QED
        BY <1>2, <2>1, <3>1 DEF ResolveInv, ExecutedIsApproved
    <2> QED
      BY <1>1, <1>2, <2>1 DEF ExecutedIsApproved
  <1> QED
    BY <1>1, <1>5, <1>6 DEF ResolveInv, ExecutedOnce

LEMMA AnswerStep ==
  ASSUME OneClick, ResolveInv, ParkedTyped', NEW k \in Clicks, Reject(k) \/ Unrunnable(k) \/ Record(k)
  PROVE  ResolveInv'
  <1> DEFINE i == click[k].id
  <1>1. /\ click'[k] = NoClick /\ i \in Ids /\ UNCHANGED <<executed, cut>> /\ \A j \in Clicks : j = k
        /\ \/ row' = [row EXCEPT ![i].status = "approved"]
           \/ row' = [row EXCEPT ![i].status = "rejected"] /\ executed[i] <= cut[i]
    BY DEF Reject, Unrunnable, Record, Resolved, Answered, OneClick, ResolveInv, ClickInv, ParkedTyped
  <1>2. ClickInv'
    BY <1>1 DEF ClickInv, NoClick
  <1>3. ExecutedIsApproved'
    <2>1. ASSUME NEW j \in Ids, executed[j] > cut[j] PROVE row'[j].status = "approved"
      <3>1. CASE j = i
        <4>1. executed[j] \in Nat /\ cut[j] \in Nat
          BY DEF ResolveInv, ParkedTyped
        <4> QED
          BY <1>1, <2>1, <3>1, <4>1 DEF ResolveInv, ParkedTyped
      <3>2. CASE j # i
        <4>1. row[j].status = "approved"
          BY <1>1, <2>1, <3>2 DEF ResolveInv, ExecutedIsApproved
        <4> QED
          BY <1>1, <3>2, <4>1 DEF ResolveInv, ParkedTyped
      <3> QED
        BY <3>1, <3>2
    <2> QED
      BY <1>1, <2>1 DEF ExecutedIsApproved
  <1> QED
    BY <1>1, <1>2, <1>3 DEF ResolveInv, ExecutedOnce

LEMMA ExecuteStep ==
  ASSUME OneClick, ResolveInv, ParkedTyped', NEW k \in Clicks, Execute(k)
  PROVE  ResolveInv'
  <1> DEFINE i == click[k].id
  <1>1. /\ click[k].at = "approve" /\ executed' = [executed EXCEPT ![i] = executed[i] + 1]
        /\ click' = [click EXCEPT ![k].at = "record"] /\ UNCHANGED <<row, cut>>
    BY DEF Execute
  <1>2. i \in Ids /\ executed[i] <= cut[i] /\ \A j \in Clicks : j = k
    BY <1>1 DEF ResolveInv, ClickInv, OneClick
  <1>3. click'[k].id = i /\ click'[k].at = "record" /\ executed[i] \in Nat /\ cut[i] \in Nat
        /\ executed'[i] = executed[i] + 1 /\ \A j \in Ids \ {i} : executed'[j] = executed[j]
    BY <1>1, <1>2 DEF ResolveInv, ParkedTyped
  <1>4. ClickInv'
    BY <1>1, <1>2, <1>3 DEF ClickInv
  <1>5. ExecutedOnce'
    BY <1>1, <1>2, <1>3 DEF ResolveInv, ExecutedOnce
  <1>6. ExecutedIsApproved'
    BY <1>1, <1>2, <1>3 DEF ResolveInv, ExecutedIsApproved
  <1> QED
    BY <1>4, <1>5, <1>6 DEF ResolveInv

LEMMA CrashStep ==
  ASSUME OneClick, ResolveInv, ParkedTyped', Crash
  PROVE  ResolveInv'
  <1>1. /\ \A k \in Clicks : click'[k] = NoClick
        /\ \A i \in Ids : cut'[i] = cut[i] + (IF i \in Cut THEN 1 ELSE 0)
        /\ UNCHANGED <<row, executed>>
    BY DEF Crash
  <1>2. \A i \in Ids : executed[i] \in Nat /\ cut[i] \in Nat
    BY DEF ResolveInv, ParkedTyped
  <1>3. ClickInv'
    BY <1>1 DEF ClickInv, NoClick
  <1>4. ExecutedOnce'
    BY <1>1, <1>2 DEF ResolveInv, ExecutedOnce
  <1>5. ExecutedIsApproved'
    <2>1. ASSUME NEW i \in Ids, executed[i] > cut'[i] PROVE row[i].status = "approved"
      <3>1. executed[i] > cut[i] /\ i \notin Cut
        <4>1. CASE i \in Cut
          BY <1>1, <1>2, <2>1, <4>1 DEF ResolveInv, ExecutedOnce
        <4>2. CASE i \notin Cut
          BY <1>1, <1>2, <2>1, <4>2
        <4> QED
          BY <4>1, <4>2
      <3>2. ASSUME NEW k \in Clicks PROVE click[k].id # i
        <4>1. CASE click[k].at = "idle"
          BY <4>1, ToolGatewayAssumption DEF ResolveInv, ClickInv, Ids
        <4>2. CASE click[k].at \in {"approve", "reject"}
          BY <1>2, <3>1, <4>2 DEF ResolveInv, ClickInv
        <4>3. CASE click[k].at = "record"
          BY <3>1, <4>3 DEF Cut
        <4> QED
          BY <4>1, <4>2, <4>3 DEF ResolveInv, ParkedTyped
      <3> QED
        BY <3>1, <3>2 DEF ResolveInv, ExecutedIsApproved
    <2> QED
      BY <1>1, <2>1 DEF ExecutedIsApproved
  <1> QED
    BY <1>3, <1>4, <1>5 DEF ResolveInv

LEMMA ResolveStep ==
  ASSUME OneClick, ResolveInv, RateInv, [Next]_vars
  PROVE  ResolveInv'
  <1>1. ParkedTyped'
    BY ParkedTypedStep DEF ResolveInv
  <1>2. ASSUME NEW c \in Calls, ToolCall(c) PROVE ResolveInv'
    <2>1. UNCHANGED <<click, executed, cut>>
      BY <1>2 DEF ToolCall, RecordHit, Admit, RateLimited, Refuse, NotPaused, PassGate, HoldAtGate, Handler,
                  ReuseRequest, NoOpenRequest, RequestApproval, parked
    <2>2. row' = row \/ \E n : \E i \in Ids : row[i].status = "none" /\ row' = [row EXCEPT ![i] = n]
      BY <1>2 DEF ToolCall, RecordHit, Admit, RateLimited, Refuse, NotPaused, PassGate, HoldAtGate, Handler,
                  ReuseRequest, NoOpenRequest, RequestApproval, FirstFree, parked
    <2>3. \A i \in Ids : row[i].status = "approved" => row'[i].status = "approved"
      BY <2>2 DEF ResolveInv, ParkedTyped
    <2> QED
      BY <1>1, <2>1, <2>3, UnresolvedStep
  <1>3. ASSUME NEW k \in Clicks, Resolve(k) PROVE ResolveInv'
    BY <1>1, <1>3, StartResolveStep, AnswerStep, ExecuteStep DEF Resolve
  <1>4. CASE Crash
    BY <1>1, <1>4, CrashStep
  <1>5. CASE (\E i \in Ids : Stale(i)) \/ Expire
    <2>1. \A i \in Ids : row[i].status = "approved" => row'[i].status = "approved"
      BY <1>5 DEF Stale, Expire, Expirable, ResolveInv, ParkedTyped
    <2> QED
      BY <1>1, <1>5, <2>1, UnresolvedStep DEF Stale, Expire
  <1>6. CASE \/ Tick \/ Pause \/ Resume \/ UNCHANGED vars
             \/ \E level \in {"supervised", "bounded", "full"} : SetAutonomy(level)
    BY <1>1, <1>6, UnresolvedStep DEF Tick, Pause, Resume, SetAutonomy, vars, parked
  <1> QED
    BY <1>2, <1>3, <1>4, <1>5, <1>6 DEF Next

\* resolveApproval, while an owner's clicks come one after the other: a request is executed once,
\* and once more for every crash that loses the record; what was executed ends up approved, whatever
\* expires, is rejected or crashes in between.
THEOREM ResolvesOnce == ASSUME OneClick PROVE Spec => []ResolvedOnce
  <1>1. Init => ResolveInv
    <2> SUFFICES ASSUME Init PROVE ResolveInv
      OBVIOUS
    <2>1. ParkedTyped
      BY GatewayTypedInit DEF GatewayTyped
    <2> QED
      BY <2>1 DEF Init, ResolveInv, ExecutedOnce, ExecutedIsApproved, ClickInv, NoClick
  <1>2. GatewayTyped /\ ResolveInv /\ [Next]_vars => ResolveInv'
    BY ResolveStep DEF GatewayTyped
  <1>3. GatewayTyped /\ ResolveInv => ResolvedOnce
    BY Typed DEF ResolveInv, ResolvedOnce
  <1> QED
    BY GatewayTypedInit, GatewayTypedStep, <1>1, <1>2, <1>3, PTL DEF Spec

----------------------------------------------------------------------------
(* The sites.                                                              *)

Files == {"index", "other", "bad", "css"}
Makers == {"landing"} \cup Workers
RequestRow == [at : {"off", "open", "rename", "failed"}, of : Nat, todo : Seq(Files), linked : {TRUE}, clash : BOOLEAN]
PastRow == [begun : Nat, landings : SUBSET Nat, answered : SUBSET Nat, failed : SUBSET Nat, unlogged : SUBSET Nat,
            clashed : BOOLEAN, torn : BOOLEAN, early : BOOLEAN, faults : Nat]
PageRow == [of : Int, linked : {TRUE}]
SitesTyped ==
  /\ root \in BOOLEAN /\ css \in BOOLEAN /\ page \in PageRow
  /\ job \in [Makers -> RequestRow] /\ caller \in [Workers -> {"idle", "deploy", "log"}]
  /\ visitor \in [Visitors -> [at : {"away", "page", "styled", "bare"}, late : BOOLEAN]]
  /\ deploys \subseteq Nat /\ past \in PastRow

\* What a request has behind it: it was begun; when its files are all written, so is the stylesheet,
\* which comes last; what met another deploy at one file is remembered.
RequestKept(r) ==
  /\ r.at = "off" => r.of = 0
  /\ r.at # "off" => past.begun # 0
  /\ r.at \in {"open", "rename"} => IF r.todo = <<>> THEN r.at = "open" /\ root /\ css ELSE r.todo[Len(r.todo)] = "css"
  /\ r.at = "rename" => root
  /\ r.clash => past.clashed
RequestsKept ==
  /\ \A d \in Makers : RequestKept(job[d])
  /\ job["landing"].at # "off" => job["landing"].of \in past.landings
\* Who came after the first answer finds the stylesheet, and nobody finds a directory before the first deploy.
VisitsKept ==
  /\ root => past.begun # 0
  /\ past.answered # {} => root /\ css
  /\ \A v \in Visitors : visitor[v].late => past.answered # {}
Origins == {0, -1} \cup past.landings \cup deploys \cup past.failed \cup past.unlogged \cup {job[w].of : w \in Workers}
SiteInv(slug) ==
  /\ SitesTyped /\ RequestsKept /\ VisitsKept /\ page.of \in Origins
  /\ Site(slug)!WholePages /\ Site(slug)!StyledPages /\ Site(slug)!HonestStatus

\* The instance's parameters.
LEMMA SiteAssumed ==
  ASSUME NEW slug \in Slugs
  PROVE  "landing" \notin Workers /\ Submitted \subseteq Seq({"index", "other", "bad"})
  BY WorkerToolsAssumption DEF Site!SitesAssumption, Site!Landing, Site!Paths

\* Nothing is served before the first deploy.
LEMMA SiteBegins ==
  ASSUME NEW slug \in Slugs, Site(slug)!Init PROVE SiteInv(slug)
  <1> USE DEF Site!Init, Site!None, Site!NoJob, Site!Deployers, Site!Landing, Site!Torn
  <1>1. SitesTyped
    <2>1. job \in [Makers -> RequestRow]
      BY DEF Makers, RequestRow, Files
    <2>2. caller \in [Workers -> {"idle", "deploy", "log"}]
      OBVIOUS
    <2>3. visitor \in [Visitors -> [at : {"away", "page", "styled", "bare"}, late : BOOLEAN]]
      OBVIOUS
    <2>4. page \in PageRow /\ past \in PastRow
      BY DEF PastRow, PageRow
    <2> QED BY <2>1, <2>2, <2>3, <2>4 DEF SitesTyped
  <1>2. RequestsKept
    BY DEF RequestsKept, RequestKept, Makers
  <1>3. VisitsKept
    BY DEF VisitsKept
  <1>4. page.of \in Origins
    BY DEF Origins
  <1> QED BY <1>1, <1>2, <1>3, <1>4 DEF SiteInv, Site!WholePages, Site!StyledPages, Site!HonestStatus

\* The invariant says what the run checks.
LEMMA SiteFollows ==
  ASSUME NEW slug \in Slugs, SiteInv(slug) PROVE Site(slug)!SiteKept
  <1>1. Site(slug)!ServedIsTold
    BY DEF SiteInv, VisitsKept, Origins, Site!ServedIsTold, Site!Torn
  <1> QED BY <1>1 DEF SiteInv, Site!SiteKept

\* A request begins with the files submitted, and ends with the stylesheet.
LEMMA FilesBegin ==
  ASSUME NEW slug \in Slugs, NEW s \in Seq({"index", "other", "bad"})
  PROVE  /\ Site(slug)!FilesOf(s) \in Seq(Files) /\ Site(slug)!FilesOf(s) # <<>>
         /\ Site(slug)!FilesOf(s)[Len(Site(slug)!FilesOf(s))] = "css"
  <1> DEFINE t == s \o <<"css">>
  <1>1. s \in Seq(Files) /\ <<"css">> \in Seq(Files)
    BY DEF Files
  <1>2. t \in Seq(Files) /\ Len(t) = Len(s) + 1 /\ t[Len(s) + 1] = "css" /\ Len(s) \in Nat
    BY <1>1
  <1>3. t # <<>>
    BY <1>2
  <1> QED BY <1>2, <1>3 DEF Site!FilesOf

\* What is behind a request stays behind it,
Grows ==
  /\ past' \in PastRow /\ (past.begun # 0 => past'.begun # 0) /\ past.landings \subseteq past'.landings
  /\ (past.clashed => past'.clashed) /\ (root => root') /\ (css => css')
LEMMA RequestStays ==
  ASSUME NEW r, RequestKept(r), Grows PROVE RequestKept(r)'
  BY DEF RequestKept, Grows

\* so it is enough to look at the one that changes.
LEMMA RequestStep ==
  ASSUME SitesTyped, RequestsKept, Grows, NEW d \in Makers, NEW r \in RequestRow, job' = [job EXCEPT ![d] = r],
         RequestKept(r)', d = "landing" /\ r.at # "off" => r.of \in past'.landings
  PROVE  RequestsKept' /\ job' \in [Makers -> RequestRow]
  <1>1. job' \in [Makers -> RequestRow]
    BY DEF SitesTyped
  <1>2. ASSUME NEW e \in Makers PROVE RequestKept(job[e])'
    <2>1. CASE e = d
      BY <2>1, <1>1 DEF SitesTyped, RequestKept
    <2>2. CASE e # d
      <3>1. PICK q : q = job[e]
        OBVIOUS
      <3>2. RequestKept(q)'
        BY <3>1, RequestStays DEF RequestsKept
      <3>3. job'[e] = q
        BY <2>2, <3>1 DEF SitesTyped
      <3> QED BY <3>2, <3>3 DEF RequestKept
    <2> QED BY <2>1, <2>2
  <1>3. job'["landing"].at # "off" => job'["landing"].of \in past'.landings
    BY DEF SitesTyped, RequestsKept, Grows, Makers
  <1> QED BY <1>1, <1>2, <1>3 DEF RequestsKept

\* A step that changes no request leaves what is behind them.
LEMMA RequestsSame ==
  ASSUME RequestsKept, Grows, UNCHANGED job PROVE RequestsKept'
  <1>1. ASSUME NEW e \in Makers PROVE RequestKept(job[e])'
    <2>1. PICK q : q = job[e]
      OBVIOUS
    <2>2. RequestKept(q)'
      BY <2>1, RequestStays DEF RequestsKept
    <2> QED BY <2>1, <2>2 DEF RequestKept
  <1> QED BY <1>1 DEF RequestsKept, Grows

\* The founding's deploy: a new request, and a deploy more begun.
LEMMA SiteStartLanding ==
  ASSUME NEW slug \in Slugs, SiteInv(slug), Site(slug)!StartLanding PROVE SiteInv(slug)'
  <1> USE DEF Site!StartLanding
  <1> PICK r : r = Site(slug)!Request(<<"index">>, TRUE)
    OBVIOUS
  <1>1. r.at = "open" /\ r.of = past.begun + 1 /\ ~r.clash /\ r.todo # <<>> /\ r.todo[Len(r.todo)] = "css" /\ r \in RequestRow
    <2>1. <<"index">> \in Seq({"index", "other", "bad"})
      OBVIOUS
    <2>2. past.begun + 1 \in Nat
      BY DEF SiteInv, SitesTyped, PastRow
    <2> QED BY <2>1, <2>2, FilesBegin DEF Site!Request, RequestRow
  <1>2. past' = [past EXCEPT !.begun = @ + 1, !.landings = @ \cup {past.begun + 1}] /\ job' = [job EXCEPT !["landing"] = r]
    BY DEF Site!Job, Site!Landing
  <1>3. Grows /\ past'.begun # 0
    <2>1. past \in PastRow /\ past.begun + 1 \in Nat /\ past.landings \cup {past.begun + 1} \in SUBSET Nat
      BY DEF SiteInv, SitesTyped, PastRow
    <2>2. PICK q : q = [past EXCEPT !.begun = past.begun + 1]
      OBVIOUS
    <2>3. q \in PastRow
      BY <2>1, <2>2 DEF PastRow
    <2>4. past' = [q EXCEPT !.landings = past.landings \cup {past.begun + 1}]
      BY <1>2, <2>2
    <2>5. past' \in PastRow
      BY <2>1, <2>3, <2>4 DEF PastRow
    <2> QED BY <1>2, <2>5 DEF Grows, SiteInv, SitesTyped, PastRow
  <1>4. RequestKept(r)'
    BY <1>1, <1>3 DEF RequestKept
  <1>5. past.begun + 1 \in past'.landings
    BY <1>2 DEF SiteInv, SitesTyped, PastRow
  <1>6. RequestsKept' /\ job' \in [Makers -> RequestRow]
    BY <1>1, <1>2, <1>3, <1>4, <1>5, RequestStep DEF SiteInv, Makers
  <1>7. SitesTyped'
    BY <1>6, <1>3 DEF SiteInv, SitesTyped, Grows
  <1>8. VisitsKept'
    BY <1>2, <1>3 DEF SiteInv, VisitsKept, SitesTyped, PastRow
  <1>9. (page.of \in Origins)'
    <2>1. \A w \in Workers : job'[w] = job[w]
      BY <1>2, SiteAssumed DEF SiteInv, SitesTyped, Makers
    <2>2. past.landings \subseteq past'.landings /\ past'.failed = past.failed /\ past'.unlogged = past.unlogged
      BY <1>2 DEF SiteInv, SitesTyped, PastRow
    <2>3. page' = page /\ deploys' = deploys
      OBVIOUS
    <2> QED BY <2>1, <2>2, <2>3 DEF SiteInv, Origins
  <1>10. Site(slug)!WholePages' /\ Site(slug)!StyledPages' /\ Site(slug)!HonestStatus'
    BY <1>2 DEF SiteInv, SitesTyped, PastRow, Site!WholePages, Site!StyledPages, Site!HonestStatus, Site!Torn
  <1> QED BY <1>6, <1>7, <1>8, <1>9, <1>10 DEF SiteInv

\* What is left of the files, after one, still ends with the stylesheet.
LEMMA TailKept ==
  ASSUME NEW s \in Seq(Files), s # <<>>, s[Len(s)] = "css"
  PROVE  /\ Tail(s) \in Seq(Files) /\ (Tail(s) = <<>> => Head(s) = "css")
         /\ Tail(s) # <<>> => Tail(s)[Len(Tail(s))] = "css"
  <1>1. Tail(s) \in Seq(Files) /\ Len(Tail(s)) = Len(s) - 1 /\ Len(s) \in Nat \ {0} /\ Head(s) = s[1]
    BY HeadTailProperties, EmptySeq, LenProperties
  <1>2. CASE Tail(s) = <<>>
    <2>1. PICK t : t = Tail(s)
      OBVIOUS
    <2>2. t \in Seq(Files) /\ Len(t) = Len(s) - 1 /\ t = <<>>
      BY <1>1, <1>2, <2>1
    <2>3. Len(t) = 0
      BY <2>2, EmptySeq
    <2>4. Len(s) = 1
      <3>1. Len(s) \in Nat /\ Len(s) - 1 = 0
        BY <1>1, <2>2, <2>3
      <3> QED BY <3>1
    <2>5. Head(s) = "css"
      BY <1>1, <2>4
    <2> QED BY <1>1, <1>2, <2>5
  <1>3. CASE Tail(s) # <<>>
    <2>1. Len(Tail(s)) \in Nat \ {0}
      BY <1>1, <1>3, EmptySeq, LenProperties
    <2>2. Tail(s)[Len(Tail(s))] = s[Len(Tail(s)) + 1]
      BY <1>1, <2>1
    <2> QED BY <1>1, <1>3, <2>1, <2>2
  <1> QED BY <1>1, <1>2, <1>3

\* The changes of a request that do not need its files.
LEMMA AtChanges ==
  ASSUME NEW q \in RequestRow, NEW where \in {"off", "open", "rename", "failed"}
  PROVE  /\ [q EXCEPT !.at = where] \in RequestRow
         /\ [q EXCEPT !.at = where].at = where /\ [q EXCEPT !.at = where].of = q.of /\ [q EXCEPT !.at = where].todo = q.todo
         /\ [q EXCEPT !.at = where].clash = q.clash
  BY DEF RequestRow
LEMMA ClashChanges ==
  ASSUME NEW q \in RequestRow, NEW b \in BOOLEAN
  PROVE  /\ [q EXCEPT !.clash = b] \in RequestRow /\ [q EXCEPT !.clash = b].at = q.at
         /\ [q EXCEPT !.clash = b].clash = b /\ [q EXCEPT !.clash = b].of = q.of /\ [q EXCEPT !.clash = b].todo = q.todo
  BY DEF RequestRow

\* One more temporary file: it is shared with T.
LEMMA SiteOpens ==
  ASSUME NEW slug \in Slugs, SiteInv(slug), NEW d \in Makers, NEW T, T \subseteq Makers \ {d}, \A e \in T : job[e].at = "rename",
         NEW b \in BOOLEAN, NEW b1 \in BOOLEAN, b \/ T # {} => b1, past.clashed => b1,
         job' = [e \in Makers |-> IF e = d THEN [[job[d] EXCEPT !.at = "rename"] EXCEPT !.clash = b]
                                  ELSE IF e \in T THEN [job[e] EXCEPT !.clash = TRUE] ELSE job[e]],
         past' = [past EXCEPT !.clashed = b1], root' = TRUE, css' = css, job[d].at = "open", job[d].todo # <<>>,
         UNCHANGED <<page, caller, visitor, deploys>>
  PROVE  SiteInv(slug)'
  <1>2. past \in PastRow /\ root \in BOOLEAN /\ css \in BOOLEAN
    BY DEF SiteInv, SitesTyped
  <1>3. past' \in PastRow
    BY <1>2 DEF PastRow
  <1>4. /\ past'.begun = past.begun /\ past'.landings = past.landings /\ past'.failed = past.failed
        /\ past'.unlogged = past.unlogged /\ past'.answered = past.answered /\ past'.torn = past.torn /\ past'.early = past.early
        /\ past'.clashed = b1
    BY <1>2 DEF PastRow
  <1>15. Grows
    BY <1>2, <1>3, <1>4 DEF Grows
  <1>5. ASSUME NEW e \in Makers
        PROVE job'[e] \in RequestRow /\ RequestKept(job[e])' /\ job'[e].of = job[e].of /\ (job'[e].at # "off" => job[e].at # "off")
    <2>1. job[e] \in RequestRow /\ RequestKept(job[e])
      BY DEF SiteInv, SitesTyped, RequestsKept
    <2>2. CASE e = d
      <3>1. job'[e] = [[job[e] EXCEPT !.at = "rename"] EXCEPT !.clash = b]
        BY <2>2
      <3>2. job[e].at = "open" /\ job[e].todo # <<>>
        BY <2>2
      <3>3. PICK q : q = job'[e]
        OBVIOUS
      <3>5. PICK p : p = [job[e] EXCEPT !.at = "rename"]
        OBVIOUS
      <3>6. p \in RequestRow /\ p.at = "rename" /\ p.of = job[e].of /\ p.todo = job[e].todo
        BY <2>1, <3>5, AtChanges
      <3>7. q = [p EXCEPT !.clash = b]
        BY <3>1, <3>3, <3>5
      <3>4. q \in RequestRow /\ q.at = "rename" /\ q.clash = b /\ q.of = p.of /\ q.todo = p.todo
        BY <3>6, <3>7, ClashChanges
      <3>8. RequestKept(q)'
        BY <2>1, <3>2, <3>4, <3>6, <1>4 DEF RequestKept
      <3>9. RequestKept(job[e])'
        BY <3>8, <3>3 DEF RequestKept
      <3> QED BY <3>2, <3>3, <3>4, <3>6, <3>9
    <2>3. CASE e # d /\ e \in T
      <3>1. PICK q : q = job'[e]
        OBVIOUS
      <3>5. q = [job[e] EXCEPT !.clash = TRUE]
        BY <2>3, <3>1
      <3>2. q \in RequestRow /\ q.at = job[e].at /\ q.clash = TRUE /\ q.of = job[e].of /\ q.todo = job[e].todo
        BY <2>1, <3>5, ClashChanges
      <3>8. RequestKept(q)'
        BY <2>1, <2>3, <3>2, <1>4 DEF RequestKept
      <3>9. RequestKept(job[e])'
        BY <3>8, <3>1 DEF RequestKept
      <3> QED BY <3>1, <3>2, <3>9
    <2>4. CASE e # d /\ e \notin T
      <3>1. PICK q : q = job[e]
        OBVIOUS
      <3>2. job'[e] = q
        BY <3>1, <2>4
      <3>3. RequestKept(q)'
        BY <2>1, <3>1, <1>15, RequestStays
      <3>4. RequestKept(job[e])'
        BY <3>2, <3>3 DEF RequestKept
      <3> QED BY <2>1, <3>1, <3>2, <3>4
    <2> QED BY <2>2, <2>3, <2>4
  <1>6. RequestsKept'
    BY <1>4, <1>5 DEF RequestsKept, SiteInv, Makers
  <1>7. job' \in [Makers -> RequestRow]
    <2>1. DOMAIN job' = Makers /\ job' = [e \in Makers |-> job'[e]]
      OBVIOUS
    <2> QED BY <2>1, <1>5
  <1>8. SitesTyped'
    BY <1>3, <1>7 DEF SiteInv, SitesTyped
  <1>9. VisitsKept'
    <2>1. past.begun # 0
      BY DEF SiteInv, RequestsKept, RequestKept
    <2> QED BY <2>1, <1>4 DEF SiteInv, VisitsKept
  <1>10. (page.of \in Origins)'
    <2>1. \A w \in Workers : job'[w].of = job[w].of
      BY <1>5 DEF Makers
    <2>2. {job'[w].of : w \in Workers} = {job[w].of : w \in Workers}
      BY <2>1
    <2>3. Origins' = Origins
      BY <1>4, <2>2 DEF Origins
    <2> QED BY <2>3 DEF SiteInv
  <1>11. Site(slug)!WholePages' /\ Site(slug)!StyledPages' /\ Site(slug)!HonestStatus'
    BY <1>4 DEF SiteInv, Site!WholePages, Site!StyledPages, Site!HonestStatus, Site!Torn
  <1> QED BY <1>6, <1>8, <1>9, <1>10, <1>11 DEF SiteInv

\* OpenFile: the deploys that are at the same file share its temporary one, and it is remembered.
LEMMA SiteOpenFile ==
  ASSUME NEW slug \in Slugs, SiteInv(slug), NEW d \in Makers, Site(slug)!OpenFile(d) PROVE SiteInv(slug)'
  <1>1. PICK T : T = Site(slug)!AtSameFile(d)
    OBVIOUS
  <1>2. PICK b \in BOOLEAN : b = (T # {})
    OBVIOUS
  <1>3. PICK b1 \in BOOLEAN : b1 = (past.clashed \/ T # {})
    OBVIOUS
  <1>4. T \subseteq Makers \ {d} /\ \A e \in T : job[e].at = "rename"
    BY <1>1 DEF Site!AtSameFile, Site!Deployers, Site!Landing, Makers
  <1>5. /\ job' = [e \in Makers |-> IF e = d THEN [job[d] EXCEPT !.at = "rename", !.clash = b]
                                    ELSE IF e \in T THEN [job[e] EXCEPT !.clash = TRUE] ELSE job[e]]
        /\ past' = [past EXCEPT !.clashed = b1] /\ root' = TRUE /\ css' = css
        /\ job[d].at = "open" /\ job[d].todo # <<>> /\ UNCHANGED <<page, caller, visitor, deploys>>
    BY <1>1, <1>2, <1>3 DEF Site!OpenFile, Site!Deployers, Site!Landing, Makers
  <1>6. /\ b \/ T # {} => b1
        /\ past.clashed => b1
    BY <1>2, <1>3
  <1> QED BY <1>4, <1>5, <1>6, SiteOpens

\* A request that ends or goes on: nothing else is touched.
LEMMA SiteJobStep ==
  ASSUME NEW slug \in Slugs, SiteInv(slug), NEW d \in Makers, NEW r \in RequestRow, job' = [job EXCEPT ![d] = r],
         RequestKept(r)', d = "landing" /\ r.at # "off" => r.of \in past.landings, r.of = job[d].of,
         UNCHANGED <<root, caller, visitor, deploys, past>>, css' = TRUE \/ css' = css,
         page' \in PageRow, page'.of \in Origins, page'.of = -1 => past.clashed
  PROVE  SiteInv(slug)'
  <1>1. Grows
    BY DEF Grows, SiteInv, SitesTyped
  <1>2. RequestsKept' /\ job' \in [Makers -> RequestRow]
    BY <1>1, RequestStep DEF SiteInv
  <1>3. SitesTyped'
    BY <1>2 DEF SiteInv, SitesTyped
  <1>4. VisitsKept'
    BY DEF SiteInv, VisitsKept
  <1>5. (page.of \in Origins)'
    <2>1. \A w \in Workers : job'[w].of = job[w].of
      BY DEF SiteInv, SitesTyped, Makers
    <2> QED BY <2>1 DEF Origins
  <1>6. Site(slug)!WholePages'
    BY DEF SiteInv, Site!WholePages, Site!Torn
  <1>7. Site(slug)!StyledPages'
    <2>1. page'.linked
      BY DEF PageRow
    <2> QED BY <2>1 DEF SiteInv, Site!StyledPages
  <1>8. Site(slug)!HonestStatus'
    BY DEF SiteInv, Site!HonestStatus
  <1> QED BY <1>2, <1>3, <1>7, <1>8, <1>4, <1>5, <1>6 DEF SiteInv

\* What a rename can leave: the page as it was, the request's, or half of one.
LEMMA PagesMade ==
  ASSUME NEW n \in Nat, NEW l \in {TRUE}
  PROVE  [of |-> n, linked |-> l] \in PageRow /\ [of |-> -1, linked |-> TRUE] \in PageRow
  BY DEF PageRow

\* RenameFile: a page of the request, or what a clash leaves; the stylesheet with the last file.
LEMMA SiteRenameFile ==
  ASSUME NEW slug \in Slugs, SiteInv(slug), NEW d \in Makers, Site(slug)!RenameFile(d) PROVE SiteInv(slug)'
  <1> USE DEF Site!RenameFile
  <1>1. job[d] \in RequestRow /\ RequestKept(job[d]) /\ job[d].at = "rename"
    BY DEF SiteInv, SitesTyped, RequestsKept, Site!Renamed, Site!RenameClashed
  <1>2. job[d].todo \in Seq(Files) /\ job[d].todo # <<>> /\ job[d].todo[Len(job[d].todo)] = "css" /\ root /\ past.begun # 0
    BY <1>1 DEF RequestKept, RequestRow
  <1>3. /\ d = "landing" => job[d].of \in past.landings
        /\ job[d].of \in Origins /\ job[d].of \in Nat /\ job[d].linked \in {TRUE}
    BY <1>1 DEF SiteInv, RequestsKept, Origins, Makers, RequestRow
  <1>4. CASE Site(slug)!Renamed(d)
    <2>1. PICK r : r = [job[d] EXCEPT !.at = "open", !.todo = Tail(@), !.clash = FALSE]
      OBVIOUS
    <2>2. r \in RequestRow /\ r.at = "open" /\ r.todo = Tail(job[d].todo) /\ ~r.clash /\ r.of = job[d].of
      BY <1>1, <1>2, <2>1, TailKept DEF RequestRow
    <2>3. css' = (css \/ Head(job[d].todo) = "css") /\ job' = [job EXCEPT ![d] = r]
      BY <1>4, <2>1 DEF Site!Renamed, Site!Job
    <2>4. RequestKept(r)'
      <3>1. root' = root /\ past' = past
        OBVIOUS
      <3>2. CASE r.todo = <<>>
        <4>1. css' = TRUE
          BY <3>2, <2>2, <2>3, <1>2, TailKept DEF SiteInv, SitesTyped
        <4> QED BY <4>1, <3>1, <3>2, <2>2, <1>2 DEF RequestKept
      <3>3. CASE r.todo # <<>>
        BY <3>1, <3>3, <2>2, <1>2, TailKept DEF RequestKept
      <3> QED BY <3>2, <3>3
    <2>5. page' = page \/ page' = [of |-> job[d].of, linked |-> job[d].linked]
      BY <1>4 DEF Site!Renamed, Site!Written
    <2>6. page' \in PageRow /\ page'.of \in Origins
      <3>1. [of |-> job[d].of, linked |-> job[d].linked] \in PageRow
        BY <1>3, PagesMade
      <3>2. page \in PageRow /\ page.of \in Origins
        BY DEF SiteInv, SitesTyped
      <3> QED BY <2>5, <1>3, <3>1, <3>2
    <2>7. page'.of = -1 => past.clashed
      <3>1. CASE page' = page
        <4>1. page.of = -1 => page = [of |-> -1, linked |-> TRUE]
          BY DEF SiteInv, SitesTyped, PageRow
        <4> QED BY <3>1, <4>1 DEF SiteInv, Site!WholePages, Site!Torn
      <3> QED BY <3>1, <2>5, <1>3
    <2>8. css' = TRUE \/ css' = css
      BY <2>3 DEF SiteInv, SitesTyped
    <2> QED BY <1>3, <2>2, <2>3, <2>4, <2>6, <2>7, <2>8, SiteJobStep
  <1>5. CASE Site(slug)!RenameClashed(d)
    <2>1. PICK r : r = [job[d] EXCEPT !.at = "failed"]
      OBVIOUS
    <2>2. r \in RequestRow /\ r.at = "failed" /\ r.of = job[d].of /\ r.clash = job[d].clash
      BY <1>1, <2>1 DEF RequestRow
    <2>3. css' = css /\ job' = [job EXCEPT ![d] = r] /\ job[d].clash
      BY <1>5, <2>1 DEF Site!RenameClashed, Site!Job
    <2>4. RequestKept(r)'
      BY <1>1, <1>2, <2>2 DEF RequestKept
    <2>5. page' = page \/ page' = [of |-> job[d].of, linked |-> job[d].linked] \/ page' = [of |-> -1, linked |-> TRUE]
      BY <1>5 DEF Site!RenameClashed, Site!Written, Site!Torn
    <2>6. page' \in PageRow /\ page'.of \in Origins
      <3>1. -1 \in Origins
        BY DEF Origins
      <3>2. [of |-> job[d].of, linked |-> job[d].linked] \in PageRow
        BY <1>3, PagesMade
      <3>3. page \in PageRow /\ page.of \in Origins
        BY DEF SiteInv, SitesTyped
      <3>4. [of |-> -1, linked |-> TRUE] \in PageRow
        BY PagesMade
      <3>5. page' \in PageRow
        BY <2>5, <3>2, <3>3, <3>4
      <3>6. page'.of \in {page.of, job[d].of, -1}
        BY <2>5
      <3> QED BY <3>1, <3>3, <3>5, <3>6, <1>3
    <2>7. past.clashed
      BY <1>1, <2>3 DEF RequestKept
    <2> QED BY <1>3, <2>2, <2>3, <2>4, <2>6, <2>7, SiteJobStep
  <1> QED BY <1>4, <1>5

\* A path that escapes fails the request where it is.
LEMMA SiteRejectPath ==
  ASSUME NEW slug \in Slugs, SiteInv(slug), NEW d \in Makers, Site(slug)!RejectPath(d) PROVE SiteInv(slug)'
  <1> USE DEF Site!RejectPath
  <1>1. job[d] \in RequestRow /\ RequestKept(job[d]) /\ job[d].at = "open"
    BY DEF SiteInv, SitesTyped, RequestsKept
  <1>2. PICK r : r = [job[d] EXCEPT !.at = "failed"]
    OBVIOUS
  <1>3. r \in RequestRow /\ r.at = "failed" /\ r.of = job[d].of /\ r.clash = job[d].clash /\ job' = [job EXCEPT ![d] = r]
    BY <1>1, <1>2 DEF RequestRow, Site!Job
  <1>4. RequestKept(r)'
    BY <1>1, <1>3 DEF RequestKept
  <1>5. d = "landing" => r.of \in past.landings
    BY <1>1, <1>3 DEF SiteInv, RequestsKept
  <1>6. page' = page /\ page \in PageRow /\ page.of \in Origins
    BY DEF SiteInv, SitesTyped
  <1>7. page.of = -1 => past.clashed
    <2>1. page.of = -1 => page = [of |-> -1, linked |-> TRUE]
      BY DEF SiteInv, SitesTyped, PageRow
    <2> QED BY <2>1 DEF SiteInv, Site!WholePages, Site!Torn
  <1> QED BY <1>3, <1>4, <1>5, <1>6, <1>7, SiteJobStep

\* A step that only looks, and what is remembered of it.
LEMMA SiteLooks ==
  ASSUME NEW slug \in Slugs, SiteInv(slug), NEW t \in BOOLEAN, NEW e \in BOOLEAN,
         past' = [[past EXCEPT !.torn = t] EXCEPT !.early = e], t => past.clashed \/ past.torn, e => past.early \/ slug \in ControlPlanes,
         UNCHANGED <<root, page, css, job, caller, deploys>>,
         visitor' \in [Visitors -> [at : {"away", "page", "styled", "bare"}, late : BOOLEAN]],
         \A v \in Visitors : visitor'[v].late => past.answered # {},
         \A v \in Visitors : visitor'[v].at = "bare" => ~visitor'[v].late
  PROVE  SiteInv(slug)'
  <1>1. past \in PastRow
    BY DEF SiteInv, SitesTyped
  <1>2. PICK q : q = [past EXCEPT !.torn = t]
    OBVIOUS
  <1>3. q \in PastRow
    BY <1>1, <1>2 DEF PastRow
  <1>4. past' = [q EXCEPT !.early = e]
    BY <1>2
  <1>5. past' \in PastRow
    BY <1>3, <1>4 DEF PastRow
  <1>6. /\ past'.begun = past.begun /\ past'.landings = past.landings /\ past'.failed = past.failed
        /\ past'.unlogged = past.unlogged /\ past'.answered = past.answered /\ past'.torn = t /\ past'.early = e
        /\ past'.clashed = past.clashed
    BY <1>1 DEF PastRow
  <1>7. Grows
    BY <1>5, <1>6 DEF Grows
  <1>8. RequestsKept'
    BY <1>7, RequestsSame DEF SiteInv
  <1>9. SitesTyped'
    BY <1>5 DEF SiteInv, SitesTyped
  <1>10. VisitsKept'
    BY <1>6 DEF SiteInv, VisitsKept
  <1>11. (page.of \in Origins)'
    BY <1>6 DEF SiteInv, Origins
  <1>12. Site(slug)!WholePages'
    BY <1>6 DEF SiteInv, Site!WholePages, Site!Torn
  <1>13. Site(slug)!StyledPages'
    BY <1>6 DEF SiteInv, Site!StyledPages
  <1>14. Site(slug)!HonestStatus'
    BY <1>6 DEF SiteInv, Site!HonestStatus
  <1> QED BY <1>8, <1>9, <1>10, <1>11, <1>12, <1>13, <1>14 DEF SiteInv

\* Who reads the page remembers whether it was whole.
LEMMA PastReads ==
  ASSUME NEW slug \in Slugs, SiteInv(slug), Site(slug)!Reads
  PROVE  \E t \in BOOLEAN, e \in BOOLEAN :
           /\ past' = [[past EXCEPT !.torn = t] EXCEPT !.early = e]
           /\ (t => past.clashed \/ past.torn) /\ (e => past.early \/ slug \in ControlPlanes)
  <1>1. PICK t \in BOOLEAN : t = (past.torn \/ page = Site(slug)!Torn)
    OBVIOUS
  <1>2. past \in PastRow /\ past' = [past EXCEPT !.torn = t]
    BY <1>1 DEF SiteInv, SitesTyped, Site!Reads
  <1>3. PICK e \in BOOLEAN : e = past.early
    BY <1>2 DEF PastRow
  <1>4. past' = [[past EXCEPT !.torn = t] EXCEPT !.early = e]
    BY <1>2, <1>3 DEF PastRow
  <1>5. t => past.clashed \/ past.torn
    BY <1>1 DEF SiteInv, Site!WholePages
  <1> QED BY <1>3, <1>4, <1>5

\* get_deploy_status looks only for the directory, which a deploy made, or at the name.
LEMMA SiteGetDeployStatus ==
  ASSUME NEW slug \in Slugs, SiteInv(slug), NEW w \in Workers, Site(slug)!GetDeployStatus(w) PROVE SiteInv(slug)'
  <1>1. PICK e \in BOOLEAN : e = (past.early \/ past.begun = 0)
    OBVIOUS
  <1>2. past \in PastRow /\ past' = [past EXCEPT !.early = e]
    BY <1>1 DEF SiteInv, SitesTyped, Site!GetDeployStatus
  <1>3. PICK t \in BOOLEAN : t = past.torn
    BY <1>2 DEF PastRow
  <1>4. past' = [[past EXCEPT !.torn = t] EXCEPT !.early = e]
    BY <1>2, <1>3 DEF PastRow
  <1>5. e => past.early \/ slug \in ControlPlanes
    BY <1>1 DEF SiteInv, VisitsKept, Site!GetDeployStatus, Site!Exists
  <1>6. /\ visitor' \in [Visitors -> [at : {"away", "page", "styled", "bare"}, late : BOOLEAN]]
        /\ \A v \in Visitors : visitor'[v].late => past.answered # {}
        /\ \A v \in Visitors : visitor'[v].at = "bare" => ~visitor'[v].late
        /\ UNCHANGED <<root, page, css, job, caller, deploys>>
    BY DEF SiteInv, SitesTyped, VisitsKept, Site!StyledPages, Site!GetDeployStatus
  <1> QED BY <1>3, <1>4, <1>5, <1>6, SiteLooks

\* get_site reads the page.
LEMMA SiteGetSite ==
  ASSUME NEW slug \in Slugs, SiteInv(slug), NEW w \in Workers, Site(slug)!GetSite(w) PROVE SiteInv(slug)'
  <1>1. Site(slug)!Reads
    BY DEF Site!GetSite
  <1>2. /\ visitor' \in [Visitors -> [at : {"away", "page", "styled", "bare"}, late : BOOLEAN]]
        /\ \A v \in Visitors : visitor'[v].late => past.answered # {}
        /\ \A v \in Visitors : visitor'[v].at = "bare" => ~visitor'[v].late
        /\ UNCHANGED <<root, page, css, job, caller, deploys>>
    BY DEF SiteInv, SitesTyped, VisitsKept, Site!StyledPages, Site!GetSite
  <1> QED BY <1>1, <1>2, PastReads, SiteLooks

\* A visitor reads the page,
LEMMA SiteLoadPage ==
  ASSUME NEW slug \in Slugs, SiteInv(slug), NEW v \in Visitors, Site(slug)!LoadPage(v) PROVE SiteInv(slug)'
  <1>1. Site(slug)!Reads /\ UNCHANGED <<root, page, css, job, caller, deploys>>
    BY DEF Site!LoadPage
  <1>2. PICK l \in BOOLEAN : l = (past.answered # {})
    OBVIOUS
  <1>3. visitor' = [visitor EXCEPT ![v] = [at |-> "page", late |-> l]]
    BY <1>2 DEF Site!LoadPage
  <1>4. visitor' \in [Visitors -> [at : {"away", "page", "styled", "bare"}, late : BOOLEAN]]
    BY <1>3 DEF SiteInv, SitesTyped
  <1>5. ASSUME NEW u \in Visitors
        PROVE (visitor'[u].late => past.answered # {}) /\ (visitor'[u].at = "bare" => ~visitor'[u].late)
    <2>1. CASE u = v
      <3>1. visitor'[u] = [at |-> "page", late |-> l]
        BY <1>3, <2>1 DEF SiteInv, SitesTyped
      <3>2. visitor'[u].at # "bare"
        BY <3>1
      <3>3. visitor'[u].late = l
        BY <3>1
      <3>4. l => past.answered # {}
        BY <1>2
      <3> QED BY <3>2, <3>3, <3>4
    <2>2. CASE u # v
      BY <1>3, <2>2 DEF SiteInv, SitesTyped, VisitsKept, Site!StyledPages
    <2> QED BY <2>1, <2>2
  <1> QED BY <1>1, <1>4, <1>5, PastReads, SiteLooks

\* then its stylesheet, which is there for whoever came after an answer.
LEMMA SiteLoadStyle ==
  ASSUME NEW slug \in Slugs, SiteInv(slug), NEW v \in Visitors, Site(slug)!LoadStyle(v) PROVE SiteInv(slug)'
  <1>1. past' = past /\ UNCHANGED <<root, page, css, job, caller, deploys>> /\ past \in PastRow
    BY DEF Site!LoadStyle, SiteInv, SitesTyped
  <1>2. PICK t \in BOOLEAN, e \in BOOLEAN : t = past.torn /\ e = past.early
    BY <1>1 DEF PastRow
  <1>3. past' = [[past EXCEPT !.torn = t] EXCEPT !.early = e]
    BY <1>1, <1>2 DEF PastRow
  <1>4. PICK a \in {"styled", "bare"} : a = IF css THEN "styled" ELSE "bare"
    OBVIOUS
  <1>5. visitor' = [visitor EXCEPT ![v].at = a]
    BY <1>4 DEF Site!LoadStyle
  <1>6. visitor' \in [Visitors -> [at : {"away", "page", "styled", "bare"}, late : BOOLEAN]]
    BY <1>5 DEF SiteInv, SitesTyped
  <1>7. ASSUME NEW u \in Visitors
        PROVE (visitor'[u].late => past.answered # {}) /\ (visitor'[u].at = "bare" => ~visitor'[u].late)
    <2>1. CASE u = v
      <3>1. visitor'[u] = [visitor[u] EXCEPT !.at = a]
        BY <1>5, <2>1 DEF SiteInv, SitesTyped
      <3>2. visitor[u] \in [at : {"away", "page", "styled", "bare"}, late : BOOLEAN]
        BY DEF SiteInv, SitesTyped
      <3>3. visitor'[u].at = a /\ visitor'[u].late = visitor[u].late
        BY <3>1, <3>2
      <3>4. visitor[u].late => past.answered # {} /\ css
        BY DEF SiteInv, VisitsKept
      <3>5. a = "bare" => ~css
        BY <1>4
      <3>6. a = "bare" => ~visitor[u].late
        BY <3>4, <3>5
      <3>7. visitor'[u].at = "bare" => ~visitor'[u].late
        BY <3>3, <3>6
      <3>8. visitor'[u].late => past.answered # {}
        BY <3>3, <3>4
      <3> QED BY <3>7, <3>8
    <2>2. CASE u # v
      BY <1>5, <2>2 DEF SiteInv, SitesTyped, VisitsKept, Site!StyledPages
    <2> QED BY <2>1, <2>2
  <1> QED BY <1>1, <1>2, <1>3, <1>6, <1>7, SiteLooks

\* A request that is over, and what is remembered of it.
LEMMA SiteJobEnds ==
  ASSUME NEW slug \in Slugs, SiteInv(slug), NEW d \in Makers, job' = [job EXCEPT ![d] = Site(slug)!NoJob],
         caller' \in [Workers -> {"idle", "deploy", "log"}], Grows,
         past'.begun = past.begun, past'.torn = past.torn, past'.early = past.early, past'.clashed = past.clashed,
         past'.answered # {} => past.answered # {} \/ (root /\ css), past.answered # {} => past'.answered # {},
         past.landings \subseteq past'.landings, past.failed \subseteq past'.failed, past.unlogged \subseteq past'.unlogged,
         deploys \subseteq deploys', deploys' \subseteq Nat, job[d].of \in Origins',
         UNCHANGED <<root, page, css, visitor>>
  PROVE  SiteInv(slug)'
  <1>1. PICK r : r = Site(slug)!NoJob
    OBVIOUS
  <1>2. r \in RequestRow /\ r.at = "off" /\ r.of = 0 /\ ~r.clash
    BY <1>1 DEF RequestRow, Site!NoJob
  <1>3. RequestKept(r)'
    BY <1>2 DEF RequestKept
  <1>4. RequestsKept' /\ job' \in [Makers -> RequestRow]
    BY <1>1, <1>2, <1>3, RequestStep DEF SiteInv
  <1>5. SitesTyped'
    BY <1>4 DEF SiteInv, SitesTyped, Grows
  <1>6. VisitsKept'
    BY DEF SiteInv, VisitsKept
  <1>7. (page.of \in Origins)'
    <2>1. \A w \in Workers : w # d => job'[w] = job[w]
      BY DEF SiteInv, SitesTyped, Makers
    <2> QED BY <2>1 DEF SiteInv, Origins
  <1>8. Site(slug)!WholePages' /\ Site(slug)!HonestStatus'
    BY DEF SiteInv, Site!WholePages, Site!HonestStatus, Site!Torn
  <1>9. Site(slug)!StyledPages'
    BY DEF SiteInv, Site!StyledPages
  <1> QED BY <1>4, <1>5, <1>6, <1>7, <1>8, <1>9 DEF SiteInv

\* The founding hears of its deploy, whose files are then all there.
LEMMA SiteLandingAnswered ==
  ASSUME NEW slug \in Slugs, SiteInv(slug), Site(slug)!LandingAnswered PROVE SiteInv(slug)'
  <1>1. past \in PastRow /\ job["landing"] \in RequestRow /\ RequestKept(job["landing"]) /\ "landing" \in Makers
    BY DEF SiteInv, SitesTyped, RequestsKept, Makers
  <1>2. job' = [job EXCEPT !["landing"] = Site(slug)!NoJob] /\ UNCHANGED <<root, page, css, caller, visitor, deploys>>
    BY DEF Site!LandingAnswered, Site!Landing, Site!Job
  <1>3. PICK A : A = IF Site(slug)!Published("landing") THEN past.answered \cup {job["landing"].of} ELSE past.answered
    OBVIOUS
  <1>4. past' = [past EXCEPT !.answered = A]
    BY <1>3 DEF Site!LandingAnswered, Site!Landing
  <1>5. A \in SUBSET Nat /\ past.answered \subseteq A
    BY <1>1, <1>3 DEF PastRow, RequestRow
  <1>6. A # {} => past.answered # {} \/ (root /\ css)
    BY <1>1, <1>3 DEF RequestKept, Site!Published
  <1>7. /\ past' \in PastRow /\ past'.begun = past.begun /\ past'.torn = past.torn /\ past'.early = past.early
        /\ past'.clashed = past.clashed /\ past'.landings = past.landings /\ past'.failed = past.failed
        /\ past'.unlogged = past.unlogged /\ past'.answered = A
    BY <1>1, <1>4, <1>5 DEF PastRow
  <1>8. Grows
    BY <1>2, <1>7 DEF Grows
  <1>9. job["landing"].of \in Origins'
    <2>1. job["landing"].of \in past.landings
      BY DEF SiteInv, RequestsKept, Site!LandingAnswered, Site!Published, Site!Landing
    <2> QED BY <2>1, <1>7 DEF Origins
  <1>10. caller' \in [Workers -> {"idle", "deploy", "log"}] /\ deploys' \subseteq Nat
    BY <1>2 DEF SiteInv, SitesTyped
  <1> QED BY <1>1, <1>2, <1>5, <1>6, <1>7, <1>8, <1>9, <1>10, SiteJobEnds

\* A worker whose deploy failed: the page may be its, and it is told.
LEMMA SiteDeployFailed ==
  ASSUME NEW slug \in Slugs, SiteInv(slug), NEW w \in Workers, Site(slug)!DeployFailed(w) PROVE SiteInv(slug)'
  <1>1. past \in PastRow /\ job[w] \in RequestRow /\ w \in Makers /\ deploys \subseteq Nat
    BY DEF SiteInv, SitesTyped, Makers
  <1>2. /\ job' = [job EXCEPT ![w] = Site(slug)!NoJob] /\ UNCHANGED <<root, page, css, visitor, deploys>>
        /\ caller' = [caller EXCEPT ![w] = "idle"]
        /\ past' = [past EXCEPT !.failed = @ \cup {job[w].of}]
    BY DEF Site!DeployFailed, Site!Goto, Site!Job
  <1>3. PICK F : F = past.failed \cup {job[w].of}
    OBVIOUS
  <1>4. F \in SUBSET Nat /\ past' = [past EXCEPT !.failed = F]
    BY <1>1, <1>2, <1>3 DEF PastRow, RequestRow
  <1>5. /\ past' \in PastRow /\ past'.begun = past.begun /\ past'.torn = past.torn /\ past'.early = past.early
        /\ past'.clashed = past.clashed /\ past'.landings = past.landings /\ past'.failed = F
        /\ past'.unlogged = past.unlogged /\ past'.answered = past.answered
    BY <1>1, <1>4 DEF PastRow
  <1>6. Grows
    BY <1>2, <1>5 DEF Grows
  <1>7. job[w].of \in Origins'
    BY <1>3, <1>5 DEF Origins
  <1>8. caller' \in [Workers -> {"idle", "deploy", "log"}]
    BY <1>2 DEF SiteInv, SitesTyped
  <1> QED BY <1>1, <1>2, <1>3, <1>5, <1>6, <1>7, <1>8, SiteJobEnds

\* The deploy event is written, or is lost and remembered as unlogged.
LEMMA SiteLogDeploy ==
  ASSUME NEW slug \in Slugs, SiteInv(slug), NEW w \in Workers, Site(slug)!LogDeploy(w) PROVE SiteInv(slug)'
  <1>1. past \in PastRow /\ job[w] \in RequestRow /\ w \in Makers /\ deploys \subseteq Nat
    BY DEF SiteInv, SitesTyped, Makers
  <1>2. /\ job' = [job EXCEPT ![w] = Site(slug)!NoJob] /\ UNCHANGED <<root, page, css, visitor>>
        /\ caller' = [caller EXCEPT ![w] = "idle"]
    BY DEF Site!LogDeploy, Site!Goto, Site!Job
  <1>3. caller' \in [Workers -> {"idle", "deploy", "log"}]
    BY <1>2 DEF SiteInv, SitesTyped
  <1>4. CASE deploys' = deploys \cup {job[w].of} /\ past' = past
    <2>1. Grows
      BY <1>1, <1>2, <1>4 DEF Grows
    <2>2. job[w].of \in Origins' /\ deploys' \subseteq Nat
      BY <1>1, <1>4 DEF Origins, RequestRow
    <2> QED BY <1>1, <1>2, <1>3, <1>4, <2>1, <2>2, SiteJobEnds
  <1>5. CASE past' = [Site(slug)!Faulty(past) EXCEPT !.unlogged = @ \cup {job[w].of}] /\ deploys' = deploys
    <2>1. PICK q : q = Site(slug)!Faulty(past)
      OBVIOUS
    <2>2. /\ q \in PastRow /\ q.begun = past.begun /\ q.torn = past.torn /\ q.early = past.early
          /\ q.clashed = past.clashed /\ q.landings = past.landings /\ q.failed = past.failed
          /\ q.unlogged = past.unlogged /\ q.answered = past.answered
      BY <1>1, <2>1 DEF PastRow, Site!Faulty
    <2>3. PICK F : F = past.unlogged \cup {job[w].of}
      OBVIOUS
    <2>4. F \in SUBSET Nat /\ past' = [q EXCEPT !.unlogged = F]
      BY <1>1, <1>5, <2>1, <2>2, <2>3 DEF PastRow, RequestRow
    <2>5. /\ past' \in PastRow /\ past'.begun = past.begun /\ past'.torn = past.torn /\ past'.early = past.early
          /\ past'.clashed = past.clashed /\ past'.landings = past.landings /\ past'.failed = past.failed
          /\ past'.unlogged = F /\ past'.answered = past.answered
      BY <2>2, <2>4 DEF PastRow
    <2>6. Grows
      BY <1>2, <2>5 DEF Grows
    <2>7. job[w].of \in Origins'
      BY <2>3, <2>5 DEF Origins
    <2> QED BY <1>1, <1>2, <1>3, <1>5, <2>3, <2>5, <2>6, <2>7, SiteJobEnds
  <1> QED BY <1>4, <1>5 DEF Site!LogDeploy

\* A worker hears of its deploy, and is to log it.
LEMMA SiteDeployAnswered ==
  ASSUME NEW slug \in Slugs, SiteInv(slug), NEW w \in Workers, Site(slug)!DeployAnswered(w) PROVE SiteInv(slug)'
  <1>1. past \in PastRow /\ job[w] \in RequestRow /\ RequestKept(job[w]) /\ w \in Makers
    BY DEF SiteInv, SitesTyped, RequestsKept, Makers
  <1>2. root /\ css
    BY <1>1 DEF RequestKept, Site!DeployAnswered, Site!Published
  <1>3. PICK A : A = past.answered \cup {job[w].of}
    OBVIOUS
  <1>4. /\ past' = [past EXCEPT !.answered = A] /\ caller' = [caller EXCEPT ![w] = "log"]
        /\ UNCHANGED <<root, page, css, job, visitor, deploys>>
    BY <1>3 DEF Site!DeployAnswered, Site!Goto
  <1>5. A \in SUBSET Nat
    BY <1>1, <1>3 DEF PastRow, RequestRow
  <1>6. /\ past' \in PastRow /\ past'.begun = past.begun /\ past'.torn = past.torn /\ past'.early = past.early
        /\ past'.clashed = past.clashed /\ past'.landings = past.landings /\ past'.failed = past.failed
        /\ past'.unlogged = past.unlogged /\ past'.answered = A
    BY <1>1, <1>4, <1>5 DEF PastRow
  <1>7. Grows
    BY <1>4, <1>6 DEF Grows
  <1>8. RequestsKept'
    BY <1>4, <1>7, RequestsSame DEF SiteInv
  <1>9. SitesTyped'
    BY <1>4, <1>6 DEF SiteInv, SitesTyped
  <1>10. VisitsKept'
    BY <1>2, <1>3, <1>4, <1>6 DEF SiteInv, VisitsKept
  <1>11. (page.of \in Origins)'
    BY <1>4, <1>6 DEF SiteInv, Origins
  <1>12. Site(slug)!WholePages' /\ Site(slug)!HonestStatus'
    BY <1>4, <1>6 DEF SiteInv, Site!WholePages, Site!HonestStatus, Site!Torn
  <1>13. Site(slug)!StyledPages'
    BY <1>4 DEF SiteInv, Site!StyledPages
  <1> QED BY <1>8, <1>9, <1>10, <1>11, <1>12, <1>13 DEF SiteInv

\* A worker's deploy begins.
LEMMA SiteDeploySite ==
  ASSUME NEW slug \in Slugs, SiteInv(slug), NEW w \in Workers, Site(slug)!DeploySite(w) PROVE SiteInv(slug)'
  <1>1. PICK submitted \in Submitted, linked \in BOOLEAN :
          job' = [job EXCEPT ![w] = Site(slug)!Request(submitted, Site(slug)!Sanitized(linked))]
    BY DEF Site!DeploySite, Site!Job
  <1>2. PICK r : r = Site(slug)!Request(submitted, Site(slug)!Sanitized(linked))
    OBVIOUS
  <1>3. past \in PastRow /\ past.begun + 1 \in Nat /\ w \in Makers /\ w # "landing"
    BY SiteAssumed DEF SiteInv, SitesTyped, PastRow, Makers
  <1>4. r.at = "open" /\ ~r.clash /\ r.todo # <<>> /\ r.todo[Len(r.todo)] = "css" /\ r \in RequestRow
    <2>1. submitted \in Seq({"index", "other", "bad"})
      BY SiteAssumed
    <2>2. r = [at |-> "open", of |-> past.begun + 1, todo |-> Site(slug)!FilesOf(submitted), linked |-> TRUE, clash |-> FALSE]
      BY <1>2 DEF Site!Request, Site!Sanitized
    <2> QED BY <1>3, <2>1, <2>2, FilesBegin DEF RequestRow
  <1>5. /\ past' = [past EXCEPT !.begun = past.begun + 1] /\ caller' = [caller EXCEPT ![w] = "deploy"]
        /\ job[w].at = "off" /\ UNCHANGED <<root, page, css, visitor, deploys>> /\ job' = [job EXCEPT ![w] = r]
    BY <1>1, <1>2 DEF Site!DeploySite, Site!Goto
  <1>6. /\ past' \in PastRow /\ past'.begun = past.begun + 1 /\ past'.torn = past.torn /\ past'.early = past.early
        /\ past'.clashed = past.clashed /\ past'.landings = past.landings /\ past'.failed = past.failed
        /\ past'.unlogged = past.unlogged /\ past'.answered = past.answered
    BY <1>3, <1>5 DEF PastRow
  <1>7. Grows /\ past'.begun # 0
    BY <1>3, <1>5, <1>6 DEF Grows, PastRow
  <1>8. RequestKept(r)'
    BY <1>4, <1>7 DEF RequestKept
  <1>9. RequestsKept' /\ job' \in [Makers -> RequestRow]
    BY <1>3, <1>4, <1>5, <1>7, <1>8, RequestStep DEF SiteInv
  <1>10. SitesTyped'
    BY <1>5, <1>6, <1>9 DEF SiteInv, SitesTyped
  <1>11. VisitsKept'
    BY <1>5, <1>6, <1>7 DEF SiteInv, VisitsKept
  <1>12. (page.of \in Origins)'
    <2>1. \A u \in Workers : u # w => job'[u] = job[u]
      BY <1>5 DEF SiteInv, SitesTyped, Makers
    <2>2. job[w].of = 0
      BY <1>3, <1>5 DEF SiteInv, RequestsKept, RequestKept
    <2> QED BY <1>5, <1>6, <2>1, <2>2 DEF SiteInv, Origins
  <1>13. Site(slug)!WholePages' /\ Site(slug)!HonestStatus'
    BY <1>5, <1>6 DEF SiteInv, Site!WholePages, Site!HonestStatus, Site!Torn
  <1>14. Site(slug)!StyledPages'
    BY <1>5 DEF SiteInv, Site!StyledPages
  <1> QED BY <1>9, <1>10, <1>11, <1>12, <1>13, <1>14 DEF SiteInv

\* A restart ends every request where it is.
LEMMA SiteRestart ==
  ASSUME NEW slug \in Slugs, SiteInv(slug), Site(slug)!Restart PROVE SiteInv(slug)'
  <1>1. /\ job' = [d \in Makers |-> IF job[d].at \in {"open", "rename"} THEN [job[d] EXCEPT !.at = "failed"] ELSE job[d]]
        /\ past' = Site(slug)!Faulty(past) /\ UNCHANGED <<root, page, css, caller, visitor, deploys>>
    BY DEF Site!Restart, Site!Deployers, Site!Landing, Makers
  <1>2. past \in PastRow
    BY DEF SiteInv, SitesTyped
  <1>3. /\ past' \in PastRow /\ past'.begun = past.begun /\ past'.torn = past.torn /\ past'.early = past.early
        /\ past'.clashed = past.clashed /\ past'.landings = past.landings /\ past'.failed = past.failed
        /\ past'.unlogged = past.unlogged /\ past'.answered = past.answered
    BY <1>1, <1>2 DEF PastRow, Site!Faulty
  <1>4. Grows
    BY <1>1, <1>3 DEF Grows
  <1>5. ASSUME NEW e \in Makers
        PROVE job'[e] \in RequestRow /\ RequestKept(job[e])' /\ job'[e].of = job[e].of /\ (job'[e].at # "off" => job[e].at # "off")
    <2>1. job[e] \in RequestRow /\ RequestKept(job[e])
      BY DEF SiteInv, SitesTyped, RequestsKept
    <2>2. CASE job[e].at \in {"open", "rename"}
      <3>1. PICK q : q = job'[e]
        OBVIOUS
      <3>2. q = [job[e] EXCEPT !.at = "failed"]
        BY <1>1, <2>2, <3>1
      <3>3. q \in RequestRow /\ q.at = "failed" /\ q.of = job[e].of /\ q.clash = job[e].clash
        BY <2>1, <3>2, AtChanges
      <3>4. RequestKept(q)'
        BY <2>1, <2>2, <3>3, <1>3 DEF RequestKept
      <3>5. RequestKept(job[e])'
        BY <3>1, <3>4 DEF RequestKept
      <3> QED BY <2>2, <3>1, <3>3, <3>5
    <2>3. CASE job[e].at \notin {"open", "rename"}
      <3>1. PICK q : q = job[e]
        OBVIOUS
      <3>2. job'[e] = q
        BY <1>1, <2>3, <3>1
      <3>3. RequestKept(q)'
        BY <2>1, <3>1, <1>4, RequestStays
      <3>4. RequestKept(job[e])'
        BY <3>2, <3>3 DEF RequestKept
      <3> QED BY <2>1, <3>1, <3>2, <3>4
    <2> QED BY <2>2, <2>3
  <1>6. RequestsKept'
    BY <1>3, <1>5 DEF RequestsKept, SiteInv, Makers
  <1>7. job' \in [Makers -> RequestRow]
    <2>1. DOMAIN job' = Makers /\ job' = [e \in Makers |-> job'[e]]
      BY <1>1
    <2> QED BY <2>1, <1>5
  <1>8. SitesTyped'
    BY <1>1, <1>3, <1>7 DEF SiteInv, SitesTyped
  <1>9. VisitsKept'
    BY <1>1, <1>3 DEF SiteInv, VisitsKept
  <1>10. (page.of \in Origins)'
    <2>1. \A w \in Workers : job'[w].of = job[w].of
      BY <1>5 DEF Makers
    <2>2. {job'[w].of : w \in Workers} = {job[w].of : w \in Workers}
      BY <2>1
    <2>3. Origins' = Origins
      BY <1>1, <1>3, <2>2 DEF Origins
    <2> QED BY <1>1, <2>3 DEF SiteInv
  <1>11. Site(slug)!WholePages' /\ Site(slug)!HonestStatus'
    BY <1>1, <1>3 DEF SiteInv, Site!WholePages, Site!HonestStatus, Site!Torn
  <1>12. Site(slug)!StyledPages'
    BY <1>1 DEF SiteInv, Site!StyledPages
  <1> QED BY <1>6, <1>8, <1>9, <1>10, <1>11, <1>12 DEF SiteInv

\* Every step of deployd, of the workers' web tools and of the visitors keeps it.
LEMMA SiteSteps ==
  ASSUME NEW slug \in Slugs, SiteInv(slug), Site(slug)!Next PROVE SiteInv(slug)'
  <1>1. ASSUME NEW d \in Makers, Site(slug)!Deployd(d) PROVE SiteInv(slug)'
    BY <1>1, SiteOpenFile, SiteRenameFile, SiteRejectPath DEF Site!Deployd
  <1>2. ASSUME NEW w \in Workers, Site(slug)!Web(w) PROVE SiteInv(slug)'
    BY <1>2, SiteGetDeployStatus, SiteGetSite, SiteDeploySite, SiteDeployAnswered, SiteDeployFailed, SiteLogDeploy DEF Site!Web
  <1>3. ASSUME NEW v \in Visitors, Site(slug)!LoadPage(v) \/ Site(slug)!LoadStyle(v) PROVE SiteInv(slug)'
    BY <1>3, SiteLoadPage, SiteLoadStyle
  <1> QED BY <1>1, <1>2, <1>3, SiteStartLanding, SiteLandingAnswered, SiteRestart
          DEF Site!Next, Site!Deployers, Site!Landing, Makers

\* The loop's steps and no step leave the sites as they are.
LEMMA SiteSame ==
  ASSUME NEW slug \in Slugs, SiteInv(slug), UNCHANGED siteVars, part' = part PROVE SiteInv(slug)'
  <1> USE DEF siteVars
  <1>1. SitesTyped' /\ VisitsKept' /\ (page.of \in Origins)'
    BY DEF SiteInv, SitesTyped, VisitsKept, Origins
  <1>2. RequestsKept'
    BY DEF SiteInv, RequestsKept, RequestKept
  <1> QED BY <1>1, <1>2 DEF SiteInv, Site!WholePages, Site!StyledPages, Site!HonestStatus, Site!Torn

\* Whatever is deployed at once and fails on the way: no visitor gets half a page unless two deploys met at a
\* file, whoever comes after an answered deploy gets its stylesheet, agents are told what is there, and the
\* page that is served is a deploy somebody was told of (publish.ts, server.ts, tools.ts).
THEOREM SiteStaysKept == Parts => []SiteKept
  <1> DEFINE Inv == \A slug \in Slugs : part = slug => SiteInv(slug)
  <1>1. InitParts => Inv
    BY SiteBegins DEF InitParts
  <1>2. Inv /\ [NextPart]_All => Inv'
    <2> SUFFICES ASSUME Inv, [NextPart]_All, NEW slug \in Slugs, part' = slug PROVE SiteInv(slug)'
      OBVIOUS
    <2>1. CASE Working(LoopNext)
      BY <2>1, WorkerToolsAssumption DEF Working
    <2>2. ASSUME NEW other \in Slugs, Serving(other, Site(other)!Next) PROVE SiteInv(slug)'
      <3>1. other = slug /\ part = slug
        BY <2>2 DEF Serving
      <3> QED BY <2>2, <3>1, SiteSteps DEF Serving
    <2>3. CASE UNCHANGED All
      BY <2>3, SiteSame DEF All
    <2> QED BY <2>1, <2>2, <2>3 DEF NextPart
  <1>3. Inv => SiteKept
    BY SiteFollows DEF SiteKept
  <1> QED BY <1>1, <1>2, <1>3, PTL DEF Parts

----------------------------------------------------------------------------
(* The loop and the shared tools. The invariant counts the copies of calls *)
(* at work by their kind, and says that a worker awaits one copy at most.  *)

Places == {"arrived", "count", "deliver", "row", "look", "mirror", "session", "open"}
AnyCall == [tool : Tools, args : Nat] \cup (UNION {CallsOf[w] : w \in Workers})
CopyRow == {c \in [at : Places, call : AnyCall, awaited : BOOLEAN] : c.at \in {"count", "deliver", "row"} => Mail(c.call)}
CopiesOf == [Workers -> Seq(CopyRow)]

\* The copies at work that are of a kind in K: where they are, and of which tool.
Kind(c) == <<c.at, c.call.tool>>
NoKind == <<"nowhere", "none">>
Held(C, K) == {p \in Workers \X Nat : p[2] \in DOMAIN C[p[1]] /\ Kind(C[p[1]][p[2]]) \in K}
One(k, K) == IF k \in K THEN 1 ELSE 0
\* From the copies C to D one goes that was of the kind left, and one comes of the kind come.
Goes(C, D, K, left, come) ==
  /\ IsFiniteSet(Held(C, K)) =>
       IsFiniteSet(Held(D, K)) /\ Cardinality(Held(D, K)) = Cardinality(Held(C, K)) - One(left, K) + One(come, K)
  /\ come \notin K => \A p \in Held(D, K) : \E q \in Held(C, K) : q[1] = p[1]

\* What RemoveAt leaves.
LEMMA RemovedSeq ==
  ASSUME NEW T, NEW s \in Seq(T), NEW i \in 1..Len(s)
  PROVE  /\ RemoveAt(s, i) \in Seq(T) /\ Len(RemoveAt(s, i)) = Len(s) - 1
         /\ \A j \in 1..(Len(s) - 1) : RemoveAt(s, i)[j] = IF j < i THEN s[j] ELSE s[j + 1]
  <1> DEFINE a == SubSeq(s, 1, i - 1)
             b == SubSeq(s, i + 1, Len(s))
  <1>1. Len(s) \in Nat /\ i \in Nat /\ i >= 1 /\ i <= Len(s) /\ \A j \in 1..Len(s) : s[j] \in T
    BY LenProperties, ElementOfSeq
  <1>2. a \in Seq(T) /\ Len(a) = i - 1 /\ \A j \in 1..(i - 1) : a[j] = s[j]
    <2>1. \A j \in 1..(i - 1) : s[j] \in T
      BY <1>1
    <2> QED BY <1>1, <2>1, SubSeqProperties
  <1>3. b \in Seq(T) /\ Len(b) = Len(s) - i /\ \A j \in 1..(Len(s) - i) : b[j] = s[i + j]
    <2>1. \A j \in (i + 1)..Len(s) : s[j] \in T
      BY <1>1
    <2>2. b \in Seq(T) /\ Len(b) = (IF i + 1 <= Len(s) THEN Len(s) - (i + 1) + 1 ELSE 0)
          /\ \A j \in 1..(Len(s) - (i + 1) + 1) : b[j] = s[i + 1 + j - 1]
      BY <1>1, <2>1, SubSeqProperties
    <2> QED BY <1>1, <2>2
  <1>4. RemoveAt(s, i) = a \o b
    BY DEF RemoveAt
  <1> HIDE DEF a, b
  <1>5. a \o b \in Seq(T) /\ Len(a \o b) = Len(s) - 1
    <2>1. a \in Seq(T) /\ b \in Seq(T) /\ Len(a) + Len(b) = Len(s) - 1
      BY <1>1, <1>2, <1>3
    <2> QED BY <2>1, ConcatProperties
  <1>6. \A j \in 1..(Len(s) - 1) : (a \o b)[j] = IF j <= i - 1 THEN a[j] ELSE b[j - (i - 1)]
    <2>1. \A j \in 1..(Len(a) + Len(b)) : (a \o b)[j] = IF j <= Len(a) THEN a[j] ELSE b[j - Len(a)]
      BY <1>2, <1>3, ConcatProperties
    <2>2. Len(a) + Len(b) = Len(s) - 1
      BY <1>1, <1>2, <1>3
    <2> QED BY <1>2, <2>1, <2>2
  <1>7. ASSUME NEW j \in 1..(Len(s) - 1) PROVE (a \o b)[j] = IF j < i THEN s[j] ELSE s[j + 1]
    BY <1>1, <1>2, <1>3, <1>6
  <1> QED BY <1>4, <1>5, <1>7

\* A copy that goes: its successors move up by one.
Less(C, w, i) == [C EXCEPT ![w] = RemoveAt(@, i)]
\* Of every kind it takes one away if it was of it.
LEMMA CopyGoes ==
  ASSUME NEW C \in CopiesOf, NEW w \in Workers, NEW i \in DOMAIN C[w], NEW D, D = Less(C, w, i), NEW K, NoKind \notin K
  PROVE  D \in CopiesOf /\ Goes(C, D, K, Kind(C[w][i]), NoKind)
  <1> DEFINE s == C[w]
             X == Held(C, K) \ {<<w, i>>}
             f == [p \in X |-> IF p[1] = w /\ p[2] > i THEN <<w, p[2] - 1>> ELSE p]
  <1>1. s \in Seq(CopyRow) /\ Len(s) \in Nat /\ DOMAIN s = 1..Len(s) /\ i \in 1..Len(s)
    BY DEF CopiesOf
  <1>2. RemoveAt(s, i) \in Seq(CopyRow) /\ Len(RemoveAt(s, i)) = Len(s) - 1
        /\ \A j \in 1..(Len(s) - 1) : RemoveAt(s, i)[j] = IF j < i THEN s[j] ELSE s[j + 1]
    BY <1>1, RemovedSeq
  <1>3. D \in CopiesOf /\ D[w] = RemoveAt(s, i) /\ \A v \in Workers : v # w => D[v] = C[v]
    BY <1>2 DEF CopiesOf, Less
  <1>4. DOMAIN D[w] = 1..(Len(s) - 1)
    BY <1>1, <1>2, <1>3, LenProperties
  <1>5. ASSUME NEW p \in X PROVE f[p] \in Held(D, K) /\ (p[1] = w => f[p] = <<w, IF p[2] > i THEN p[2] - 1 ELSE p[2]>> /\ p[2] # i)
                                  /\ (p[1] # w => f[p] = p) /\ p = <<p[1], p[2]>> /\ p[2] \in Nat /\ p[2] >= 1
    <2>1. p \in Workers \X Nat /\ p = <<p[1], p[2]>> /\ p[1] \in Workers /\ p[2] \in Nat /\ p[2] \in DOMAIN C[p[1]] /\ Kind(C[p[1]][p[2]]) \in K
      BY DEF Held
    <2>2. CASE p[1] # w
      <3>1. f[p] = p /\ D[p[1]] = C[p[1]] /\ p[2] >= 1
        <4>1. C[p[1]] \in Seq(CopyRow)
          BY <2>1 DEF CopiesOf
        <4> QED BY <2>1, <2>2, <1>3, <4>1, LenProperties
      <3> QED BY <2>1, <2>2, <3>1 DEF Held
    <2>3. CASE p[1] = w
      <3>1. p[2] # i /\ p[2] \in 1..Len(s)
        BY <2>1, <2>3, <1>1
      <3>2. CASE p[2] > i
        <4>1. f[p] = <<w, p[2] - 1>> /\ p[2] - 1 \in 1..(Len(s) - 1) /\ ~(p[2] - 1 < i)
          BY <1>1, <2>1, <2>3, <3>1, <3>2
        <4>2. D[w][p[2] - 1] = s[p[2]]
          BY <1>1, <1>2, <1>3, <2>1, <4>1
        <4> QED BY <1>1, <1>4, <2>1, <2>3, <3>1, <3>2, <4>1, <4>2 DEF Held
      <3>3. CASE ~(p[2] > i)
        <4>1. f[p] = <<w, p[2]>> /\ p[2] \in 1..(Len(s) - 1) /\ p[2] < i
          BY <1>1, <2>1, <2>3, <3>1, <3>3
        <4>2. D[w][p[2]] = s[p[2]]
          BY <1>1, <1>2, <1>3, <2>1, <4>1
        <4> QED BY <1>1, <1>4, <2>1, <2>3, <3>1, <3>3, <4>1, <4>2 DEF Held
      <3> QED BY <3>2, <3>3
    <2> QED BY <2>2, <2>3
  <1>6. ASSUME NEW q \in Held(D, K) PROVE \E p \in X : f[p] = q /\ p[1] = q[1]
    <2>1. q = <<q[1], q[2]>> /\ q[1] \in Workers /\ q[2] \in Nat /\ q[2] \in DOMAIN D[q[1]] /\ Kind(D[q[1]][q[2]]) \in K
      BY DEF Held
    <2>2. CASE q[1] # w
      <3>1. q \in Held(C, K) /\ q # <<w, i>>
        BY <2>1, <2>2, <1>3 DEF Held
      <3> QED BY <2>2, <3>1
    <2>3. CASE q[1] = w /\ q[2] < i
      <3>1. q \in Held(C, K) /\ q # <<w, i>> /\ ~(q[2] > i)
        <4>1. q[2] \in 1..(Len(s) - 1) /\ q[2] \in 1..Len(s)
          BY <2>1, <2>3, <1>1, <1>4
        <4>2. D[w][q[2]] = s[q[2]]
          BY <1>1, <1>2, <1>3, <2>3, <4>1
        <4> QED BY <1>1, <2>1, <2>3, <4>1, <4>2 DEF Held
      <3> QED BY <2>1, <2>3, <3>1
    <2>4. CASE q[1] = w /\ ~(q[2] < i)
      <3> DEFINE p == <<w, q[2] + 1>>
      <3>1. q[2] \in 1..(Len(s) - 1) /\ q[2] + 1 \in 1..Len(s) /\ q[2] + 1 > i /\ q[2] + 1 \in Nat
        BY <2>1, <2>4, <1>1, <1>4
      <3>2. D[w][q[2]] = s[q[2] + 1]
        BY <1>1, <1>2, <1>3, <2>4, <3>1
      <3>3. p \in X
        BY <1>1, <2>1, <2>4, <3>1, <3>2 DEF Held
      <3>4. f[p] = <<w, q[2] + 1 - 1>>
        BY <3>1, <3>3
      <3> QED BY <2>1, <2>4, <3>1, <3>3, <3>4
    <2> QED BY <2>1, <2>2, <2>3, <2>4
  <1>7. f \in Bijection(X, Held(D, K))
    <2>1. f \in [X -> Held(D, K)]
      BY <1>5
    <2>2. ASSUME NEW p \in X, NEW q \in X, f[p] = f[q] PROVE p = q
      BY <1>1, <1>5, <2>2
    <2>3. ASSUME NEW q \in Held(D, K) PROVE \E p \in X : f[p] = q
      BY <1>6
    <2> QED BY <2>1, <2>2, <2>3 DEF Bijection, Injection, Surjection, IsInjective
  <1>8. Goes(C, D, K, Kind(C[w][i]), NoKind)
    <2>1. ASSUME IsFiniteSet(Held(C, K))
          PROVE  IsFiniteSet(X) /\ Cardinality(X) = Cardinality(Held(C, K)) - One(Kind(C[w][i]), K)
      <3>1. <<w, i>> \in Held(C, K) <=> Kind(C[w][i]) \in K
        BY <1>1 DEF Held
      <3>2. IsFiniteSet(X) /\ Cardinality(X) = IF <<w, i>> \in Held(C, K) THEN Cardinality(Held(C, K)) - 1 ELSE Cardinality(Held(C, K))
        BY <2>1, FS_RemoveElement
      <3>3. Cardinality(Held(C, K)) \in Nat
        BY <2>1, FS_CardinalityType
      <3> QED BY <3>1, <3>2, <3>3 DEF One
    <2>2. ASSUME IsFiniteSet(Held(C, K))
          PROVE  IsFiniteSet(Held(D, K)) /\ Cardinality(Held(D, K)) = Cardinality(X)
      <3>1. ExistsBijection(X, Held(D, K))
        BY <1>7 DEF ExistsBijection
      <3> QED BY <2>1, <2>2, <3>1, FS_Bijection
    <2>3. ASSUME NEW q \in Held(D, K) PROVE \E p \in Held(C, K) : p[1] = q[1]
      BY <1>6
    <2>4. One(NoKind, K) = 0
      BY DEF One
    <2>5. ASSUME IsFiniteSet(Held(C, K)) PROVE Cardinality(Held(C, K)) - One(Kind(C[w][i]), K) \in Int
      BY <2>5, FS_CardinalityType DEF One
    <2>6. ASSUME IsFiniteSet(Held(C, K))
          PROVE  IsFiniteSet(Held(D, K))
                 /\ Cardinality(Held(D, K)) = Cardinality(Held(C, K)) - One(Kind(C[w][i]), K) + One(NoKind, K)
      BY <2>1, <2>2, <2>4, <2>5, <2>6
    <2> QED BY <2>3, <2>6 DEF Goes
  <1> QED BY <1>3, <1>8

\* A copy that comes is the last.
More(C, w, c) == [C EXCEPT ![w] = Append(@, c)]
\* Of every kind it adds one if it is of it.
LEMMA CopyComes ==
  ASSUME NEW C \in CopiesOf, NEW w \in Workers, NEW c \in CopyRow, NEW D, D = More(C, w, c), NEW K, NoKind \notin K
  PROVE  D \in CopiesOf /\ Goes(C, D, K, NoKind, Kind(c))
  <1> DEFINE s == C[w]
             n == Len(s) + 1
  <1>1. s \in Seq(CopyRow) /\ Len(s) \in Nat /\ DOMAIN s = 1..Len(s)
    BY DEF CopiesOf
  <1>2. D \in CopiesOf /\ D[w] = Append(s, c) /\ \A v \in Workers : v # w => D[v] = C[v]
    BY <1>1 DEF CopiesOf, More
  <1>3. DOMAIN D[w] = 1..n /\ D[w][n] = c /\ \A j \in 1..Len(s) : D[w][j] = s[j]
    BY <1>1, <1>2
  <1>4. Held(D, K) = IF Kind(c) \in K THEN Held(C, K) \cup {<<w, n>>} ELSE Held(C, K)
    <2>1. ASSUME NEW p \in Workers \X Nat, p # <<w, n>> PROVE p \in Held(D, K) <=> p \in Held(C, K)
      BY <2>1, <1>1, <1>2, <1>3 DEF Held
    <2>2. <<w, n>> \in Held(D, K) <=> Kind(c) \in K
      BY <1>1, <1>3 DEF Held
    <2>3. <<w, n>> \notin Held(C, K) /\ <<w, n>> \in Workers \X Nat
      BY <1>1 DEF Held
    <2>4. Held(D, K) \subseteq Workers \X Nat /\ Held(C, K) \subseteq Workers \X Nat
      BY DEF Held
    <2>5. PICK e : e = <<w, n>>
      OBVIOUS
    <2>6. /\ \A p \in Workers \X Nat : p # e => (p \in Held(D, K) <=> p \in Held(C, K))
          /\ e \in Held(D, K) <=> Kind(c) \in K
          /\ e \notin Held(C, K) /\ e \in Workers \X Nat
      BY <2>1, <2>2, <2>3, <2>5
    <2>7. Held(D, K) = IF Kind(c) \in K THEN Held(C, K) \cup {e} ELSE Held(C, K)
      BY <2>4, <2>6
    <2> QED BY <2>5, <2>7
  <1>5. <<w, n>> \notin Held(C, K)
    BY <1>1 DEF Held
  <1>6. ASSUME IsFiniteSet(Held(C, K))
        PROVE  IsFiniteSet(Held(D, K)) /\ Cardinality(Held(D, K)) = Cardinality(Held(C, K)) - One(NoKind, K) + One(Kind(c), K)
    <2>1. Cardinality(Held(C, K)) \in Nat /\ One(NoKind, K) = 0
      BY <1>6, FS_CardinalityType DEF One
    <2>2. CASE Kind(c) \in K
      <3>1. Held(D, K) = Held(C, K) \cup {<<w, n>>}
        BY <1>4, <2>2
      <3>2. IsFiniteSet(Held(C, K) \cup {<<w, n>>}) /\ Cardinality(Held(C, K) \cup {<<w, n>>}) = Cardinality(Held(C, K)) + 1
        BY <1>5, <1>6, FS_AddElement
      <3>3. IsFiniteSet(Held(D, K)) /\ Cardinality(Held(D, K)) = Cardinality(Held(C, K)) + 1
        BY <3>1, <3>2
      <3> QED BY <2>1, <2>2, <3>3 DEF One
    <2>3. CASE Kind(c) \notin K
      BY <1>4, <1>6, <2>1, <2>3 DEF One
    <2> QED BY <2>2, <2>3
  <1> QED BY <1>2, <1>4, <1>6 DEF Goes

\* A copy that moves on.
MovedTo(c, x) == [c EXCEPT !.at = x]
Moved(C, w, i, x) == [C EXCEPT ![w][i].at = x]
\* Of every kind it goes and comes.
LEMMA CopyMoves ==
  ASSUME NEW C \in CopiesOf, NEW w \in Workers, NEW i \in DOMAIN C[w], NEW x, MovedTo(C[w][i], x) \in CopyRow,
         NEW D, D = Moved(C, w, i, x), NEW K, NoKind \notin K
  PROVE  D \in CopiesOf /\ D[w][i] = MovedTo(C[w][i], x) /\ Goes(C, D, K, Kind(C[w][i]), <<x, C[w][i].call.tool>>)
  <1> DEFINE s == C[w]
             c == MovedTo(s[i], x)
             t == [s EXCEPT ![i] = c]
             y == <<x, C[w][i].call.tool>>
  <1>1. s \in Seq(CopyRow) /\ Len(s) \in Nat /\ DOMAIN s = 1..Len(s) /\ i \in 1..Len(s) /\ s[i] \in CopyRow
    BY ElementOfSeq, LenProperties DEF CopiesOf
  <1>2. c \in CopyRow /\ c.at = x /\ c.call = s[i].call
    BY <1>1 DEF CopyRow, MovedTo
  <1> HIDE DEF c
  <1>3. t \in Seq(CopyRow) /\ DOMAIN t = 1..Len(s) /\ t[i] = c /\ \A j \in 1..Len(s) : j # i => t[j] = s[j]
    BY <1>1, <1>2, ExceptSeq, LenProperties
  <1>4. D = [C EXCEPT ![w] = t]
    BY <1>1 DEF c, CopiesOf, MovedTo, Moved
  <1> HIDE DEF t
  <1>5. D \in CopiesOf /\ D[w] = t /\ \A v \in Workers : v # w => D[v] = C[v]
    BY <1>3, <1>4 DEF CopiesOf
  <1>6. Kind(c) = y
    BY <1>2 DEF Kind
  <1>7. \A p \in Workers \X Nat : p # <<w, i>> => (p \in Held(D, K) <=> p \in Held(C, K))
    <2> SUFFICES ASSUME NEW p \in Workers \X Nat, p # <<w, i>> PROVE p \in Held(D, K) <=> p \in Held(C, K)
      OBVIOUS
    <2>1. p = <<p[1], p[2]>> /\ p[1] \in Workers
      OBVIOUS
    <2>2. CASE p[1] # w
      BY <1>5, <2>1, <2>2 DEF Held
    <2>3. CASE p[1] = w
      BY <1>1, <1>3, <1>5, <2>1, <2>3 DEF Held
    <2> QED BY <2>2, <2>3
  <1>8. (<<w, i>> \in Held(D, K) <=> y \in K) /\ (<<w, i>> \in Held(C, K) <=> Kind(s[i]) \in K)
    <2>1. D[w][i] = c /\ i \in DOMAIN D[w] /\ <<w, i>> \in Workers \X Nat /\ <<w, i>>[1] = w /\ <<w, i>>[2] = i
      BY <1>1, <1>3, <1>5
    <2> QED BY <1>1, <1>6, <2>1 DEF Held
  <1>9. Held(C, K) \ {<<w, i>>} = Held(D, K) \ {<<w, i>>}
    BY <1>7 DEF Held
  <1>10. ASSUME IsFiniteSet(Held(C, K))
         PROVE  IsFiniteSet(Held(D, K)) /\ Cardinality(Held(D, K)) = Cardinality(Held(C, K)) - One(Kind(s[i]), K) + One(y, K)
    <2> DEFINE R == Held(C, K) \ {<<w, i>>}
    <2>1. IsFiniteSet(R) /\ Cardinality(R) = Cardinality(Held(C, K)) - One(Kind(s[i]), K) /\ Cardinality(Held(C, K)) \in Nat
          /\ Cardinality(R) \in Nat
      <3>1. IsFiniteSet(R) /\ Cardinality(R) = IF <<w, i>> \in Held(C, K) THEN Cardinality(Held(C, K)) - 1 ELSE Cardinality(Held(C, K))
        BY <1>10, FS_RemoveElement
      <3>2. Cardinality(Held(C, K)) \in Nat /\ Cardinality(R) \in Nat
        BY <1>10, <3>1, FS_CardinalityType
      <3> HIDE DEF R
      <3> QED BY <1>8, <3>1, <3>2 DEF One
    <2>2. Held(D, K) = IF y \in K THEN R \cup {<<w, i>>} ELSE R
      BY <1>8, <1>9
    <2>3. <<w, i>> \notin R
      OBVIOUS
    <2> HIDE DEF R
    <2>4. CASE y \in K
      <3>1. Held(D, K) = R \cup {<<w, i>>}
        BY <2>2, <2>4
      <3>2. IsFiniteSet(R \cup {<<w, i>>}) /\ Cardinality(R \cup {<<w, i>>}) = Cardinality(R) + 1
        BY <2>1, <2>3, FS_AddElement
      <3>3. IsFiniteSet(Held(D, K)) /\ Cardinality(Held(D, K)) = Cardinality(R) + 1
        BY <3>1, <3>2
      <3> QED BY <2>1, <2>4, <3>3 DEF One
    <2>5. CASE y \notin K
      BY <2>1, <2>2, <2>5 DEF One
    <2> QED BY <2>4, <2>5
  <1>11. ASSUME y \notin K, NEW p \in Held(D, K) PROVE \E q \in Held(C, K) : q[1] = p[1]
    BY <1>7, <1>8, <1>11 DEF Held
  <1> QED BY <1>3, <1>5, <1>10, <1>11 DEF Goes, c

\* The loop's locals, and what they have to do with the copies: one at most is awaited, by a worker that waits
\* for the answer to this very call.
WorkerRow == [at : {"think", "wait", "run"} \cup Ended, llm : BOOLEAN, script : Seq(AnyCall), step : Nat, recent : Seq(AnyCall),
              limited : SUBSET Tools, call : AnyCall \cup {NoCall}, tries : Nat]
StoryRow == [lost : Nat, owed : Int, cold : Int, crossed : SUBSET {"mail", "inbox", "browser"}]
Waits(r) == r.at = "wait" => r.call \in AnyCall
LoopTyped ==
  /\ copies \in CopiesOf /\ worker \in [Workers -> WorkerRow] /\ \A w \in Workers : Waits(worker[w])
  /\ mailbox \in [rows : Nat, in : Nat, mirrored : Nat] /\ story \in StoryRow
Unheard(s) == \A j \in DOMAIN s : ~s[j].awaited
Heeds(s, r) == \A j \in DOMAIN s : s[j].awaited =>
  r.at = "wait" /\ s[j].call = r.call /\ \A k \in DOMAIN s : s[k].awaited => k = j
LoopKept == LoopTyped /\ \A w \in Workers : Heeds(copies[w], worker[w])

\* A call is of one of the tools.
LEMMA CallTools ==
  ASSUME NEW c \in AnyCall PROVE c.tool \in Tools
  <1>1. CASE c \in [tool : Tools, args : Nat]
    BY <1>1
  <1>2. ASSUME NEW w \in Workers, c \in CallsOf[w] PROVE c.tool \in Tools
    BY <1>2, WorkerLoopAssumption
  <1> QED BY <1>1, <1>2 DEF AnyCall

\* One worker's locals and copies change.
LEMMA OneChanges ==
  ASSUME LoopKept, NEW w \in Workers, NEW s \in Seq(CopyRow), copies' = [copies EXCEPT ![w] = s],
         NEW r \in WorkerRow, worker' = [worker EXCEPT ![w] = r], Waits(r), Heeds(s, r),
         mailbox' \in [rows : Nat, in : Nat, mirrored : Nat], story' \in StoryRow
  PROVE  LoopKept'
  <1>1. copies' \in CopiesOf /\ copies'[w] = s /\ \A v \in Workers : v # w => copies'[v] = copies[v]
    BY DEF LoopKept, LoopTyped, CopiesOf
  <1>2. worker' \in [Workers -> WorkerRow] /\ worker'[w] = r /\ \A v \in Workers : v # w => worker'[v] = worker[v]
    BY DEF LoopKept, LoopTyped
  <1>3. ASSUME NEW v \in Workers PROVE Waits(worker'[v]) /\ Heeds(copies'[v], worker'[v])
    BY <1>1, <1>2 DEF LoopKept, LoopTyped
  <1>4. ASSUME NEW v \in Workers PROVE Waits(worker[v])' /\ Heeds(copies[v], worker[v])'
    BY <1>3 DEF Waits, Heeds
  <1> QED BY <1>1, <1>2, <1>4 DEF LoopKept, LoopTyped

\* The kinds of change.
LEMMA UnheardHeeds ==
  ASSUME NEW s, Unheard(s), NEW r PROVE Heeds(s, r)
  BY DEF Unheard, Heeds
\* a copy answered,
LEMMA HeedsRemoved ==
  ASSUME NEW s \in Seq(CopyRow), NEW i \in DOMAIN s, NEW r, Heeds(s, r)
  PROVE  /\ RemoveAt(s, i) \in Seq(CopyRow) /\ Heeds(RemoveAt(s, i), r)
         /\ s[i].awaited => Unheard(RemoveAt(s, i))
  <1>1. Len(s) \in Nat /\ DOMAIN s = 1..Len(s) /\ i \in 1..Len(s)
    OBVIOUS
  <1> DEFINE t == RemoveAt(s, i)
             f(j) == IF j < i THEN j ELSE j + 1
  <1>2. t \in Seq(CopyRow) /\ Len(t) = Len(s) - 1 /\ \A j \in 1..(Len(s) - 1) : t[j] = IF j < i THEN s[j] ELSE s[j + 1]
    BY <1>1, RemovedSeq
  <1> HIDE DEF t
  <1>3. DOMAIN t = 1..(Len(s) - 1)
    BY <1>2, LenProperties
  <1>4. ASSUME NEW j \in DOMAIN t PROVE t[j] = s[f(j)] /\ f(j) \in DOMAIN s /\ f(j) # i
    BY <1>1, <1>2, <1>3
  <1>5. ASSUME NEW j \in DOMAIN t, NEW k \in DOMAIN t, f(j) = f(k) PROVE j = k
    BY <1>1, <1>3, <1>5
  <1> HIDE DEF f
  <1>6. Heeds(t, r)
    <2> SUFFICES ASSUME NEW j \in DOMAIN t, t[j].awaited
                 PROVE  r.at = "wait" /\ t[j].call = r.call /\ \A k \in DOMAIN t : t[k].awaited => k = j
      BY DEF Heeds
    <2>1. s[f(j)].awaited /\ f(j) \in DOMAIN s /\ t[j].call = s[f(j)].call
      BY <1>4
    <2>2. r.at = "wait" /\ s[f(j)].call = r.call /\ \A k \in DOMAIN s : s[k].awaited => k = f(j)
      BY <2>1 DEF Heeds
    <2>3. ASSUME NEW k \in DOMAIN t, t[k].awaited PROVE k = j
      <3>1. s[f(k)].awaited /\ f(k) \in DOMAIN s
        BY <1>4, <2>3
      <3> QED BY <1>5, <2>2, <3>1
    <2> QED BY <2>1, <2>2, <2>3
  <1>7. ASSUME s[i].awaited PROVE Unheard(t)
    BY <1>1, <1>4, <1>7 DEF Heeds, Unheard
  <1> QED BY <1>2, <1>6, <1>7 DEF t
\* a copy sent,
LEMMA HeedsAdded ==
  ASSUME NEW s \in Seq(CopyRow), Unheard(s), NEW c \in CopyRow, NEW r, r.at = "wait", c.call = r.call
  PROVE  Append(s, c) \in Seq(CopyRow) /\ Heeds(Append(s, c), r)
  <1>1. Len(s) \in Nat /\ DOMAIN s = 1..Len(s)
    OBVIOUS
  <1>2. Append(s, c) \in Seq(CopyRow) /\ DOMAIN Append(s, c) = 1..(Len(s) + 1) /\ Append(s, c)[Len(s) + 1] = c
        /\ \A j \in 1..Len(s) : Append(s, c)[j] = s[j]
    OBVIOUS
  <1>3. \A j \in DOMAIN Append(s, c) : Append(s, c)[j].awaited => j = Len(s) + 1
    BY <1>1, <1>2 DEF Unheard
  <1> QED BY <1>1, <1>2, <1>3 DEF Heeds
\* a copy moved on.
LEMMA HeedsMoved ==
  ASSUME NEW s \in Seq(CopyRow), NEW i \in DOMAIN s, NEW x, MovedTo(s[i], x) \in CopyRow, NEW r, Heeds(s, r)
  PROVE  [s EXCEPT ![i].at = x] \in Seq(CopyRow) /\ Heeds([s EXCEPT ![i].at = x], r)
  <1> DEFINE c == MovedTo(s[i], x)
             t == [s EXCEPT ![i].at = x]
  <1>1. Len(s) \in Nat /\ DOMAIN s = 1..Len(s) /\ i \in 1..Len(s) /\ s[i] \in CopyRow
    BY ElementOfSeq
  <1>2. c.awaited = s[i].awaited /\ c.call = s[i].call
    BY <1>1 DEF CopyRow, MovedTo
  <1>3. t = [s EXCEPT ![i] = c]
    BY DEF MovedTo
  <1> HIDE DEF c
  <1>4. t \in Seq(CopyRow) /\ DOMAIN t = DOMAIN s /\ t[i] = c /\ \A j \in DOMAIN s : j # i => t[j] = s[j]
    BY <1>1, <1>3, ExceptSeq, LenProperties DEF c
  <1> HIDE DEF t
  <1>5. \A j \in DOMAIN s : t[j].awaited = s[j].awaited /\ t[j].call = s[j].call
    BY <1>2, <1>4
  <1>6. Heeds(t, r)
    BY <1>4, <1>5 DEF Heeds
  <1> QED BY <1>4, <1>6 DEF t

Ats == {"think", "wait", "run"} \cup Ended
\* Rows stay rows: where the worker is,
LEMMA AtRow ==
  ASSUME NEW r \in WorkerRow, NEW x \in Ats
  PROVE  [r EXCEPT !.at = x] \in WorkerRow /\ [r EXCEPT !.at = x].at = x /\ [r EXCEPT !.at = x].call = r.call
  BY DEF WorkerRow, Ats
WithCall(r, c) == [r EXCEPT !.call = c]
WithTries(r, n) == [r EXCEPT !.tries = n]
\* the call it waits for,
LEMMA CallRow ==
  ASSUME NEW r \in WorkerRow, NEW c, c \in AnyCall \cup {NoCall}
  PROVE  WithCall(r, c) \in WorkerRow /\ WithCall(r, c).at = r.at /\ WithCall(r, c).call = c
  BY DEF WorkerRow, WithCall
\* a call of its own,
LEMMA CallRowWith ==
  ASSUME NEW r \in WorkerRow, NEW c \in AnyCall
  PROVE  WithCall(r, c) \in WorkerRow /\ WithCall(r, c).at = r.at /\ WithCall(r, c).call = c
  <1>1. c \in AnyCall \cup {NoCall}
    OBVIOUS
  <1> QED BY <1>1, CallRow
\* its retries,
LEMMA TriesRow ==
  ASSUME NEW r \in WorkerRow, NEW n \in Nat
  PROVE  WithTries(r, n) \in WorkerRow /\ WithTries(r, n).at = r.at /\ WithTries(r, n).call = r.call
  BY DEF WorkerRow, WithTries
\* a fresh worker,
LEMMA FreshRow == Fresh \in WorkerRow
  <1>1. <<>> \in Seq(AnyCall)
    BY EmptySeq
  <1> QED BY <1>1 DEF Fresh, WorkerRow
\* and one that goes on.
LEMMA RestRow ==
  ASSUME LoopTyped, NEW w \in Workers PROVE Rest(w) \in WorkerRow /\ Rest(w).at = "think"
  <1>1. PICK r \in WorkerRow : r = worker[w]
    BY DEF LoopTyped
  <1>2. PICK a \in WorkerRow : a = [r EXCEPT !.at = "think"] /\ a.at = "think"
    BY AtRow DEF Ats
  <1>3. PICK b \in WorkerRow : b = WithCall(a, NoCall) /\ b.at = "think"
    <2>1. PICK c : c = NoCall
      OBVIOUS
    <2>2. c \in AnyCall \cup {NoCall}
      BY <2>1
    <2>3. WithCall(a, c) \in WorkerRow /\ WithCall(a, c).at = a.at
      BY <2>2, CallRow
    <2> QED BY <1>2, <2>1, <2>3
  <1>4. PICK c \in WorkerRow : c = WithTries(b, 0) /\ c.at = "think"
    BY <1>3, TriesRow
  <1>5. Rest(w) = [[[r EXCEPT !.at = "think"] EXCEPT !.call = NoCall] EXCEPT !.tries = 0]
    BY <1>1 DEF Rest
  <1>6. Rest(w) = c
    BY <1>2, <1>3, <1>4, <1>5 DEF WithCall, WithTries
  <1> QED BY <1>4, <1>6
Answers == {"ok", "error", "limited", "stop"}
\* An answer is heard: the worker waits no more.
LEMMA HeardRow ==
  ASSUME LoopTyped, NEW w \in Workers, worker[w].at = "wait", NEW x \in Answers
  PROVE  Heard(w, x) \in WorkerRow /\ Heard(w, x).at # "wait"
  <1>1. PICK r \in WorkerRow : r = worker[w]
    BY DEF LoopTyped
  <1>2. r.call.tool \in Tools
    BY <1>1, CallTools DEF LoopTyped, Waits
  <1> DEFINE a == [Fresh EXCEPT !.at = "stopped"]
             b == [Rest(w) EXCEPT !.limited = @ \cup {r.call.tool}]
             c == [r EXCEPT !.at = "run"]
             d == [Fresh EXCEPT !.at = "failed"]
             e == Rest(w)
  <1>3. a \in WorkerRow /\ a.at = "stopped" /\ d \in WorkerRow /\ d.at = "failed"
    BY FreshRow, AtRow DEF Ats, Ended
  <1>4. c \in WorkerRow /\ c.at = "run"
    BY AtRow DEF Ats
  <1>5. e \in WorkerRow /\ e.at = "think"
    BY RestRow
  <1>6. b \in WorkerRow /\ b.at = "think"
    <2>1. PICK q \in WorkerRow : q = Rest(w)
      BY <1>5
    <2>2. [q EXCEPT !.limited = @ \cup {r.call.tool}] \in WorkerRow /\ [q EXCEPT !.limited = @ \cup {r.call.tool}].at = q.at
      BY <1>2 DEF WorkerRow
    <2> QED BY <1>5, <2>1, <2>2
  <1>7. Heard(w, x) \in {a, b, c, d, e}
    <2> HIDE DEF e
    <2> QED BY <1>1 DEF Heard, e
  <1> HIDE DEF a, b, c, d, e
  <1> QED BY <1>3, <1>4, <1>5, <1>6, <1>7
\* A failed call: it waits for the retry, or waits no more.
LEMMA RetriedRow ==
  ASSUME LoopTyped, NEW w \in Workers, worker[w].at = "wait"
  PROVE  /\ Retried(w) \in WorkerRow
         /\ MayRetry(w) => Retried(w).at = "wait" /\ Retried(w).call = worker[w].call
         /\ ~MayRetry(w) => Retried(w).at # "wait"
  <1>1. CASE ~MayRetry(w)
    BY <1>1, HeardRow DEF Retried, Answers
  <1>2. CASE MayRetry(w)
    <2>1. PICK r \in WorkerRow : r = worker[w]
      BY DEF LoopTyped
    <2>2. WithTries(r, r.tries + 1) \in WorkerRow /\ WithTries(r, r.tries + 1).at = r.at /\ WithTries(r, r.tries + 1).call = r.call
      <3>1. PICK n \in Nat : n = r.tries + 1
        BY DEF WorkerRow
      <3> QED BY <3>1, TriesRow
    <2>3. Retried(w) = WithTries(r, r.tries + 1)
      BY <1>2, <2>1 DEF Retried, WithTries
    <2> QED BY <1>2, <2>1, <2>2, <2>3
  <1> QED BY <1>1, <1>2

\* Whoever does not wait is awaited nowhere.
LEMMA NotWaiting ==
  ASSUME LoopKept, NEW w \in Workers, worker[w].at # "wait" PROVE Unheard(copies[w])
  BY DEF LoopKept, Heeds, Unheard
\* A step of the loop that sends nothing.
LEMMA OneChangesNot ==
  ASSUME LoopKept, NEW w \in Workers, UNCHANGED copies, worker[w].at # "wait",
         NEW r \in WorkerRow, worker' = [worker EXCEPT ![w] = r], r.at # "wait",
         UNCHANGED <<mailbox, story>>
  PROVE  LoopKept'
  <1>1. copies[w] \in Seq(CopyRow) /\ copies' = [copies EXCEPT ![w] = copies[w]]
    BY DEF LoopKept, LoopTyped, CopiesOf
  <1>2. Heeds(copies[w], r) /\ Waits(r)
    BY NotWaiting, UnheardHeeds DEF Waits
  <1>3. mailbox' \in [rows : Nat, in : Nat, mirrored : Nat] /\ story' \in StoryRow
    BY DEF LoopKept, LoopTyped
  <1> QED BY <1>1, <1>2, <1>3, OneChanges

\* The gateway answers a copy, or moves it on: of the kinds, one goes, and one comes.
LEMMA AnswersOne ==
  ASSUME LoopKept, NEW w \in Workers, NEW i \in DOMAIN copies[w], NEW x \in Answers, CopyAnswered(w, i, x),
         mailbox' \in [rows : Nat, in : Nat, mirrored : Nat], story' \in StoryRow
  PROVE  LoopKept'
  <1>1. copies[w] \in Seq(CopyRow) /\ Heeds(copies[w], worker[w]) /\ worker[w] \in WorkerRow /\ Waits(worker[w]) /\ LoopTyped
    BY DEF LoopKept, LoopTyped, CopiesOf
  <1> DEFINE t == RemoveAt(copies[w], i)
  <1>2. t \in Seq(CopyRow) /\ Heeds(t, worker[w]) /\ (copies[w][i].awaited => Unheard(t))
    BY <1>1, HeedsRemoved
  <1>3. copies' = [copies EXCEPT ![w] = t]
    BY DEF CopyAnswered
  <1> HIDE DEF t
  <1>4. CASE copies[w][i].awaited
    <2>1. worker[w].at = "wait"
      BY <1>1, <1>4 DEF Heeds
    <2>2. PICK r \in WorkerRow : r = Heard(w, x) /\ r.at # "wait"
      BY <1>1, <2>1, HeardRow
    <2>3. worker' = [worker EXCEPT ![w] = r]
      BY <1>4, <2>2 DEF CopyAnswered, Becomes
    <2>4. Heeds(t, r) /\ Waits(r)
      BY <1>2, <1>4, <2>2, UnheardHeeds DEF Waits
    <2> QED BY <1>2, <1>3, <2>3, <2>4, OneChanges
  <1>5. CASE ~copies[w][i].awaited
    <2>1. worker' = [worker EXCEPT ![w] = worker[w]]
      BY <1>5 DEF CopyAnswered, Becomes
    <2> QED BY <1>1, <1>2, <1>3, <2>1, OneChanges
  <1> QED BY <1>4, <1>5
\* Of every kind, the copy answered goes;
LEMMA AnswerGoes ==
  ASSUME LoopKept, NEW w \in Workers, NEW i \in DOMAIN copies[w], NEW x, CopyAnswered(w, i, x), NEW K, NoKind \notin K
  PROVE  Goes(copies, copies', K, Kind(copies[w][i]), NoKind)
  <1>1. copies \in CopiesOf /\ copies' = Less(copies, w, i)
    BY DEF LoopKept, LoopTyped, CopyAnswered, Less
  <1> QED BY <1>1, CopyGoes
\* a copy is moved on,
LEMMA MovesOne ==
  ASSUME LoopKept, NEW w \in Workers, NEW i \in DOMAIN copies[w], NEW x, Moves(w, i, x), MovedTo(copies[w][i], x) \in CopyRow,
         UNCHANGED worker, mailbox' \in [rows : Nat, in : Nat, mirrored : Nat], story' \in StoryRow
  PROVE  LoopKept'
  <1>1. copies[w] \in Seq(CopyRow) /\ Heeds(copies[w], worker[w]) /\ worker[w] \in WorkerRow /\ Waits(worker[w])
    BY DEF LoopKept, LoopTyped, CopiesOf
  <1> DEFINE t == [copies[w] EXCEPT ![i].at = x]
  <1>2. t \in Seq(CopyRow) /\ Heeds(t, worker[w])
    BY <1>1, HeedsMoved
  <1>3. copies' = [copies EXCEPT ![w] = t]
    BY DEF Moves, LoopKept, LoopTyped, CopiesOf
  <1>4. worker' = [worker EXCEPT ![w] = worker[w]]
    BY DEF LoopKept, LoopTyped
  <1> HIDE DEF t
  <1> QED BY <1>1, <1>2, <1>3, <1>4, OneChanges
\* and of every kind, it goes and comes.
LEMMA MoveGoes ==
  ASSUME LoopKept, NEW w \in Workers, NEW i \in DOMAIN copies[w], NEW x, Moves(w, i, x), MovedTo(copies[w][i], x) \in CopyRow,
         NEW K, NoKind \notin K
  PROVE  Goes(copies, copies', K, Kind(copies[w][i]), <<x, copies[w][i].call.tool>>) /\ copies'[w][i] = MovedTo(copies[w][i], x)
  <1>1. copies \in CopiesOf
    BY DEF LoopKept, LoopTyped
  <1>2. PICK D : D = copies'
    OBVIOUS
  <1>3. D = Moved(copies, w, i, x)
    BY <1>2 DEF Moves, Moved
  <1>4. D[w][i] = MovedTo(copies[w][i], x) /\ Goes(copies, D, K, Kind(copies[w][i]), <<x, copies[w][i].call.tool>>)
    BY <1>1, <1>3, CopyMoves
  <1> QED BY <1>2, <1>4

\* The loop sends a call: a copy comes.
LEMMA NewCopy ==
  ASSUME NEW c \in AnyCall PROVE Copy(c) \in CopyRow /\ Kind(Copy(c)) = <<"arrived", c.tool>> /\ Copy(c).call = c
  BY DEF Copy, CopyRow, Kind, Places
\* The call is sent: the worker waits for this copy alone.
LEMMA SendsOne ==
  ASSUME LoopKept, NEW w \in Workers, NEW c \in AnyCall, worker[w].at # "wait", Sends(w, c),
         NEW r \in WorkerRow, worker' = [worker EXCEPT ![w] = r], r.at = "wait", r.call = c,
         UNCHANGED mailbox, story' \in StoryRow
  PROVE  /\ LoopKept'
         /\ \A K : NoKind \notin K => Goes(copies, copies', K, NoKind, <<"arrived", c.tool>>)
  <1>1. copies[w] \in Seq(CopyRow) /\ copies \in CopiesOf /\ mailbox' \in [rows : Nat, in : Nat, mirrored : Nat]
    BY DEF LoopKept, LoopTyped, CopiesOf
  <1>2. PICK k \in CopyRow : k = Copy(c) /\ k.call = c /\ Kind(k) = <<"arrived", c.tool>>
    BY NewCopy
  <1>3. copies' = [copies EXCEPT ![w] = Append(copies[w], k)]
    BY <1>2 DEF Sends
  <1>4. Append(copies[w], k) \in Seq(CopyRow) /\ Heeds(Append(copies[w], k), r) /\ Waits(r)
    BY <1>1, <1>2, NotWaiting, HeedsAdded DEF Waits
  <1>5. LoopKept'
    BY <1>1, <1>3, <1>4, OneChanges
  <1>6. ASSUME NEW K, NoKind \notin K PROVE Goes(copies, copies', K, NoKind, <<"arrived", c.tool>>)
    <2>1. copies' = More(copies, w, k)
      BY <1>3 DEF More
    <2>2. Goes(copies, copies', K, NoKind, Kind(k))
      BY <1>1, <1>6, <2>1, CopyComes
    <2> QED BY <1>2, <2>2
  <1> QED BY <1>5, <1>6

\* One copy goes, then another comes.
LEMMA GoesTwice ==
  ASSUME NEW C, NEW D, NEW E, NEW K, NoKind \notin K, NEW k, NEW c, Goes(C, D, K, k, NoKind), Goes(D, E, K, NoKind, c)
  PROVE  Goes(C, E, K, k, c)
  <1>1. One(NoKind, K) = 0
    BY DEF One
  <1>2. ASSUME IsFiniteSet(Held(C, K))
        PROVE  IsFiniteSet(Held(E, K)) /\ Cardinality(Held(E, K)) = Cardinality(Held(C, K)) - One(k, K) + One(c, K)
    <2>1. IsFiniteSet(Held(D, K)) /\ Cardinality(Held(D, K)) = Cardinality(Held(C, K)) - One(k, K) + One(NoKind, K)
      BY <1>2 DEF Goes
    <2>2. IsFiniteSet(Held(E, K)) /\ Cardinality(Held(E, K)) = Cardinality(Held(D, K)) - One(NoKind, K) + One(c, K)
      BY <2>1 DEF Goes
    <2>3. Cardinality(Held(C, K)) \in Nat /\ One(k, K) \in Nat /\ One(c, K) \in Nat
      BY <1>2, FS_CardinalityType DEF One
    <2> QED BY <1>1, <2>1, <2>2, <2>3
  <1>3. c \notin K => \A p \in Held(E, K) : \E q \in Held(C, K) : q[1] = p[1]
    BY DEF Goes
  <1> QED BY <1>2, <1>3 DEF Goes

\* None goes and none comes when the copies of a kind are the same.
LEMMA NothingGoes ==
  ASSUME NEW C, NEW D, NEW K, NoKind \notin K, Held(D, K) = Held(C, K) PROVE Goes(C, D, K, NoKind, NoKind)
  <1>1. One(NoKind, K) = 0
    BY DEF One
  <1>2. ASSUME IsFiniteSet(Held(C, K)) PROVE Cardinality(Held(C, K)) = Cardinality(Held(C, K)) - 0 + 0
    <2>1. Cardinality(Held(C, K)) \in Nat
      BY <1>2, FS_CardinalityType
    <2> QED BY <2>1
  <1> QED BY <1>1, <1>2 DEF Goes

\* Nobody hears what a worker's copies answer: nothing goes and nothing comes.
Forgotten(c) == [c EXCEPT !.awaited = FALSE]
\* Their kinds stay.
LEMMA Forsaken ==
  ASSUME NEW C \in CopiesOf, NEW w \in Workers, NEW s, s = [i \in DOMAIN C[w] |-> Forgotten(C[w][i])],
         NEW D, D = [C EXCEPT ![w] = s], NEW K, NoKind \notin K
  PROVE  s \in Seq(CopyRow) /\ Unheard(s) /\ D \in CopiesOf /\ Goes(C, D, K, NoKind, NoKind)
  <1>1. C[w] \in Seq(CopyRow) /\ Len(C[w]) \in Nat /\ DOMAIN C[w] = 1..Len(C[w])
    BY DEF CopiesOf
  <1>2. ASSUME NEW i \in DOMAIN C[w]
        PROVE  s[i] \in CopyRow /\ ~s[i].awaited /\ Kind(s[i]) = Kind(C[w][i])
    <2>1. C[w][i] \in CopyRow
      BY <1>1, ElementOfSeq
    <2>2. PICK c \in CopyRow : c = C[w][i]
      BY <2>1
    <2>3. Forgotten(c) \in CopyRow /\ ~Forgotten(c).awaited /\ Forgotten(c).at = c.at /\ Forgotten(c).call = c.call
      BY DEF CopyRow, Forgotten
    <2> QED BY <2>2, <2>3 DEF Kind
  <1>3. s \in Seq(CopyRow) /\ DOMAIN s = DOMAIN C[w]
    <2>1. PICK n \in Nat : n = Len(C[w])
      BY <1>1
    <2>2. DOMAIN s = 1..n
      BY <1>1, <2>1
    <2>3. s \in [1..n -> CopyRow]
      BY <1>1, <1>2, <2>1
    <2>4. s \in Seq(CopyRow)
      BY <2>3
    <2> QED BY <1>1, <2>1, <2>2, <2>4
  <1>4. Unheard(s)
    BY <1>2, <1>3 DEF Unheard
  <1>5. D \in CopiesOf /\ D[w] = s /\ \A v \in Workers : v # w => D[v] = C[v]
    BY <1>3 DEF CopiesOf
  <1>6. Held(D, K) = Held(C, K)
    <2>1. ASSUME NEW p \in Workers \X Nat PROVE p \in Held(D, K) <=> p \in Held(C, K)
      <3>1. p[1] \in Workers
        OBVIOUS
      <3> QED BY <1>2, <1>3, <1>5, <3>1 DEF Held
    <2> QED BY <2>1 DEF Held
  <1>7. Goes(C, D, K, NoKind, NoKind)
    BY <1>6, NothingGoes
  <1> QED BY <1>3, <1>4, <1>5, <1>7

\* After a reset the call is made again, if it may be: a copy comes, and is awaited.
Again1(w) == IF MayRetry(w) THEN <<"arrived", worker[w].call.tool>> ELSE NoKind
\* The copy made again is the one awaited.
LEMMA RetriesOne ==
  ASSUME LoopKept, NEW w \in Workers, worker[w].at = "wait", NEW C \in CopiesOf, Unheard(C[w]),
         \A v \in Workers : v # w => C[v] = copies[v],
         copies' = [C EXCEPT ![w] = @ \o Again(w)], worker' = [worker EXCEPT ![w] = Retried(w)],
         UNCHANGED mailbox, story' \in StoryRow
  PROVE  LoopKept' /\ \A K : NoKind \notin K => Goes(C, copies', K, NoKind, Again1(w))
  <1>1. C[w] \in Seq(CopyRow) /\ mailbox' \in [rows : Nat, in : Nat, mirrored : Nat] /\ LoopTyped /\ worker[w].call \in AnyCall
    BY DEF LoopKept, LoopTyped, CopiesOf, Waits
  <1>2. PICK r \in WorkerRow : /\ r = Retried(w)
                               /\ MayRetry(w) => r.at = "wait" /\ r.call = worker[w].call
                               /\ ~MayRetry(w) => r.at # "wait"
    BY <1>1, RetriedRow
  <1>3. PICK k \in CopyRow : k = Copy(worker[w].call) /\ k.call = worker[w].call /\ Kind(k) = <<"arrived", worker[w].call.tool>>
    BY <1>1, NewCopy
  <1> DEFINE s == C[w] \o Again(w)
  <1>4. s = IF MayRetry(w) THEN Append(C[w], k) ELSE C[w]
    <2>1. C[w] \o <<k>> = Append(C[w], k) /\ C[w] \o <<>> = C[w]
      BY <1>1, ConcatEmptySeq
    <2> QED BY <1>3, <2>1 DEF Again
  <1> HIDE DEF s
  <1>5. s \in Seq(CopyRow) /\ Heeds(s, r) /\ Waits(r)
    <2>1. CASE MayRetry(w)
      BY <1>1, <1>2, <1>3, <1>4, <2>1, HeedsAdded DEF Waits
    <2>2. CASE ~MayRetry(w)
      BY <1>1, <1>2, <1>4, <2>2, UnheardHeeds DEF Waits
    <2> QED BY <2>1, <2>2
  <1>6. copies' = [C EXCEPT ![w] = s]
    BY DEF s
  <1>7. copies' = [copies EXCEPT ![w] = s]
    BY <1>6 DEF LoopKept, LoopTyped, CopiesOf
  <1>8. LoopKept'
    <2>1. worker' = [worker EXCEPT ![w] = r]
      BY <1>2
    <2> QED BY <1>1, <1>5, <1>7, <2>1, OneChanges
  <1>9. ASSUME NEW K, NoKind \notin K PROVE Goes(C, copies', K, NoKind, Again1(w))
    <2>1. CASE MayRetry(w)
      <3>1. copies' = More(C, w, k)
        BY <1>4, <1>6, <2>1 DEF More
      <3>2. Goes(C, copies', K, NoKind, Kind(k))
        BY <1>9, <3>1, CopyComes
      <3> QED BY <1>3, <2>1, <3>2 DEF Again1
    <2>2. CASE ~MayRetry(w)
      <3>1. copies' = C
        BY <1>4, <1>6, <2>2 DEF CopiesOf
      <3>2. Goes(C, C, K, NoKind, NoKind)
        BY <1>9, NothingGoes
      <3> QED BY <2>2, <3>1, <3>2 DEF Again1
    <2> QED BY <2>1, <2>2
  <1> QED BY <1>8, <1>9

\* The kinds that matter: mail not delivered yet; sends between their check and the delivery, and between that and the
\* row; messages about to be mirrored; contexts about to be opened.
Owing == {"arrived", "count", "deliver"} \X {"send_email", "reply_email"}
SendsOut == {<<"deliver", "send_email">>}
SendsSent == {<<"row", "send_email">>}
Mirroring == {"mirror"} \X Tools
Opening == {"open"} \X Tools
Watched == {Owing, SendsOut, SendsSent, Mirroring, Opening}
N(K) == Cardinality(Held(copies, K))

OwedKept == story.owed >= N(Owing)
MailInTurn ==
  /\ N(SendsOut) + N(SendsSent) <= 1
  /\ story.cold <= mailbox.rows + N(SendsSent)
  /\ story.cold + N(SendsOut) <= MailCap
InboxInTurn == N(Mirroring) <= 1 /\ mailbox.mirrored + N(Mirroring) <= mailbox.in
Distinct(s) == \A j, k \in DOMAIN s : s[j] = s[k] => j = k
ContextsOf(s) == [v \in Workers |-> IF Contains(s, v) THEN 1 ELSE 0]
BrowserInTurn ==
  /\ sessions \in Seq(Workers) /\ Distinct(sessions) /\ contexts = ContextsOf(sessions) /\ Len(sessions) <= MaxSessions
  /\ N(Opening) <= 1
  /\ \A p \in Held(copies, Opening) : ~Contains(sessions, p[1]) /\ Len(sessions) < MaxSessions
MailInv == "mail" \in story.crossed \/ MailInTurn
InboxInv == "inbox" \in story.crossed \/ InboxInTurn
BrowserInv == "browser" \in story.crossed \/ BrowserInTurn
ToolInv ==
  /\ LoopKept /\ \A K \in Watched : IsFiniteSet(Held(copies, K))
  /\ OwedKept /\ MailInv /\ InboxInv /\ BrowserInv

\* A step in which one copy goes and one comes.
Fate(left, come) == \A K \in Watched : Goes(copies, copies', K, left, come)

\* No kind watched is the kind of no copy.
LEMMA WatchedKinds == \A K \in Watched : NoKind \notin K
  BY DEF Watched, Owing, SendsOut, SendsSent, Mirroring, Opening, NoKind
\* What a step does to the number of a kind.
LEMMA Counted ==
  ASSUME ToolInv, NEW left, NEW come, Fate(left, come), NEW K \in Watched
  PROVE  /\ IsFiniteSet(Held(copies, K))' /\ N(K) \in Nat /\ N(K)' \in Nat /\ N(K)' = N(K) - One(left, K) + One(come, K)
         /\ come \notin K => \A p \in Held(copies', K) : \E q \in Held(copies, K) : q[1] = p[1]
  <1>1. Goes(copies, copies', K, left, come) /\ IsFiniteSet(Held(copies, K))
    BY DEF Fate, ToolInv
  <1>2. IsFiniteSet(Held(copies', K)) /\ Cardinality(Held(copies', K)) = Cardinality(Held(copies, K)) - One(left, K) + One(come, K)
    BY <1>1 DEF Goes
  <1>3. Cardinality(Held(copies', K)) \in Nat /\ Cardinality(Held(copies, K)) \in Nat
    BY <1>1, <1>2, FS_CardinalityType
  <1>4. come \notin K => \A p \in Held(copies', K) : \E q \in Held(copies, K) : q[1] = p[1]
    BY <1>1 DEF Goes
  <1>5. Held(copies, K)' = Held(copies', K)
    BY DEF Held
  <1> QED BY <1>2, <1>3, <1>4, <1>5 DEF N

\* The parts stay, each under what it asks of the step: what is owed,
LEMMA OwedStays ==
  ASSUME ToolInv, NEW left, NEW come, Fate(left, come), LoopKept', story'.owed >= story.owed - One(left, Owing) + One(come, Owing)
  PROVE  OwedKept'
  <1>1. N(Owing) \in Nat /\ N(Owing)' \in Nat /\ N(Owing)' = N(Owing) - One(left, Owing) + One(come, Owing)
    BY Counted DEF Watched
  <1>2. story.owed \in Int /\ story'.owed \in Int /\ story.owed >= N(Owing)
    BY DEF ToolInv, OwedKept, LoopKept, LoopTyped, StoryRow
  <1>3. One(left, Owing) \in Nat /\ One(come, Owing) \in Nat
    BY DEF One
  <1> QED BY <1>1, <1>2, <1>3 DEF OwedKept
\* the mail in turn,
LEMMA MailStays ==
  ASSUME ToolInv, NEW left, NEW come, Fate(left, come), LoopKept',
         come \notin SendsOut, come \notin SendsSent, left \notin SendsSent,
         story'.cold = story.cold, mailbox'.rows >= mailbox.rows, story.crossed \subseteq story'.crossed
  PROVE  MailInv'
  <1>1. CASE "mail" \in story.crossed
    BY <1>1 DEF MailInv
  <1>2. CASE MailInTurn
    <2>1. N(SendsOut) \in Nat /\ N(SendsOut)' \in Nat /\ N(SendsOut)' = N(SendsOut) - One(left, SendsOut) + One(come, SendsOut)
      BY Counted DEF Watched
    <2>2. N(SendsSent) \in Nat /\ N(SendsSent)' \in Nat /\ N(SendsSent)' = N(SendsSent) - One(left, SendsSent) + One(come, SendsSent)
      BY Counted DEF Watched
    <2>3. story.cold \in Int /\ mailbox.rows \in Nat /\ mailbox'.rows \in Nat /\ MailCap \in Nat
      BY WorkerLoopAssumption DEF ToolInv, LoopKept, LoopTyped, StoryRow
    <2>4. One(come, SendsOut) = 0 /\ One(come, SendsSent) = 0 /\ One(left, SendsSent) = 0 /\ One(left, SendsOut) \in Nat
      BY DEF One
    <2>5. MailInTurn'
      BY <1>2, <2>1, <2>2, <2>3, <2>4 DEF MailInTurn
    <2> QED BY <2>5 DEF MailInv
  <1> QED BY <1>1, <1>2 DEF ToolInv, MailInv
\* the mirror in turn,
LEMMA InboxStays ==
  ASSUME ToolInv, NEW left, NEW come, Fate(left, come), LoopKept', come \notin Mirroring,
         mailbox'.mirrored = mailbox.mirrored, mailbox'.in >= mailbox.in, story.crossed \subseteq story'.crossed
  PROVE  InboxInv'
  <1>1. CASE "inbox" \in story.crossed
    BY <1>1 DEF InboxInv
  <1>2. CASE InboxInTurn
    <2>1. N(Mirroring) \in Nat /\ N(Mirroring)' \in Nat /\ N(Mirroring)' = N(Mirroring) - One(left, Mirroring) + One(come, Mirroring)
      BY Counted DEF Watched
    <2>2. mailbox.mirrored \in Nat /\ mailbox.in \in Nat /\ mailbox'.in \in Nat
      BY DEF ToolInv, LoopKept, LoopTyped
    <2>3. One(come, Mirroring) = 0 /\ One(left, Mirroring) \in Nat
      BY DEF One
    <2>4. InboxInTurn'
      BY <1>2, <2>1, <2>2, <2>3 DEF InboxInTurn
    <2> QED BY <2>4 DEF InboxInv
  <1> QED BY <1>1, <1>2 DEF ToolInv, InboxInv
\* the browser in turn.
LEMMA BrowserStays ==
  ASSUME ToolInv, NEW left, NEW come, Fate(left, come), come \notin Opening,
         UNCHANGED <<sessions, contexts>>, story.crossed \subseteq story'.crossed
  PROVE  BrowserInv'
  <1>1. CASE "browser" \in story.crossed
    BY <1>1 DEF BrowserInv
  <1>2. CASE BrowserInTurn
    <2>1. N(Opening) \in Nat /\ N(Opening)' \in Nat /\ N(Opening)' = N(Opening) - One(left, Opening) + One(come, Opening)
          /\ \A p \in Held(copies', Opening) : \E q \in Held(copies, Opening) : q[1] = p[1]
      BY Counted DEF Watched
    <2>2. One(come, Opening) = 0 /\ One(left, Opening) \in Nat
      BY DEF One
    <2>3. N(Opening)' <= 1
      BY <1>2, <2>1, <2>2 DEF BrowserInTurn
    <2>4. ASSUME NEW p \in Held(copies', Opening) PROVE ~Contains(sessions, p[1]) /\ Len(sessions) < MaxSessions
      BY <1>2, <2>1 DEF BrowserInTurn
    <2>5. BrowserInTurn'
      BY <1>2, <2>3, <2>4 DEF BrowserInTurn, Held
    <2> QED BY <2>5 DEF BrowserInv
  <1> QED BY <1>1, <1>2 DEF ToolInv, BrowserInv
\* What the parts make together, and what changes none of the shared tools' state.
LEMMA Together ==
  ASSUME ToolInv, NEW left, NEW come, Fate(left, come), LoopKept', OwedKept', MailInv', InboxInv', BrowserInv'
  PROVE  ToolInv'
  <1>1. ASSUME NEW K \in Watched PROVE IsFiniteSet(Held(copies, K))'
    BY Counted
  <1> QED BY <1>1 DEF ToolInv
\* A step of the second sort.
LEMMA CalmStep ==
  ASSUME ToolInv, NEW left, NEW come, Fate(left, come), LoopKept',
         come \notin SendsOut, come \notin SendsSent, come \notin Mirroring, come \notin Opening, left \notin SendsSent,
         story'.owed >= story.owed - One(left, Owing) + One(come, Owing), story'.cold = story.cold,
         story.crossed \subseteq story'.crossed, UNCHANGED World
  PROVE  ToolInv'
  <1>1. UNCHANGED <<mailbox, sessions, contexts>>
    BY DEF World
  <1>2. mailbox.rows \in Nat /\ mailbox.in \in Nat
    BY DEF ToolInv, LoopKept, LoopTyped
  <1>3. mailbox'.rows >= mailbox.rows /\ mailbox'.in >= mailbox.in /\ mailbox'.mirrored = mailbox.mirrored
    BY <1>1, <1>2
  <1>4. OwedKept'
    BY OwedStays
  <1>5. MailInv'
    BY <1>3, MailStays
  <1>6. InboxInv'
    BY <1>3, InboxStays
  <1>7. BrowserInv'
    BY <1>1, BrowserStays
  <1> QED BY <1>4, <1>5, <1>6, <1>7, Together

\* What is known of a copy at work.
LEMMA CopyFacts ==
  ASSUME LoopKept, NEW w \in Workers, NEW i \in DOMAIN copies[w]
  PROVE  copies[w][i] \in CopyRow /\ copies[w][i].call \in AnyCall /\ copies[w][i].call.tool \in Tools
         /\ (copies[w][i].awaited => worker[w].at = "wait" /\ copies[w][i].call = worker[w].call)
  <1>1. copies[w] \in Seq(CopyRow)
    BY DEF LoopKept, LoopTyped, CopiesOf
  <1>2. copies[w][i] \in CopyRow
    BY <1>1, ElementOfSeq, LenProperties
  <1>3. copies[w][i].call \in AnyCall
    BY <1>2 DEF CopyRow
  <1> QED BY <1>2, <1>3, CallTools DEF LoopKept, Heeds
\* Owes, and of which kinds mail is owed.
LEMMA OwesRow ==
  ASSUME LoopKept, NEW c, NEW m \in Int, NEW k \in Nat
  PROVE  /\ Owes(c, m, k) \in StoryRow /\ Owes(c, m, k).cold = story.cold /\ Owes(c, m, k).crossed = story.crossed
         /\ Owes(c, m, k).owed = story.owed + (IF Mail(c) THEN m ELSE 0)
  <1>1. PICK r \in StoryRow : r = story
    BY DEF LoopKept, LoopTyped
  <1>2. PICK a \in Int : a = IF Mail(c) THEN r.owed + m ELSE r.owed
    BY DEF StoryRow
  <1>3. PICK b \in Nat : b = r.lost + k
    BY DEF StoryRow
  <1>4. PICK q : q = [[r EXCEPT !.owed = a] EXCEPT !.lost = b]
    OBVIOUS
  <1>5. PICK p : p = [r EXCEPT !.owed = a]
    OBVIOUS
  <1>6. p \in StoryRow /\ p.cold = r.cold /\ p.crossed = r.crossed /\ p.owed = a
    BY <1>5 DEF StoryRow
  <1>7. [p EXCEPT !.lost = b] \in StoryRow /\ [p EXCEPT !.lost = b].cold = p.cold /\ [p EXCEPT !.lost = b].crossed = p.crossed
        /\ [p EXCEPT !.lost = b].owed = p.owed
    BY <1>6 DEF StoryRow
  <1>8. Owes(c, m, k) = [p EXCEPT !.lost = b]
    BY <1>1, <1>2, <1>3, <1>5 DEF Owes
  <1>9. a = story.owed + (IF Mail(c) THEN m ELSE 0)
    BY <1>1, <1>2 DEF StoryRow
  <1> QED BY <1>1, <1>6, <1>7, <1>8, <1>9
\* A copy before its delivery owes a message if it is a mail call;
LEMMA OwingKind ==
  ASSUME NEW c \in AnyCall, NEW x \in {"arrived", "count", "deliver"}
  PROVE  One(<<x, c.tool>>, Owing) = IF Mail(c) THEN 1 ELSE 0
  BY DEF One, Owing, Mail
\* no copy owes none.
LEMMA NoKindOwing == One(NoKind, Owing) = 0 /\ NoKind \notin SendsOut /\ NoKind \notin SendsSent
                     /\ NoKind \notin Mirroring /\ NoKind \notin Opening
  BY DEF One, Owing, SendsOut, SendsSent, Mirroring, Opening, NoKind
\* What has just arrived is of none of the kinds but the first.
LEMMA ArrivedKinds ==
  ASSUME NEW t PROVE /\ <<"arrived", t>> \notin SendsOut /\ <<"arrived", t>> \notin SendsSent
                     /\ <<"arrived", t>> \notin Mirroring /\ <<"arrived", t>> \notin Opening
  BY DEF SendsOut, SendsSent, Mirroring, Opening

\* The loop begins with it.
LEMMA LoopBegins ==
  ASSUME LoopInit PROVE ToolInv
  <1>1. copies \in CopiesOf
    <2>1. <<>> \in Seq(CopyRow)
      BY EmptySeq
    <2> QED BY <2>1 DEF LoopInit, CopiesOf
  <1>2. ASSUME NEW flow \in Flows
        PROVE  Scripted(flow) \in WorkerRow /\ Scripted(flow).at = "think"
    <2>1. flow \in Seq(Tools)
      <3>1. "exec" \in Tools /\ "deploy_site" \in Tools /\ "send_email" \in Tools
        BY DEF Tools
      <3>2. <<"exec", "exec", "exec">> \in Seq(Tools)
        BY <3>1
      <3>3. <<"deploy_site", "send_email">> \in Seq(Tools) /\ <<"deploy_site">> \in Seq(Tools) /\ <<>> \in Seq(Tools)
        BY <3>1
      <3> QED BY <3>2, <3>3 DEF Flows
    <2> DEFINE t == [i \in DOMAIN flow |-> [tool |-> flow[i], args |-> i]]
    <2>2. Len(flow) \in Nat /\ DOMAIN flow = 1..Len(flow)
      BY <2>1
    <2>3. ASSUME NEW i \in 1..Len(flow) PROVE t[i] \in AnyCall
      <3>1. flow[i] \in Tools /\ i \in Nat
        BY <2>1, <2>2, ElementOfSeq
      <3> QED BY <2>2, <3>1 DEF AnyCall
    <2>4. t \in Seq(AnyCall)
      BY <2>2, <2>3
    <2> HIDE DEF t
    <2>5. PICK a : a = [Fresh EXCEPT !.llm = FALSE]
      OBVIOUS
    <2>6. PICK f \in WorkerRow : f = Fresh /\ f.at = "think"
      BY FreshRow DEF Fresh
    <2>7. a \in WorkerRow /\ a.at = "think"
      BY <2>5, <2>6 DEF WorkerRow
    <2>8. [a EXCEPT !.script = t] \in WorkerRow /\ [a EXCEPT !.script = t].at = a.at
      BY <2>4, <2>7 DEF WorkerRow
    <2>9. Scripted(flow) = [a EXCEPT !.script = t]
      BY <2>5 DEF Scripted, t
    <2> QED BY <2>7, <2>8, <2>9
  <1>3. worker \in [Workers -> WorkerRow] /\ \A w \in Workers : worker[w].at = "think"
    <2>1. CASE worker = [w \in Workers |-> Fresh]
      BY <2>1, FreshRow DEF Fresh
    <2>2. CASE worker \in [Workers -> {Scripted(flow) : flow \in Flows}]
      BY <2>2, <1>2
    <2> QED BY <2>1, <2>2 DEF LoopInit
  <1>4. mailbox \in [rows : Nat, in : Nat, mirrored : Nat] /\ story \in StoryRow
    BY DEF LoopInit, StoryRow
  <1>5. LoopKept
    <2>1. \A w \in Workers : copies[w] = <<>>
      BY DEF LoopInit
    <2>2. \A w \in Workers : Waits(worker[w]) /\ Heeds(copies[w], worker[w])
      BY <1>3, <2>1 DEF Waits, Heeds
    <2> QED BY <1>1, <1>3, <1>4, <2>2 DEF LoopKept, LoopTyped
  <1>6. ASSUME NEW K PROVE Held(copies, K) = {}
    BY DEF LoopInit, Held
  <1>7. ASSUME NEW K PROVE IsFiniteSet(Held(copies, K)) /\ N(K) = 0
    BY <1>6, FS_EmptySet DEF N
  <1>8. OwedKept /\ MailInTurn /\ InboxInTurn
    BY <1>7, WorkerLoopAssumption DEF LoopInit, OwedKept, MailInTurn, InboxInTurn
  <1>9. BrowserInTurn
    <2>1. sessions \in Seq(Workers) /\ Len(sessions) = 0 /\ DOMAIN sessions = {}
      BY EmptySeq DEF LoopInit
    <2>2. contexts = ContextsOf(sessions)
      BY <2>1 DEF LoopInit, ContextsOf, Contains
    <2> QED BY <1>6, <1>7, <2>1, <2>2, WorkerLoopAssumption DEF BrowserInTurn, Distinct
  <1> QED BY <1>5, <1>7, <1>8, <1>9 DEF ToolInv, MailInv, InboxInv, BrowserInv

\* The invariant says what the run checks.
LEMMA LoopFollows ==
  ASSUME ToolInv PROVE ToolsKept
  <1>1. ASSUME NEW K \in Watched PROVE N(K) \in Nat
    BY FS_CardinalityType DEF ToolInv, N
  <1>2. story.owed \in Int /\ story.cold \in Int /\ mailbox \in [rows : Nat, in : Nat, mirrored : Nat] /\ MailCap \in Nat
    BY WorkerLoopAssumption DEF ToolInv, LoopKept, LoopTyped, StoryRow
  <1>3. SentAsDecided
    BY <1>1, <1>2 DEF ToolInv, OwedKept, SentAsDecided, Watched
  <1>4. CapHolds
    BY <1>1, <1>2 DEF ToolInv, MailInv, MailInTurn, CapHolds, Watched
  <1>5. "inbox" \in story.crossed \/ mailbox.mirrored <= mailbox.in
    <2>1. N(Mirroring) \in Nat
      BY <1>1 DEF Watched
    <2> QED BY <1>2, <2>1 DEF ToolInv, InboxInv, InboxInTurn
  <1>6. SharedToolsKept
    BY <1>5 DEF ToolInv, BrowserInv, BrowserInTurn, ContextsOf, SharedToolsKept
  <1> QED BY <1>3, <1>4, <1>6 DEF ToolsKept, MailKept

\* The loop: an answer of the model that makes no call, and one that does.
LEMMA QuietStep ==
  ASSUME ToolInv, NEW w \in Workers, worker[w].at # "wait", NEW r \in WorkerRow, r.at # "wait", Becomes(w, r), OnlyWorker
  PROVE  ToolInv'
  <1>1. LoopKept' /\ UNCHANGED <<copies, story>> /\ UNCHANGED World /\ story \in StoryRow
    BY OneChangesNot DEF Becomes, OnlyWorker, World, ToolInv, LoopKept, LoopTyped
  <1>2. Fate(NoKind, NoKind)
    BY <1>1, WatchedKinds, NothingGoes DEF Fate
  <1>3. story'.owed >= story.owed - One(NoKind, Owing) + One(NoKind, Owing)
    BY <1>1, NoKindOwing DEF StoryRow
  <1> QED BY <1>1, <1>2, <1>3, NoKindOwing, CalmStep
\* A call is sent.
LEMMA SendStep ==
  ASSUME ToolInv, NEW w \in Workers, NEW c \in AnyCall, worker[w].at # "wait", Sends(w, c),
         NEW r \in WorkerRow, Becomes(w, r), r.at = "wait", r.call = c, UNCHANGED World, story' = Owes(c, 1, 0)
  PROVE  ToolInv'
  <1>1. LoopKept /\ story'.cold = story.cold /\ story'.crossed = story.crossed /\ story' \in StoryRow
        /\ story'.owed = story.owed + (IF Mail(c) THEN 1 ELSE 0)
    <2>1. LoopKept /\ 1 \in Int /\ 0 \in Nat
      BY DEF ToolInv
    <2>2. PICK q : q = Owes(c, 1, 0)
      OBVIOUS
    <2>3. q \in StoryRow /\ q.cold = story.cold /\ q.crossed = story.crossed /\ q.owed = story.owed + (IF Mail(c) THEN 1 ELSE 0)
      BY <2>1, <2>2, OwesRow
    <2> QED BY <2>1, <2>2, <2>3
  <1>2. UNCHANGED mailbox /\ story.owed \in Int
    BY <1>1 DEF World, LoopKept, LoopTyped, StoryRow
  <1> DEFINE k == <<"arrived", c.tool>>
  <1>3. LoopKept' /\ \A K : NoKind \notin K => Goes(copies, copies', K, NoKind, k)
    BY <1>1, <1>2, SendsOne DEF Becomes
  <1>4. Fate(NoKind, k)
    BY <1>3, WatchedKinds DEF Fate
  <1>5. story'.owed >= story.owed - One(NoKind, Owing) + One(k, Owing)
    <2>1. One(k, Owing) = IF Mail(c) THEN 1 ELSE 0
      BY OwingKind
    <2> HIDE DEF k
    <2> QED BY <1>1, <1>2, <2>1, NoKindOwing
  <1>6. k \notin SendsOut /\ k \notin SendsSent /\ k \notin Mirroring /\ k \notin Opening
    BY ArrivedKinds
  <1> HIDE DEF k
  <1> QED BY <1>1, <1>3, <1>4, <1>5, <1>6, NoKindOwing, CalmStep

\* Rows stay rows: a step counted,
LEMMA ThoughtRow ==
  ASSUME LoopTyped, NEW w \in Workers PROVE Thought(w) \in WorkerRow /\ Thought(w).at = worker[w].at
  <1>1. PICK r \in WorkerRow : r = worker[w]
    BY DEF LoopTyped
  <1>2. PICK n \in Nat : n = r.step + 1
    BY DEF WorkerRow
  <1>3. [r EXCEPT !.step = n] \in WorkerRow /\ [r EXCEPT !.step = n].at = r.at
    BY DEF WorkerRow
  <1>4. Thought(w) = [r EXCEPT !.step = n]
    BY <1>1, <1>2 DEF Thought
  <1> QED BY <1>1, <1>3, <1>4
\* the last calls remembered,
LEMMA LastOnesRow ==
  ASSUME NEW s \in Seq(AnyCall) PROVE LastOnes(s) \in Seq(AnyCall)
  <1>1. CASE Len(s) > Recent
    <2>1. s # <<>>
      BY <1>1, EmptySeq, WorkerLoopAssumption
    <2> QED BY <1>1, <2>1, HeadTailProperties DEF LastOnes
  <1>2. CASE ~(Len(s) > Recent)
    BY <1>2 DEF LastOnes
  <1> QED BY <1>1, <1>2
Spun(w, c) == [Thought(w) EXCEPT !.recent = LastOnes(Append(@, c))]
\* a call remembered,
LEMMA SpunRow ==
  ASSUME LoopTyped, NEW w \in Workers, NEW c \in AnyCall PROVE Spun(w, c) \in WorkerRow /\ Spun(w, c).at = worker[w].at
  <1>1. PICK r \in WorkerRow : r = Thought(w) /\ r.at = worker[w].at
    BY ThoughtRow
  <1>2. PICK s \in Seq(AnyCall) : s = LastOnes(Append(r.recent, c))
    <2>1. r.recent \in Seq(AnyCall)
      BY DEF WorkerRow
    <2>2. Append(r.recent, c) \in Seq(AnyCall)
      BY <2>1
    <2> QED BY <2>2, LastOnesRow
  <1>3. [r EXCEPT !.recent = s] \in WorkerRow /\ [r EXCEPT !.recent = s].at = r.at
    BY DEF WorkerRow
  <1>4. Spun(w, c) = [r EXCEPT !.recent = s]
    BY <1>1, <1>2 DEF Spun
  <1> QED BY <1>1, <1>3, <1>4
\* a task ended.
LEMMA EndedRow ==
  ASSUME NEW x \in {"think"} \cup Ended PROVE [Fresh EXCEPT !.at = x] \in WorkerRow /\ [Fresh EXCEPT !.at = x].at # "wait"
  BY FreshRow, AtRow DEF Ats, Ended

\* The model asks for a call: the loop stops, skips it, or sends it.
LEMMA AnswerCallStep ==
  ASSUME ToolInv, NEW w \in Workers, NEW c \in AnyCall, AnswerCall(w, c) PROVE ToolInv'
  <1>1. LoopTyped /\ worker[w].at = "think" /\ UNCHANGED <<companyPaused, World>>
    BY DEF ToolInv, LoopKept, AnswerCall, MayThink
  <1>2. PICK r \in WorkerRow : r = Spun(w, c) /\ r.at = "think"
    BY <1>1, SpunRow
  <1>3. \/ Becomes(w, [Fresh EXCEPT !.at = "stopped"]) /\ UNCHANGED <<copies, story>>
        \/ Becomes(w, r) /\ UNCHANGED <<copies, story>>
        \/ Becomes(w, [r EXCEPT !.at = "wait", !.call = c]) /\ Sends(w, c) /\ story' = Owes(c, 1, 0)
    BY <1>2 DEF AnswerCall, Spun
  <1>4. CASE Becomes(w, [Fresh EXCEPT !.at = "stopped"]) /\ UNCHANGED <<copies, story>>
    <2>1. PICK e \in WorkerRow : e = [Fresh EXCEPT !.at = "stopped"] /\ e.at # "wait"
      BY EndedRow DEF Ended
    <2> QED BY <1>1, <1>4, <2>1, QuietStep DEF OnlyWorker
  <1>5. CASE Becomes(w, r) /\ UNCHANGED <<copies, story>>
    BY <1>1, <1>2, <1>5, QuietStep DEF OnlyWorker
  <1>6. CASE Becomes(w, [r EXCEPT !.at = "wait", !.call = c]) /\ Sends(w, c) /\ story' = Owes(c, 1, 0)
    <2>1. PICK a \in WorkerRow : a = [r EXCEPT !.at = "wait"] /\ a.at = "wait"
      BY AtRow DEF Ats
    <2>2. PICK b \in WorkerRow : b = WithCall(a, c) /\ b.at = "wait" /\ b.call = c
      <3>1. WithCall(a, c) \in WorkerRow /\ WithCall(a, c).at = a.at /\ WithCall(a, c).call = c
        BY CallRowWith
      <3> QED BY <2>1, <3>1
    <2>3. b = [r EXCEPT !.at = "wait", !.call = c]
      BY <2>1, <2>2 DEF WithCall
    <2> QED BY <1>1, <1>6, <2>2, <2>3, SendStep
  <1> QED BY <1>3, <1>4, <1>5, <1>6
\* The script's next call.
LEMMA ScriptedCallStep ==
  ASSUME ToolInv, NEW w \in Workers, ScriptedCall(w) PROVE ToolInv'
  <1>1. LoopTyped /\ worker[w].at = "think" /\ UNCHANGED <<companyPaused, World>> /\ worker[w].script # <<>>
    BY DEF ToolInv, LoopKept, ScriptedCall
  <1>2. PICK r \in WorkerRow : r = worker[w]
    BY <1>1 DEF LoopTyped
  <1>3. r.script \in Seq(AnyCall) /\ r.step \in Nat
    BY DEF WorkerRow
  <1>4. PICK c \in AnyCall : c = Head(r.script)
    BY <1>1, <1>2, <1>3, HeadTailProperties
  <1>5. PICK s \in Seq(AnyCall) : s = Tail(r.script)
    BY <1>1, <1>2, <1>3, HeadTailProperties
  <1>6. PICK n \in Nat : n = r.step + 1
    BY <1>3
  <1>7. Becomes(w, [r EXCEPT !.at = "wait", !.call = c, !.script = s, !.step = n]) /\ Sends(w, c) /\ story' = Owes(c, 1, 0)
    BY <1>2, <1>4, <1>5, <1>6 DEF ScriptedCall
  <1>8. PICK a \in WorkerRow : a = [r EXCEPT !.at = "wait"] /\ a.at = "wait"
    BY AtRow DEF Ats
  <1>9. PICK b \in WorkerRow : b = WithCall(a, c) /\ b.at = "wait" /\ b.call = c
    <2>1. WithCall(a, c) \in WorkerRow /\ WithCall(a, c).at = a.at /\ WithCall(a, c).call = c
      BY CallRowWith
    <2> QED BY <1>8, <2>1
  <1>10. PICK d : d = [b EXCEPT !.script = s]
    OBVIOUS
  <1>11. d \in WorkerRow /\ d.at = "wait" /\ d.call = c
    BY <1>9, <1>10 DEF WorkerRow
  <1>12. PICK e : e = [d EXCEPT !.step = n]
    OBVIOUS
  <1>13. e \in WorkerRow /\ e.at = "wait" /\ e.call = c
    BY <1>11, <1>12 DEF WorkerRow
  <1>14. e = [r EXCEPT !.at = "wait", !.call = c, !.script = s, !.step = n]
    BY <1>8, <1>9, <1>10, <1>12 DEF WithCall
  <1> QED BY <1>1, <1>2, <1>7, <1>13, <1>14, SendStep
\* Every step of the loop.
LEMMA LoopSteps ==
  ASSUME ToolInv, NEW w \in Workers, Loop(w) PROVE ToolInv'
  <1> LoopTyped
    BY DEF ToolInv, LoopKept
  <1>1. CASE AnswerInvalid(w)
    BY <1>1, ThoughtRow, QuietStep DEF AnswerInvalid, MayThink
  <1>2. ASSUME NEW x \in Ended, worker[w].at = "think", Becomes(w, [Fresh EXCEPT !.at = x]), OnlyWorker PROVE ToolInv'
    <2>1. PICK e \in WorkerRow : e = [Fresh EXCEPT !.at = x] /\ e.at # "wait"
      BY EndedRow
    <2> QED BY <1>2, <2>1, QuietStep
  <1>3. CASE AnswerFinal(w)
    BY <1>2, <1>3 DEF AnswerFinal, MayThink, Ended
  <1>4. CASE GiveUp(w)
    BY <1>2, <1>4 DEF GiveUp, Ended
  <1>5. CASE ScriptedEnd(w)
    <2>1. PICK x \in {"done", "failed"} : Becomes(w, [Fresh EXCEPT !.at = x])
      BY <1>5 DEF ScriptedEnd
    <2> QED BY <1>2, <1>5, <2>1 DEF ScriptedEnd, Ended
  <1>6. CASE RunLocally(w)
    BY <1>6, RestRow, QuietStep DEF RunLocally
  <1>7. ASSUME NEW c \in CallsOf[w], AnswerCall(w, c) PROVE ToolInv'
    BY <1>7, AnswerCallStep DEF AnyCall
  <1>8. CASE ScriptedCall(w)
    BY <1>8, ScriptedCallStep
  <1> QED BY <1>1, <1>3, <1>4, <1>5, <1>6, <1>7, <1>8 DEF Loop

\* A broken connection, and what handlers do together, in the history.
LEMMA LostRow ==
  ASSUME LoopKept, story' = [story EXCEPT !.lost = @ + 1]
  PROVE  story' \in StoryRow /\ story'.owed = story.owed /\ story'.cold = story.cold /\ story'.crossed = story.crossed
  <1>1. PICK r \in StoryRow : r = story
    BY DEF LoopKept, LoopTyped
  <1>2. PICK n \in Nat : n = r.lost + 1
    BY DEF StoryRow
  <1>3. PICK q : q = [r EXCEPT !.lost = n]
    OBVIOUS
  <1>4. q \in StoryRow /\ q.owed = r.owed /\ q.cold = r.cold /\ q.crossed = r.crossed
    BY <1>3 DEF StoryRow
  <1>5. story' = q
    BY <1>1, <1>2, <1>3
  <1> QED BY <1>1, <1>4, <1>5
\* What handlers did together, in the history.
LEMMA CrossedRow ==
  ASSUME LoopKept, NEW now \in BOOLEAN, NEW what \in {"mail", "inbox", "browser"}, Crossed(now, what)
  PROVE  /\ story' \in StoryRow /\ story'.owed = story.owed /\ story'.cold = story.cold
         /\ story.crossed \subseteq story'.crossed /\ (now => what \in story'.crossed)
  <1>1. PICK r \in StoryRow : r = story
    BY DEF LoopKept, LoopTyped
  <1>2. PICK x \in SUBSET {"mail", "inbox", "browser"} : x = IF now THEN r.crossed \cup {what} ELSE r.crossed
    BY DEF StoryRow
  <1>3. PICK q : q = [r EXCEPT !.crossed = x]
    OBVIOUS
  <1>4. q \in StoryRow /\ q.owed = r.owed /\ q.cold = r.cold /\ q.crossed = x
    BY <1>3 DEF StoryRow
  <1>5. story' = q
    BY <1>1, <1>2, <1>3 DEF Crossed
  <1> QED BY <1>1, <1>2, <1>4, <1>5

\* The connection breaks: the call is made again, or the worker is told.
LEMMA ResetEarlyStep ==
  ASSUME ToolInv, NEW w \in Workers, ResetEarly(w) PROVE ToolInv'
  <1>1. LoopKept /\ worker[w].at = "wait" /\ UNCHANGED World /\ UNCHANGED mailbox /\ copies \in CopiesOf /\ copies[w] \in Seq(CopyRow)
        /\ worker' = [worker EXCEPT ![w] = Retried(w)] /\ worker[w].call \in AnyCall /\ Heeds(copies[w], worker[w])
    BY DEF ToolInv, LoopKept, LoopTyped, CopiesOf, ResetEarly, Breaks, World, Becomes, Waits
  <1>2. PICK i \in DOMAIN copies[w] : /\ copies[w][i].awaited /\ copies[w][i].at = "arrived"
                                      /\ copies' = [copies EXCEPT ![w] = RemoveAt(@, i) \o Again(w)]
    BY DEF ResetEarly
  <1> DEFINE k == <<"arrived", worker[w].call.tool>>
  <1>3. Kind(copies[w][i]) = k
    BY <1>1, <1>2, CopyFacts DEF Kind
  <1>4. PICK C : C = Less(copies, w, i)
    OBVIOUS
  <1>5. C \in CopiesOf /\ \A K : NoKind \notin K => Goes(copies, C, K, k, NoKind)
    <2>1. ASSUME NEW K, NoKind \notin K PROVE C \in CopiesOf /\ Goes(copies, C, K, Kind(copies[w][i]), NoKind)
      BY <1>1, <1>4, <2>1, CopyGoes
    <2>2. NoKind \notin {}
      OBVIOUS
    <2> QED BY <1>3, <2>1, <2>2
  <1>6. C[w] = RemoveAt(copies[w], i) /\ \A v \in Workers : v # w => C[v] = copies[v]
    BY <1>1, <1>4 DEF Less, CopiesOf
  <1>7. Unheard(C[w])
    BY <1>1, <1>2, <1>6, HeedsRemoved
  <1>8. copies' = [C EXCEPT ![w] = @ \o Again(w)]
    BY <1>1, <1>2, <1>4 DEF Less, CopiesOf
  <1>9. /\ story' \in StoryRow /\ story'.cold = story.cold /\ story'.crossed = story.crossed
        /\ story'.owed = IF MayRetry(w) THEN story.owed ELSE story.owed + (IF Mail(worker[w].call) THEN -1 ELSE 0)
    <2>1. CASE MayRetry(w)
      BY <1>1, <2>1, LostRow DEF ResetEarly
    <2>2. CASE ~MayRetry(w)
      <3>1. -1 \in Int /\ 1 \in Nat /\ story' = Owes(worker[w].call, -1, 1)
        BY <2>2 DEF ResetEarly
      <3>2. PICK q : q = Owes(worker[w].call, -1, 1)
        OBVIOUS
      <3>3. q \in StoryRow /\ q.cold = story.cold /\ q.crossed = story.crossed
            /\ q.owed = story.owed + (IF Mail(worker[w].call) THEN -1 ELSE 0)
        BY <1>1, <3>1, <3>2, OwesRow
      <3> QED BY <2>2, <3>1, <3>2, <3>3
    <2> QED BY <2>1, <2>2
  <1>10. LoopKept' /\ \A K : NoKind \notin K => Goes(C, copies', K, NoKind, Again1(w))
    BY <1>1, <1>5, <1>6, <1>7, <1>8, <1>9, RetriesOne
  <1> HIDE DEF k
  <1>11. Fate(k, Again1(w))
    <2>1. ASSUME NEW K \in Watched PROVE Goes(copies, copies', K, k, Again1(w))
      BY <1>5, <1>10, WatchedKinds, GoesTwice
    <2> QED BY <2>1 DEF Fate
  <1>12. /\ One(k, Owing) = IF Mail(worker[w].call) THEN 1 ELSE 0
         /\ One(Again1(w), Owing) = IF MayRetry(w) THEN One(k, Owing) ELSE 0
    BY <1>1, OwingKind, NoKindOwing DEF k, Again1
  <1>13. story'.owed >= story.owed - One(k, Owing) + One(Again1(w), Owing)
    <2>1. story.owed \in Int
      BY <1>1 DEF LoopKept, LoopTyped, StoryRow
    <2> QED BY <1>9, <1>12, <2>1
  <1>14. /\ Again1(w) \notin SendsOut /\ Again1(w) \notin SendsSent /\ Again1(w) \notin Mirroring /\ Again1(w) \notin Opening
         /\ k \notin SendsSent
    BY ArrivedKinds, NoKindOwing DEF k, Again1
  <1> QED BY <1>1, <1>9, <1>10, <1>11, <1>13, <1>14, CalmStep
\* The connection breaks while the answer is awaited.
LEMMA ResetLateStep ==
  ASSUME ToolInv, NEW w \in Workers, ResetLate(w) PROVE ToolInv'
  <1>1. LoopKept /\ worker[w].at = "wait" /\ UNCHANGED World /\ UNCHANGED mailbox /\ copies \in CopiesOf /\ copies[w] \in Seq(CopyRow)
        /\ worker' = [worker EXCEPT ![w] = Retried(w)] /\ worker[w].call \in AnyCall
    BY DEF ToolInv, LoopKept, LoopTyped, CopiesOf, ResetLate, Breaks, World, Becomes, Waits
  <1>2. PICK s : s = [i \in DOMAIN copies[w] |-> Forgotten(copies[w][i])]
    OBVIOUS
  <1>3. PICK C : C = [copies EXCEPT ![w] = s]
    OBVIOUS
  <1>4. Unheard(s) /\ C \in CopiesOf /\ \A K : NoKind \notin K => Goes(copies, C, K, NoKind, NoKind)
    <2>1. ASSUME NEW K, NoKind \notin K PROVE Unheard(s) /\ C \in CopiesOf /\ Goes(copies, C, K, NoKind, NoKind)
      BY <1>1, <1>2, <1>3, <2>1, Forsaken
    <2>2. NoKind \notin {}
      OBVIOUS
    <2> QED BY <2>1, <2>2
  <1>5. C[w] = s /\ \A v \in Workers : v # w => C[v] = copies[v]
    BY <1>1, <1>3 DEF CopiesOf
  <1>6. copies' = [C EXCEPT ![w] = @ \o Again(w)]
    <2>1. copies' = [copies EXCEPT ![w] = s \o Again(w)]
      BY <1>1, <1>2 DEF ResetLate, Forgotten, CopiesOf
    <2> QED BY <1>1, <1>3, <1>5, <2>1 DEF CopiesOf
  <1>7. /\ story' \in StoryRow /\ story'.cold = story.cold /\ story'.crossed = story.crossed
        /\ story'.owed = IF MayRetry(w) THEN story.owed + (IF Mail(worker[w].call) THEN 1 ELSE 0) ELSE story.owed
    <2>1. CASE ~MayRetry(w)
      BY <1>1, <2>1, LostRow DEF ResetLate
    <2>2. CASE MayRetry(w)
      <3>1. 1 \in Int /\ 1 \in Nat /\ story' = Owes(worker[w].call, 1, 1)
        BY <2>2 DEF ResetLate
      <3>2. PICK q : q = Owes(worker[w].call, 1, 1)
        OBVIOUS
      <3>3. q \in StoryRow /\ q.cold = story.cold /\ q.crossed = story.crossed
            /\ q.owed = story.owed + (IF Mail(worker[w].call) THEN 1 ELSE 0)
        BY <1>1, <3>1, <3>2, OwesRow
      <3> QED BY <2>2, <3>1, <3>2, <3>3
    <2> QED BY <2>1, <2>2
  <1>8. LoopKept' /\ \A K : NoKind \notin K => Goes(C, copies', K, NoKind, Again1(w))
    BY <1>1, <1>4, <1>5, <1>6, <1>7, RetriesOne
  <1>9. Fate(NoKind, Again1(w))
    <2>1. ASSUME NEW K \in Watched PROVE Goes(copies, copies', K, NoKind, Again1(w))
      BY <1>4, <1>8, WatchedKinds, GoesTwice
    <2> QED BY <2>1 DEF Fate
  <1>10. One(Again1(w), Owing) = IF MayRetry(w) THEN (IF Mail(worker[w].call) THEN 1 ELSE 0) ELSE 0
    BY <1>1, OwingKind, NoKindOwing DEF Again1
  <1>11. story'.owed >= story.owed - One(NoKind, Owing) + One(Again1(w), Owing)
    <2>1. story.owed \in Int
      BY <1>1 DEF LoopKept, LoopTyped, StoryRow
    <2> QED BY <1>7, <1>10, <2>1, NoKindOwing
  <1>12. Again1(w) \notin SendsOut /\ Again1(w) \notin SendsSent /\ Again1(w) \notin Mirroring /\ Again1(w) \notin Opening
    BY ArrivedKinds, NoKindOwing DEF Again1
  <1> QED BY <1>1, <1>7, <1>8, <1>9, <1>11, <1>12, NoKindOwing, CalmStep

\* The gateway answers a copy whose message, if it is one, has not gone out.
LEMMA AnsweredStep ==
  ASSUME ToolInv, NEW w \in Workers, NEW i \in DOMAIN copies[w], NEW x \in Answers, CopyAnswered(w, i, x),
         copies[w][i].at # "row", story' \in StoryRow, UNCHANGED World,
         story'.owed >= story.owed - One(Kind(copies[w][i]), Owing), story'.cold = story.cold, story.crossed \subseteq story'.crossed
  PROVE  ToolInv'
  <1>1. LoopKept /\ mailbox' \in [rows : Nat, in : Nat, mirrored : Nat] /\ story.owed \in Int /\ story'.owed \in Int
    BY DEF ToolInv, LoopKept, LoopTyped, World, StoryRow
  <1>2. LoopKept'
    BY <1>1, AnswersOne
  <1>3. PICK k : k = Kind(copies[w][i])
    OBVIOUS
  <1>4. Fate(k, NoKind)
    <2>1. ASSUME NEW K \in Watched PROVE Goes(copies, copies', K, k, NoKind)
      BY <1>1, <1>3, WatchedKinds, AnswerGoes
    <2> QED BY <2>1 DEF Fate
  <1>5. k \notin SendsSent
    BY <1>3 DEF Kind, SendsSent
  <1>6. One(k, Owing) \in Nat
    BY DEF One
  <1>7. story'.owed >= story.owed - One(k, Owing) + One(NoKind, Owing)
    BY <1>1, <1>3, <1>6, NoKindOwing
  <1> QED BY <1>2, <1>4, <1>5, <1>7, NoKindOwing, CalmStep
\* A copy moved on is a copy.
LEMMA MovedRow ==
  ASSUME NEW c \in CopyRow, NEW x \in Places, x \in {"count", "deliver", "row"} => Mail(c.call)
  PROVE  MovedTo(c, x) \in CopyRow
  <1>1. PICK q : q = MovedTo(c, x)
    OBVIOUS
  <1>2. q.at = x /\ q.call = c.call /\ q \in [at : Places, call : AnyCall, awaited : BOOLEAN]
    BY <1>1 DEF CopyRow, MovedTo
  <1> QED BY <1>1, <1>2 DEF CopyRow
\* It moves one on.
LEMMA MoveFate ==
  ASSUME ToolInv, NEW w \in Workers, NEW i \in DOMAIN copies[w], NEW x \in Places, Moves(w, i, x), UNCHANGED worker,
         x \in {"count", "deliver", "row"} => Mail(copies[w][i].call),
         mailbox' \in [rows : Nat, in : Nat, mirrored : Nat], story' \in StoryRow
  PROVE  /\ LoopKept' /\ Fate(Kind(copies[w][i]), <<x, copies[w][i].call.tool>>)
         /\ copies'[w][i] = MovedTo(copies[w][i], x) /\ copies' \in CopiesOf /\ i \in DOMAIN copies'[w]
  <1>1. LoopKept /\ copies[w][i] \in CopyRow
    BY CopyFacts DEF ToolInv
  <1>2. MovedTo(copies[w][i], x) \in CopyRow
    BY <1>1, MovedRow
  <1>3. LoopKept'
    BY <1>1, <1>2, MovesOne
  <1>4. ASSUME NEW K \in Watched
        PROVE  /\ Goes(copies, copies', K, Kind(copies[w][i]), <<x, copies[w][i].call.tool>>)
               /\ copies'[w][i] = MovedTo(copies[w][i], x)
    BY <1>1, <1>2, WatchedKinds, MoveGoes
  <1>5. Owing \in Watched
    BY DEF Watched
  <1>6. copies' \in CopiesOf /\ i \in DOMAIN copies'[w]
    BY <1>1, <1>3 DEF LoopKept, LoopTyped, Moves, CopiesOf
  <1> QED BY <1>3, <1>4, <1>5, <1>6 DEF Fate
\* Authorize moves a call to its handler.
LEMMA MoveStep ==
  ASSUME ToolInv, NEW w \in Workers, NEW i \in DOMAIN copies[w], NEW x \in Places, Moves(w, i, x), UNCHANGED worker,
         x \in {"count", "deliver"} => Mail(copies[w][i].call),
         x \notin {"row", "mirror", "open"}, x = "deliver" => copies[w][i].call.tool # "send_email",
         copies[w][i].at = "arrived", UNCHANGED <<World, story>>
  PROVE  ToolInv'
  <1>1. /\ LoopKept /\ UNCHANGED World /\ story' \in StoryRow /\ story.owed \in Int /\ story'.owed = story.owed
        /\ mailbox' \in [rows : Nat, in : Nat, mirrored : Nat] /\ story'.cold = story.cold /\ story'.crossed = story.crossed
    BY DEF ToolInv, LoopKept, LoopTyped, World, StoryRow
  <1>2. copies[w][i].call \in AnyCall
    BY <1>1, CopyFacts
  <1>3. PICK k : k = Kind(copies[w][i])
    OBVIOUS
  <1>4. PICK c : c = <<x, copies[w][i].call.tool>>
    OBVIOUS
  <1>5. LoopKept' /\ Fate(k, c)
    BY <1>1, <1>3, <1>4, MoveFate
  <1>6. One(k, Owing) = IF Mail(copies[w][i].call) THEN 1 ELSE 0
    <2>1. k = <<"arrived", copies[w][i].call.tool>>
      BY <1>3 DEF Kind
    <2> QED BY <1>2, <2>1, OwingKind
  <1>7. One(c, Owing) \in Nat /\ (One(c, Owing) = 1 => Mail(copies[w][i].call)) /\ One(c, Owing) <= 1
    BY <1>4 DEF One, Owing, Mail
  <1>8. story'.owed >= story.owed - One(k, Owing) + One(c, Owing)
    BY <1>1, <1>6, <1>7
  <1>9. k \notin SendsSent /\ c \notin SendsOut /\ c \notin SendsSent /\ c \notin Mirroring /\ c \notin Opening
    BY <1>3, <1>4 DEF Kind, SendsOut, SendsSent, Mirroring, Opening
  <1> QED BY <1>1, <1>5, <1>8, <1>9, CalmStep
\* Refused calls are owed no more.
LEMMA RefusedRow ==
  ASSUME LoopKept, NEW w \in Workers, NEW i \in DOMAIN copies[w], copies[w][i].at \in {"arrived", "count", "deliver"}, story' = Refused(w, i)
  PROVE  /\ story' \in StoryRow /\ story'.cold = story.cold /\ story.crossed \subseteq story'.crossed
         /\ story'.owed >= story.owed - One(Kind(copies[w][i]), Owing)
  <1>1. copies[w][i].call \in AnyCall /\ story.owed \in Int
    BY CopyFacts DEF LoopKept, LoopTyped, StoryRow
  <1>2. PICK q : q = Owes(copies[w][i].call, -1, 0)
    OBVIOUS
  <1>3. -1 \in Int /\ 0 \in Nat
    OBVIOUS
  <1>4. q \in StoryRow /\ q.cold = story.cold /\ q.crossed = story.crossed
        /\ q.owed = story.owed + (IF Mail(copies[w][i].call) THEN -1 ELSE 0)
    BY <1>2, <1>3, OwesRow
  <1>5. story' = q
    BY <1>2 DEF Refused
  <1>6. PICK k : k = Kind(copies[w][i])
    OBVIOUS
  <1>7. PICK a \in {"arrived", "count", "deliver"} : a = copies[w][i].at
    OBVIOUS
  <1>8. k = <<a, copies[w][i].call.tool>>
    BY <1>6, <1>7 DEF Kind
  <1>9. One(k, Owing) = IF Mail(copies[w][i].call) THEN 1 ELSE 0
    BY <1>1, <1>8, OwingKind
  <1>10. story'.owed >= story.owed - One(k, Owing)
    BY <1>1, <1>4, <1>5, <1>9
  <1> QED BY <1>4, <1>5, <1>6, <1>10

\* Before the handlers.
LEMMA RefuseCallStep ==
  ASSUME ToolInv, NEW w \in Workers, NEW i \in DOMAIN copies[w], RefuseCall(w, i) PROVE ToolInv'
  <1>1. LoopKept /\ copies[w][i].at = "arrived" /\ story' = Refused(w, i) /\ UNCHANGED World
    BY DEF ToolInv, RefuseCall, At
  <1>2. PICK x \in Answers : CopyAnswered(w, i, x)
    BY DEF RefuseCall, Answers
  <1> QED BY <1>1, <1>2, RefusedRow, AnsweredStep
\* A call is let through.
LEMMA AuthorizeStep ==
  ASSUME ToolInv, NEW w \in Workers, NEW i \in DOMAIN copies[w], Authorize(w, i) PROVE ToolInv'
  <1>1. LoopKept /\ copies[w][i].at = "arrived" /\ UNCHANGED <<World, story>> /\ story' \in StoryRow /\ story.owed \in Int
        /\ copies[w][i].call \in AnyCall /\ copies[w][i].call.tool \in Tools
    BY CopyFacts DEF ToolInv, LoopKept, LoopTyped, StoryRow, Authorize, At
  <1> DEFINE t == copies[w][i].call.tool
  <1>2. CASE t \in {"exec", "deploy_site"}
    <2>1. CopyAnswered(w, i, "ok") /\ "ok" \in Answers
      BY <1>2 DEF Authorize, Answers
    <2>2. One(Kind(copies[w][i]), Owing) \in Nat
      BY DEF One
    <2>3. PICK n \in Nat : n = One(Kind(copies[w][i]), Owing)
      BY <2>2
    <2>4. story'.owed >= story.owed - n /\ story'.cold = story.cold /\ story.crossed \subseteq story'.crossed
      BY <1>1
    <2> QED BY <1>1, <2>1, <2>3, <2>4, AnsweredStep
  <1>3. CASE t \notin {"exec", "deploy_site"}
    <2>1. t \in {"send_email", "reply_email", "list_emails", "navigate"}
      BY <1>1, <1>3 DEF Tools
    <2>2. PICK x : x = Busy[t]
      OBVIOUS
    <2>3. Moves(w, i, x) /\ UNCHANGED worker
      BY <1>3, <2>2 DEF Authorize
    <2>4. /\ x \in Places /\ x \notin {"row", "mirror", "open"} /\ (x \in {"count", "deliver"} => Mail(copies[w][i].call))
          /\ (x = "deliver" => t # "send_email")
      BY <2>1, <2>2 DEF Busy, Places, Mail
    <2> QED BY <1>1, <2>3, <2>4, MoveStep
  <1> QED BY <1>2, <1>3

\* Mail. Nobody else between the check and the row: of those kinds there is none yet.
LEMMA Alone ==
  ASSUME LoopKept, NEW w \in Workers, NEW i \in DOMAIN copies[w], NEW K, NEW A, ~Elsewhere(w, i, A),
         copies[w][i].at \notin A, \A k \in K : k[1] \in A
  PROVE  Held(copies, K) = {} /\ N(K) = 0
  <1>1. ASSUME NEW p \in Held(copies, K) PROVE FALSE
    <2>1. p[1] \in Workers /\ p[2] \in DOMAIN copies[p[1]] /\ Kind(copies[p[1]][p[2]]) \in K
      BY DEF Held
    <2>2. copies[p[1]][p[2]].at \in A
      BY <2>1 DEF Kind
    <2>3. <<p[1], p[2]>> # <<w, i>>
      BY <2>2
    <2> QED BY <2>1, <2>2, <2>3 DEF Elsewhere
  <1>2. Held(copies, K) = {}
    BY <1>1
  <1> QED BY <1>2, FS_EmptySet DEF N
\* Where a copy is that is to be counted, delivered or recorded.
LEMMA MailCopy ==
  ASSUME LoopKept, NEW w \in Workers, NEW i \in DOMAIN copies[w], copies[w][i].at \in {"count", "deliver", "row"}
  PROVE  Mail(copies[w][i].call) /\ copies[w][i].call.tool \in {"send_email", "reply_email"}
  <1>1. copies[w][i] \in CopyRow
    BY CopyFacts
  <1> QED BY <1>1 DEF CopyRow, Mail
\* The cap is checked: the call is the only one beyond its check, or two have crossed.
LEMMA CheckCapStep ==
  ASSUME ToolInv, NEW w \in Workers, NEW i \in DOMAIN copies[w], CheckCap(w, i) PROVE ToolInv'
  <1>1. LoopKept /\ copies[w][i].at = "count" /\ UNCHANGED World
    BY DEF ToolInv, CheckCap, At
  <1>2. CASE ~UnderMailCap
    <2>1. CopyAnswered(w, i, "error") /\ story' = Refused(w, i) /\ "error" \in Answers
      BY <1>2 DEF CheckCap, Answers
    <2> QED BY <1>1, <2>1, RefusedRow, AnsweredStep
  <1>3. CASE UnderMailCap
    <2> DEFINE t == copies[w][i].call.tool
    <2>1. PICK now \in BOOLEAN : now = Elsewhere(w, i, {"deliver", "row"})
      BY DEF Elsewhere
    <2>2. Moves(w, i, "deliver") /\ UNCHANGED worker /\ Crossed(now, "mail")
      BY <1>3, <2>1 DEF CheckCap
    <2>3. /\ story' \in StoryRow /\ story'.owed = story.owed /\ story'.cold = story.cold /\ story.crossed \subseteq story'.crossed
          /\ (now => "mail" \in story'.crossed)
      BY <1>1, <2>2, CrossedRow
    <2>4. UNCHANGED <<mailbox, sessions, contexts>> /\ mailbox \in [rows : Nat, in : Nat, mirrored : Nat] /\ story.owed \in Int
          /\ story.cold \in Int /\ MailCap \in Nat
      BY <1>1, WorkerLoopAssumption DEF World, LoopKept, LoopTyped, StoryRow
    <2>5. Mail(copies[w][i].call) /\ t \in {"send_email", "reply_email"}
      BY <1>1, MailCopy
    <2>6. PICK k : k = <<"count", t>> /\ k = Kind(copies[w][i])
      BY <1>1 DEF Kind
    <2>7. PICK c : c = <<"deliver", t>>
      OBVIOUS
    <2>8. LoopKept' /\ Fate(k, c)
      <3>1. "deliver" \in Places
        BY DEF Places
      <3> QED BY <2>2, <2>3, <2>4, <2>5, <2>6, <2>7, <3>1, MoveFate
    <2>9. /\ One(k, Owing) = 1 /\ One(c, Owing) = 1 /\ One(k, SendsOut) = 0 /\ One(k, SendsSent) = 0 /\ One(c, SendsSent) = 0
          /\ One(c, SendsOut) = IF t = "send_email" THEN 1 ELSE 0
      BY <2>5, <2>6, <2>7 DEF One, Owing, SendsOut, SendsSent
    <2>10. OwedKept'
      <3>1. story'.owed >= story.owed - One(k, Owing) + One(c, Owing)
        BY <2>3, <2>4, <2>9
      <3> QED BY <2>8, <3>1, OwedStays
    <2>11. MailInv'
      <3>1. CASE now
        BY <2>3, <3>1 DEF MailInv
      <3>2. CASE "mail" \in story.crossed
        BY <2>3, <3>2 DEF MailInv
      <3>3. CASE ~now /\ MailInTurn
        <4>1. N(SendsOut) = 0 /\ N(SendsSent) = 0
          <5>1. \A x \in SendsOut : x[1] \in {"deliver", "row"}
            BY DEF SendsOut
          <5>2. \A x \in SendsSent : x[1] \in {"deliver", "row"}
            BY DEF SendsSent
          <5>3. N(SendsOut) = 0
            BY <1>1, <2>1, <3>3, <5>1, Alone
          <5>4. N(SendsSent) = 0
            BY <1>1, <2>1, <3>3, <5>2, Alone
          <5> QED BY <5>3, <5>4
        <4>2. N(SendsOut)' = N(SendsOut) - One(k, SendsOut) + One(c, SendsOut)
          BY <2>8, Counted DEF Watched
        <4>3. N(SendsSent)' = N(SendsSent) - One(k, SendsSent) + One(c, SendsSent)
          BY <2>8, Counted DEF Watched
        <4>4. N(SendsOut)' \in {0, 1} /\ N(SendsSent)' = 0
          BY <2>9, <4>1, <4>2, <4>3
        <4>5. MailInTurn'
          BY <1>3, <2>3, <2>4, <3>3, <4>1, <4>4 DEF MailInTurn, UnderMailCap
        <4> QED BY <4>5 DEF MailInv
      <3> QED BY <3>1, <3>2, <3>3 DEF ToolInv, MailInv
    <2>12. InboxInv' /\ BrowserInv'
      <3>1. c \notin Mirroring /\ c \notin Opening
        BY <2>7 DEF Mirroring, Opening
      <3>2. mailbox'.mirrored = mailbox.mirrored /\ mailbox'.in >= mailbox.in
        BY <2>4
      <3>3. InboxInv'
        BY <2>3, <2>8, <3>1, <3>2, InboxStays
      <3>4. BrowserInv'
        BY <2>3, <2>4, <2>8, <3>1, BrowserStays
      <3> QED BY <3>3, <3>4
    <2> QED BY <2>8, <2>10, <2>11, <2>12, Together
  <1> QED BY <1>2, <1>3

\* The provider refuses.
LEMMA NotDeliveredStep ==
  ASSUME ToolInv, NEW w \in Workers, NEW i \in DOMAIN copies[w], NotDelivered(w, i) PROVE ToolInv'
  <1>1. /\ LoopKept /\ copies[w][i].at = "deliver" /\ story' = Refused(w, i) /\ UNCHANGED World
        /\ CopyAnswered(w, i, "error") /\ "error" \in Answers
    BY DEF ToolInv, NotDelivered, At, Answers, World, CopyAnswered
  <1> QED BY <1>1, RefusedRow, AnsweredStep
\* A delivery in the history, and a message gone out that no row tells of.
LEMMA OutRow ==
  ASSUME LoopKept, NEW m \in Int, NEW n \in Int, story' = [story EXCEPT !.owed = @ + m, !.cold = @ + n]
  PROVE  story' \in StoryRow /\ story'.owed = story.owed + m /\ story'.cold = story.cold + n /\ story'.crossed = story.crossed
  <1>1. PICK r \in StoryRow : r = story
    BY DEF LoopKept, LoopTyped
  <1>2. PICK a \in Int : a = r.owed + m
    BY DEF StoryRow
  <1>3. PICK b \in Int : b = r.cold + n
    BY DEF StoryRow
  <1>4. PICK p : p = [r EXCEPT !.owed = a]
    OBVIOUS
  <1>5. p \in StoryRow /\ p.owed = a /\ p.cold = r.cold /\ p.crossed = r.crossed
    BY <1>4 DEF StoryRow
  <1>6. PICK q : q = [p EXCEPT !.cold = b]
    OBVIOUS
  <1>7. q \in StoryRow /\ q.owed = p.owed /\ q.cold = b /\ q.crossed = p.crossed
    BY <1>5, <1>6 DEF StoryRow
  <1>8. story' = q
    BY <1>1, <1>2, <1>3, <1>4, <1>6
  <1> QED BY <1>1, <1>2, <1>3, <1>5, <1>7, <1>8
\* The message goes out: it is owed no more, and is to be recorded.
LEMMA DeliverStep ==
  ASSUME ToolInv, NEW w \in Workers, NEW i \in DOMAIN copies[w], Deliver(w, i) PROVE ToolInv'
  <1>1. LoopKept /\ copies[w][i].at = "deliver" /\ UNCHANGED <<mailbox, sessions, contexts>> /\ UNCHANGED worker /\ Moves(w, i, "row")
    BY DEF ToolInv, Deliver, At, World
  <1> DEFINE t == copies[w][i].call.tool
  <1>2. mailbox \in [rows : Nat, in : Nat, mirrored : Nat] /\ story.owed \in Int /\ story.cold \in Int /\ MailCap \in Nat
    BY <1>1, WorkerLoopAssumption DEF LoopKept, LoopTyped, StoryRow
  <1>3. Mail(copies[w][i].call) /\ t \in {"send_email", "reply_email"}
    BY <1>1, MailCopy
  <1>4. PICK n \in {0, 1} : n = Cold(w, i)
    BY DEF Cold
  <1>5. n = IF t = "send_email" THEN 1 ELSE 0
    BY <1>4 DEF Cold
  <1>6. story' \in StoryRow /\ story'.owed = story.owed - 1 /\ story'.cold = story.cold + n /\ story'.crossed = story.crossed
    <2>1. story' = [story EXCEPT !.owed = @ + (-1), !.cold = @ + n]
      <3>1. story.owed - 1 = story.owed + (-1)
        BY <1>2
      <3> QED BY <1>4, <3>1 DEF Deliver
    <2>2. PICK m \in Int : m = -1
      OBVIOUS
    <2>3. n \in Int
      OBVIOUS
    <2>4. story' = [story EXCEPT !.owed = @ + m, !.cold = @ + n]
      BY <2>1, <2>2
    <2>5. story' \in StoryRow /\ story'.owed = story.owed + m /\ story'.cold = story.cold + n /\ story'.crossed = story.crossed
      BY <1>1, <2>3, <2>4, OutRow
    <2> QED BY <1>2, <2>2, <2>5
  <1>7. PICK k : k = <<"deliver", t>> /\ k = Kind(copies[w][i])
    BY <1>1 DEF Kind
  <1>8. PICK c : c = <<"row", t>>
    OBVIOUS
  <1>9. LoopKept' /\ Fate(k, c)
    <2>1. "row" \in Places
      BY DEF Places
    <2> QED BY <1>1, <1>2, <1>3, <1>6, <1>7, <1>8, <2>1, MoveFate
  <1>10. /\ One(k, Owing) = 1 /\ One(c, Owing) = 0 /\ One(k, SendsOut) = n /\ One(c, SendsOut) = 0
         /\ One(k, SendsSent) = 0 /\ One(c, SendsSent) = n
    BY <1>3, <1>5, <1>7, <1>8 DEF One, Owing, SendsOut, SendsSent
  <1>11. OwedKept'
    <2>1. story'.owed >= story.owed - One(k, Owing) + One(c, Owing)
      BY <1>2, <1>6, <1>10
    <2> QED BY <1>9, <2>1, OwedStays
  <1>12. MailInv'
    <2>1. CASE "mail" \in story.crossed
      BY <1>6, <2>1 DEF MailInv
    <2>2. CASE MailInTurn
      <3>1. N(SendsOut) \in Nat /\ N(SendsOut)' \in Nat /\ N(SendsOut)' = N(SendsOut) - n + 0
        BY <1>9, <1>10, Counted DEF Watched
      <3>2. N(SendsSent) \in Nat /\ N(SendsSent)' \in Nat /\ N(SendsSent)' = N(SendsSent) - 0 + n
        BY <1>9, <1>10, Counted DEF Watched
      <3>3. MailInTurn'
        BY <1>1, <1>2, <1>6, <2>2, <3>1, <3>2 DEF MailInTurn
      <3> QED BY <3>3 DEF MailInv
    <2> QED BY <2>1, <2>2 DEF ToolInv, MailInv
  <1>13. InboxInv' /\ BrowserInv'
    <2>1. c \notin Mirroring /\ c \notin Opening
      BY <1>8 DEF Mirroring, Opening
    <2>2. mailbox'.mirrored = mailbox.mirrored /\ mailbox'.in >= mailbox.in
      BY <1>1, <1>2
    <2>3. InboxInv'
      BY <1>6, <1>9, <2>1, <2>2, InboxStays
    <2>4. BrowserInv'
      BY <1>1, <1>6, <1>9, <2>1, BrowserStays
    <2> QED BY <2>3, <2>4
  <1> QED BY <1>9, <1>11, <1>12, <1>13, Together
\* The row of a message that went out, or its loss.
LEMMA RowStep ==
  ASSUME ToolInv, NEW w \in Workers, NEW i \in DOMAIN copies[w], copies[w][i].at = "row", NEW x \in Answers, CopyAnswered(w, i, x),
         mailbox' \in [rows : Nat, in : Nat, mirrored : Nat], mailbox'.mirrored = mailbox.mirrored, mailbox'.in = mailbox.in,
         UNCHANGED <<sessions, contexts>>, story' \in StoryRow, story'.owed = story.owed, story'.crossed = story.crossed,
         \/ mailbox'.rows = mailbox.rows + 1 /\ story'.cold = story.cold
         \/ mailbox'.rows = mailbox.rows /\ story'.cold = story.cold - Cold(w, i)
  PROVE  ToolInv'
  <1> DEFINE t == copies[w][i].call.tool
  <1>1. LoopKept /\ mailbox \in [rows : Nat, in : Nat, mirrored : Nat] /\ story.owed \in Int /\ story.cold \in Int /\ MailCap \in Nat
        /\ story'.cold \in Int
    BY WorkerLoopAssumption DEF ToolInv, LoopKept, LoopTyped, StoryRow
  <1>2. t \in {"send_email", "reply_email"}
    BY <1>1, MailCopy
  <1>3. PICK n \in {0, 1} : n = Cold(w, i)
    BY DEF Cold
  <1>4. n = IF t = "send_email" THEN 1 ELSE 0
    BY <1>3 DEF Cold
  <1>5. PICK k : k = <<"row", t>> /\ k = Kind(copies[w][i])
    BY DEF Kind
  <1>6. LoopKept'
    BY <1>1, AnswersOne
  <1>7. Fate(k, NoKind)
    <2>1. ASSUME NEW K \in Watched PROVE Goes(copies, copies', K, k, NoKind)
      BY <1>1, <1>5, WatchedKinds, AnswerGoes
    <2> QED BY <2>1 DEF Fate
  <1>8. /\ One(k, Owing) = 0 /\ One(NoKind, Owing) = 0 /\ One(k, SendsOut) = 0 /\ One(NoKind, SendsOut) = 0
        /\ One(k, SendsSent) = n /\ One(NoKind, SendsSent) = 0
    BY <1>2, <1>4, <1>5 DEF One, Owing, SendsOut, SendsSent, NoKind
  <1>9. OwedKept'
    <2>1. story'.owed >= story.owed - One(k, Owing) + One(NoKind, Owing)
      BY <1>1, <1>8
    <2> QED BY <1>6, <1>7, <2>1, OwedStays
  <1>10. MailInv'
    <2>1. CASE "mail" \in story.crossed
      BY <2>1 DEF MailInv
    <2>2. CASE MailInTurn
      <3>1. N(SendsOut) \in Nat /\ N(SendsOut)' \in Nat /\ N(SendsOut)' = N(SendsOut) - 0 + 0
        BY <1>7, <1>8, Counted DEF Watched
      <3>2. N(SendsSent) \in Nat /\ N(SendsSent)' \in Nat /\ N(SendsSent)' = N(SendsSent) - n + 0
        BY <1>7, <1>8, Counted DEF Watched
      <3>3. \/ mailbox'.rows = mailbox.rows + 1 /\ story'.cold = story.cold
            \/ mailbox'.rows = mailbox.rows /\ story'.cold = story.cold - n
        BY <1>3
      <3>4. MailInTurn'
        BY <1>1, <2>2, <3>1, <3>2, <3>3 DEF MailInTurn
      <3> QED BY <3>4 DEF MailInv
    <2> QED BY <2>1, <2>2 DEF ToolInv, MailInv
  <1>11. InboxInv'
    <2>1. mailbox'.in >= mailbox.in
      BY <1>1
    <2> QED BY <1>6, <1>7, <2>1, NoKindOwing, InboxStays
  <1>12. BrowserInv'
    BY <1>7, NoKindOwing, BrowserStays
  <1> QED BY <1>6, <1>7, <1>9, <1>10, <1>11, <1>12, Together
\* The row is recorded,
LEMMA RecordRowStep ==
  ASSUME ToolInv, NEW w \in Workers, NEW i \in DOMAIN copies[w], RecordRow(w, i) PROVE ToolInv'
  <1>1. /\ copies[w][i].at = "row" /\ CopyAnswered(w, i, "ok") /\ "ok" \in Answers /\ UNCHANGED <<sessions, contexts>> /\ UNCHANGED story
        /\ mailbox' = [mailbox EXCEPT !.rows = @ + 1]
    BY DEF RecordRow, At, Answers
  <1>2. mailbox \in [rows : Nat, in : Nat, mirrored : Nat] /\ story' \in StoryRow
    BY <1>1 DEF ToolInv, LoopKept, LoopTyped
  <1>3. /\ mailbox' \in [rows : Nat, in : Nat, mirrored : Nat] /\ mailbox'.mirrored = mailbox.mirrored /\ mailbox'.in = mailbox.in
        /\ mailbox'.rows = mailbox.rows + 1
    BY <1>1, <1>2
  <1> QED BY <1>1, <1>2, <1>3, RowStep
\* or lost.
LEMMA RowLostStep ==
  ASSUME ToolInv, NEW w \in Workers, NEW i \in DOMAIN copies[w], RowLost(w, i) PROVE ToolInv'
  <1>1. /\ copies[w][i].at = "row" /\ CopyAnswered(w, i, "error") /\ "error" \in Answers /\ UNCHANGED <<mailbox, sessions, contexts>>
        /\ story' = [story EXCEPT !.cold = @ - Cold(w, i)]
    BY DEF RowLost, At, Answers, World
  <1>2. LoopKept /\ mailbox' \in [rows : Nat, in : Nat, mirrored : Nat]
    BY <1>1 DEF ToolInv, LoopKept, LoopTyped
  <1>3. PICK n \in {0, 1} : n = Cold(w, i)
    BY DEF Cold
  <1>4. PICK r \in StoryRow : r = story
    BY <1>2 DEF LoopKept, LoopTyped
  <1>5. PICK b \in Int : b = r.cold - n
    BY DEF StoryRow
  <1>6. PICK q : q = [r EXCEPT !.cold = b]
    OBVIOUS
  <1>7. q \in StoryRow /\ q.owed = r.owed /\ q.crossed = r.crossed /\ q.cold = b
    BY <1>6 DEF StoryRow
  <1>8. story' = q
    BY <1>1, <1>3, <1>4, <1>5, <1>6
  <1>9. story' \in StoryRow /\ story'.owed = story.owed /\ story'.crossed = story.crossed /\ story'.cold = story.cold - Cold(w, i)
    BY <1>3, <1>4, <1>5, <1>7, <1>8
  <1> QED BY <1>1, <1>2, <1>9, RowStep
\* Every step of the mail tools.
LEMMA EmailSteps ==
  ASSUME ToolInv, NEW w \in Workers, NEW i \in DOMAIN copies[w], Email(w, i) PROVE ToolInv'
  BY CheckCapStep, DeliverStep, NotDeliveredStep, RecordRowStep, RowLostStep DEF Email

\* The inbox mirror.
LEMMA LookUpMirrorStep ==
  ASSUME ToolInv, NEW w \in Workers, NEW i \in DOMAIN copies[w], LookUpMirror(w, i) PROVE ToolInv'
  <1>1. LoopKept /\ copies[w][i].at = "look" /\ UNCHANGED World /\ UNCHANGED <<mailbox, sessions, contexts>>
    BY DEF ToolInv, LookUpMirror, At, World
  <1>2. PICK now \in BOOLEAN : now = Elsewhere(w, i, {"mirror"})
    BY DEF Elsewhere
  <1>3. /\ story' \in StoryRow /\ story'.owed = story.owed /\ story'.cold = story.cold /\ story.crossed \subseteq story'.crossed
        /\ (now => "inbox" \in story'.crossed)
    <2>1. Crossed(now, "inbox")
      BY <1>2 DEF LookUpMirror
    <2> QED BY <1>1, <2>1, CrossedRow
  <1> DEFINE t == copies[w][i].call.tool
  <1>4. PICK k : k = <<"look", t>> /\ k = Kind(copies[w][i])
    BY <1>1 DEF Kind
  <1>5. One(k, Owing) = 0 /\ One(k, Mirroring) = 0 /\ k \notin SendsSent
    BY <1>4 DEF One, Owing, Mirroring, SendsSent
  <1>6. story.owed \in Int /\ mailbox \in [rows : Nat, in : Nat, mirrored : Nat] /\ t \in Tools
    BY <1>1, CopyFacts DEF LoopKept, LoopTyped, StoryRow
  <1>7. CASE ~(mailbox.mirrored < mailbox.in)
    <2>1. CopyAnswered(w, i, "ok") /\ "ok" \in Answers
      BY <1>7 DEF LookUpMirror, Answers
    <2>2. story'.owed >= story.owed - One(k, Owing)
      BY <1>3, <1>5, <1>6
    <2> QED BY <1>1, <1>3, <1>4, <2>1, <2>2, AnsweredStep
  <1>8. CASE mailbox.mirrored < mailbox.in
    <2>1. Moves(w, i, "mirror") /\ UNCHANGED worker
      BY <1>8 DEF LookUpMirror
    <2>2. PICK c : c = <<"mirror", t>>
      OBVIOUS
    <2>3. LoopKept' /\ Fate(k, c)
      <3>1. "mirror" \in Places
        BY DEF Places
      <3> QED BY <1>1, <1>3, <1>4, <1>6, <2>1, <2>2, <3>1, MoveFate
    <2>4. One(c, Owing) = 0 /\ One(c, Mirroring) = 1 /\ c \notin SendsOut /\ c \notin SendsSent /\ c \notin Opening
      BY <1>6, <2>2 DEF One, Owing, Mirroring, SendsOut, SendsSent, Opening
    <2>5. OwedKept'
      <3>1. story'.owed >= story.owed - One(k, Owing) + One(c, Owing)
        BY <1>3, <1>5, <1>6, <2>4
      <3> QED BY <2>3, <3>1, OwedStays
    <2>6. MailInv'
      <3>1. mailbox'.rows >= mailbox.rows
        BY <1>1, <1>6
      <3> QED BY <1>3, <1>5, <2>3, <2>4, <3>1, MailStays
    <2>7. InboxInv'
      <3>1. CASE now \/ "inbox" \in story.crossed
        BY <1>3, <3>1 DEF InboxInv
      <3>2. CASE ~now /\ InboxInTurn
        <4>1. N(Mirroring) = 0
          <5>1. \A x \in Mirroring : x[1] \in {"mirror"}
            BY DEF Mirroring
          <5>2. copies[w][i].at \notin {"mirror"}
            BY <1>1
          <5> QED BY <1>1, <1>2, <3>2, <5>1, <5>2, Alone
        <4>2. N(Mirroring)' = N(Mirroring) - 0 + 1
          BY <1>5, <2>3, <2>4, Counted DEF Watched
        <4>3. N(Mirroring)' = 1
          BY <4>1, <4>2
        <4>4. InboxInTurn'
          BY <1>1, <1>6, <1>8, <4>3 DEF InboxInTurn
        <4> QED BY <4>4 DEF InboxInv
      <3> QED BY <3>1, <3>2 DEF ToolInv, InboxInv
    <2>8. BrowserInv'
      BY <1>1, <1>3, <2>3, <2>4, BrowserStays
    <2> QED BY <2>3, <2>5, <2>6, <2>7, <2>8, Together
  <1> QED BY <1>7, <1>8
\* A message is mirrored.
LEMMA InsertMirrorStep ==
  ASSUME ToolInv, NEW w \in Workers, NEW i \in DOMAIN copies[w], InsertMirror(w, i) PROVE ToolInv'
  <1>1. /\ LoopKept /\ copies[w][i].at = "mirror" /\ UNCHANGED <<worker, sessions, contexts, story>> /\ Moves(w, i, "look")
        /\ mailbox' = [mailbox EXCEPT !.mirrored = @ + 1]
    BY DEF ToolInv, InsertMirror, At
  <1> DEFINE t == copies[w][i].call.tool
  <1>2. /\ story.owed \in Int /\ mailbox \in [rows : Nat, in : Nat, mirrored : Nat] /\ t \in Tools /\ story' \in StoryRow
        /\ UNCHANGED worker
    BY <1>1, CopyFacts DEF LoopKept, LoopTyped, StoryRow
  <1>3. /\ mailbox' \in [rows : Nat, in : Nat, mirrored : Nat] /\ mailbox'.rows >= mailbox.rows /\ mailbox'.in = mailbox.in
        /\ mailbox'.mirrored = mailbox.mirrored + 1
    BY <1>1, <1>2
  <1>4. PICK k : k = <<"mirror", t>> /\ k = Kind(copies[w][i])
    BY <1>1 DEF Kind
  <1>5. PICK c : c = <<"look", t>>
    OBVIOUS
  <1>6. LoopKept' /\ Fate(k, c)
    <2>1. "look" \in Places
      BY DEF Places
    <2> QED BY <1>1, <1>2, <1>3, <1>4, <1>5, <2>1, MoveFate
  <1>7. /\ One(k, Owing) = 0 /\ One(c, Owing) = 0 /\ One(k, Mirroring) = 1 /\ One(c, Mirroring) = 0
        /\ k \notin SendsSent /\ c \notin SendsOut /\ c \notin SendsSent /\ c \notin Opening
    BY <1>2, <1>4, <1>5 DEF One, Owing, Mirroring, SendsOut, SendsSent, Opening
  <1>8. OwedKept'
    <2>1. story'.owed >= story.owed - One(k, Owing) + One(c, Owing)
      BY <1>1, <1>2, <1>7
    <2> QED BY <1>6, <2>1, OwedStays
  <1>9. MailInv'
    BY <1>1, <1>3, <1>6, <1>7, MailStays
  <1>10. InboxInv'
    <2>1. CASE "inbox" \in story.crossed
      BY <1>1, <2>1 DEF InboxInv
    <2>2. CASE InboxInTurn
      <3>1. N(Mirroring) \in Nat /\ N(Mirroring)' \in Nat /\ N(Mirroring)' = N(Mirroring) - 1 + 0
        BY <1>6, <1>7, Counted DEF Watched
      <3>2. InboxInTurn'
        BY <1>2, <1>3, <2>2, <3>1 DEF InboxInTurn
      <3> QED BY <3>2 DEF InboxInv
    <2> QED BY <2>1, <2>2 DEF ToolInv, InboxInv
  <1>11. BrowserInv'
    BY <1>1, <1>6, <1>7, BrowserStays
  <1> QED BY <1>6, <1>8, <1>9, <1>10, <1>11, Together
\* The sync is best effort.
LEMMA SyncFailsStep ==
  ASSUME ToolInv, NEW w \in Workers, NEW i \in DOMAIN copies[w], SyncFails(w, i) PROVE ToolInv'
  <1>1. /\ LoopKept /\ copies[w][i].at \in {"look", "mirror"} /\ CopyAnswered(w, i, "ok") /\ "ok" \in Answers
        /\ UNCHANGED <<World, story>>
    BY DEF ToolInv, SyncFails, At, Answers
  <1>2. story' \in StoryRow /\ story.owed \in Int
    BY <1>1 DEF LoopKept, LoopTyped, StoryRow
  <1>3. One(Kind(copies[w][i]), Owing) = 0
    BY <1>1 DEF One, Kind, Owing
  <1>4. story'.owed >= story.owed - One(Kind(copies[w][i]), Owing)
    BY <1>1, <1>2, <1>3
  <1> QED BY <1>1, <1>2, <1>4, AnsweredStep
\* Every step of the inbox mirror.
LEMMA InboxSteps ==
  ASSUME ToolInv, NEW w \in Workers, NEW i \in DOMAIN copies[w], Inbox(w, i) PROVE ToolInv'
  BY LookUpMirrorStep, InsertMirrorStep, SyncFailsStep DEF Inbox

\* The browser's sessions: distinct, the first evicted, the last used moved to the end.
LEMMA Evicted ==
  ASSUME NEW s \in Seq(Workers), Distinct(s), s # <<>>
  PROVE  /\ Tail(s) \in Seq(Workers) /\ Distinct(Tail(s)) /\ Len(Tail(s)) = Len(s) - 1 /\ Head(s) \in Workers
         /\ \A v \in Workers : Contains(Tail(s), v) <=> Contains(s, v) /\ v # Head(s)
         /\ ContextsOf(Tail(s)) = [ContextsOf(s) EXCEPT ![Head(s)] = @ - 1]
  <1>1. /\ Tail(s) \in Seq(Workers) /\ Len(Tail(s)) = Len(s) - 1 /\ Head(s) \in Workers /\ Head(s) = s[1] /\ Len(s) \in Nat /\ Len(s) >= 1
        /\ \A j \in 1..(Len(s) - 1) : Tail(s)[j] = s[j + 1]
    BY HeadTailProperties, EmptySeq
  <1>2. DOMAIN s = 1..Len(s) /\ DOMAIN Tail(s) = 1..(Len(s) - 1)
    BY <1>1, LenProperties
  <1> DEFINE t == Tail(s)
  <1> HIDE DEF t
  <1>3. Distinct(t)
    <2> SUFFICES ASSUME NEW j \in DOMAIN t, NEW k \in DOMAIN t, t[j] = t[k] PROVE j = k
      BY DEF Distinct
    <2>1. j + 1 \in DOMAIN s /\ k + 1 \in DOMAIN s /\ s[j + 1] = s[k + 1] /\ j \in Int /\ k \in Int
      BY <1>1, <1>2 DEF t
    <2>2. j + 1 = k + 1
      BY <2>1 DEF Distinct
    <2> QED BY <2>1, <2>2
  <1>4. ASSUME NEW v \in Workers PROVE Contains(t, v) <=> Contains(s, v) /\ v # Head(s)
    <2>1. ASSUME NEW j \in 1..Len(t), t[j] = v PROVE Contains(s, v) /\ v # Head(s)
      <3>1. j + 1 \in DOMAIN s /\ s[j + 1] = v /\ 1 \in DOMAIN s /\ j + 1 # 1
        BY <1>1, <1>2, <2>1 DEF t
      <3>2. v # s[1]
        BY <3>1 DEF Distinct
      <3> QED BY <1>1, <1>2, <3>1, <3>2 DEF Contains
    <2>2. ASSUME NEW j \in 1..Len(s), s[j] = v, v # Head(s) PROVE Contains(t, v)
      <3>1. j # 1 /\ j - 1 \in 1..(Len(s) - 1) /\ j - 1 + 1 = j
        BY <1>1, <2>2
      <3>2. t[j - 1] = v
        BY <1>1, <2>2, <3>1 DEF t
      <3> QED BY <1>1, <3>1, <3>2 DEF Contains, t
    <2> QED BY <2>1, <2>2 DEF Contains
  <1>5. Contains(s, Head(s))
    <2>1. 1 \in 1..Len(s)
      BY <1>1
    <2> QED BY <1>1, <2>1 DEF Contains
  <1>6. ContextsOf(t) = [ContextsOf(s) EXCEPT ![Head(s)] = @ - 1]
    <2>1. ASSUME NEW v \in Workers PROVE ContextsOf(t)[v] = [ContextsOf(s) EXCEPT ![Head(s)] = @ - 1][v]
      BY <1>1, <1>4, <1>5 DEF ContextsOf
    <2> QED BY <2>1 DEF ContextsOf
  <1> QED BY <1>1, <1>3, <1>4, <1>6 DEF t
\* A session opened is the last,
LEMMA SessionAdded ==
  ASSUME NEW s \in Seq(Workers), Distinct(s), NEW w \in Workers, ~Contains(s, w)
  PROVE  /\ Append(s, w) \in Seq(Workers) /\ Distinct(Append(s, w)) /\ Len(Append(s, w)) = Len(s) + 1
         /\ \A v \in Workers : Contains(Append(s, w), v) <=> Contains(s, v) \/ v = w
  <1>1. /\ Append(s, w) \in Seq(Workers) /\ Len(Append(s, w)) = Len(s) + 1 /\ Append(s, w)[Len(s) + 1] = w
        /\ \A j \in 1..Len(s) : Append(s, w)[j] = s[j]
    BY AppendProperties
  <1>2. Len(s) \in Nat /\ DOMAIN s = 1..Len(s) /\ DOMAIN Append(s, w) = 1..(Len(s) + 1)
    BY <1>1, LenProperties
  <1> DEFINE t == Append(s, w)
  <1> HIDE DEF t
  <1>3. ASSUME NEW j \in 1..(Len(s) + 1) PROVE (j \in 1..Len(s) /\ t[j] = s[j] /\ t[j] # w) \/ (j = Len(s) + 1 /\ t[j] = w)
    <2>1. CASE j = Len(s) + 1
      BY <1>1, <2>1 DEF t
    <2>2. CASE j # Len(s) + 1
      <3>1. j \in 1..Len(s)
        BY <1>2, <2>2
      <3> QED BY <1>1, <3>1 DEF t, Contains
    <2> QED BY <2>1, <2>2
  <1>4. Distinct(t)
    <2> SUFFICES ASSUME NEW j \in 1..(Len(s) + 1), NEW k \in 1..(Len(s) + 1), t[j] = t[k] PROVE j = k
      BY <1>2 DEF Distinct, t
    <2> QED BY <1>2, <1>3 DEF Distinct
  <1>5. ASSUME NEW v \in Workers PROVE Contains(t, v) <=> Contains(s, v) \/ v = w
    <2>1. Len(s) + 1 \in 1..(Len(s) + 1) /\ 1..Len(s) \subseteq 1..(Len(s) + 1) /\ Len(t) = Len(s) + 1
      BY <1>1, <1>2 DEF t
    <2>2. t[Len(s) + 1] = w /\ \A j \in 1..Len(s) : t[j] = s[j]
      BY <1>1 DEF t
    <2>3. Contains(t, v) => Contains(s, v) \/ v = w
      BY <1>3, <2>1 DEF Contains
    <2>4. Contains(s, v) \/ v = w => Contains(t, v)
      BY <2>1, <2>2 DEF Contains
    <2> QED BY <2>3, <2>4
  <1> QED BY <1>1, <1>4, <1>5 DEF t
\* and one used again moves there.
LEMMA SessionUsed ==
  ASSUME NEW s \in Seq(Workers), Distinct(s), NEW w \in Workers, Contains(s, w)
  PROVE  /\ Used(s, w) \in Seq(Workers) /\ Distinct(Used(s, w)) /\ Len(Used(s, w)) = Len(s)
         /\ \A v \in Workers : Contains(Used(s, w), v) <=> Contains(s, v)
  <1>1. Len(s) \in Nat /\ DOMAIN s = 1..Len(s)
    BY LenProperties
  <1>2. PICK i \in 1..Len(s) : s[i] = w /\ Used(s, w) = Append(RemoveAt(s, i), w)
    <2>1. \E i \in DOMAIN s : s[i] = w
      BY <1>1 DEF Contains
    <2>2. PICK i : i = CHOOSE j \in DOMAIN s : s[j] = w
      OBVIOUS
    <2>3. i \in DOMAIN s /\ s[i] = w
      BY <2>1, <2>2
    <2>4. Used(s, w) = Append(RemoveAt(s, i), w)
      BY <2>2 DEF Used
    <2> QED BY <1>1, <2>3, <2>4
  <1>3. PICK t : t = RemoveAt(s, i)
    OBVIOUS
  <1>4. t \in Seq(Workers) /\ Len(t) = Len(s) - 1 /\ \A j \in 1..(Len(s) - 1) : t[j] = IF j < i THEN s[j] ELSE s[j + 1]
    BY <1>3, RemovedSeq
  <1>5. DOMAIN t = 1..(Len(s) - 1)
    BY <1>4, LenProperties
  <1> DEFINE f(j) == IF j < i THEN j ELSE j + 1
  <1>6. ASSUME NEW j \in DOMAIN t PROVE t[j] = s[f(j)] /\ f(j) \in DOMAIN s /\ f(j) # i
    BY <1>1, <1>4, <1>5
  <1>7. ASSUME NEW j \in DOMAIN t, NEW k \in DOMAIN t, f(j) = f(k) PROVE j = k
    BY <1>1, <1>5, <1>7
  <1>8. ASSUME NEW k \in DOMAIN s, k # i PROVE \E j \in DOMAIN t : f(j) = k
    <2>1. CASE k < i
      <3>1. k \in DOMAIN t /\ f(k) = k
        BY <1>1, <1>5, <2>1
      <3> QED BY <3>1
    <2>2. CASE ~(k < i)
      <3>1. k - 1 \in DOMAIN t /\ f(k - 1) = k
        BY <1>1, <1>5, <1>8, <2>2
      <3> QED BY <3>1
    <2> QED BY <2>1, <2>2
  <1> HIDE DEF f
  <1>9. Distinct(t)
    BY <1>6, <1>7 DEF Distinct
  <1>10. ASSUME NEW v \in Workers PROVE Contains(t, v) <=> Contains(s, v) /\ v # w
    <2>1. Contains(t, v) <=> \E j \in DOMAIN t : t[j] = v
      BY <1>4, <1>5 DEF Contains
    <2>2. Contains(s, v) <=> \E j \in DOMAIN s : s[j] = v
      BY <1>1 DEF Contains
    <2>3. Contains(t, v) => Contains(s, v) /\ v # w
      <3>1. \A k \in DOMAIN s : s[k] = w => k = i
        BY <1>1, <1>2 DEF Distinct
      <3> QED BY <1>6, <2>1, <2>2, <3>1
    <2>4. Contains(s, v) /\ v # w => Contains(t, v)
      <3> SUFFICES ASSUME NEW k \in DOMAIN s, s[k] = v, v # w PROVE \E j \in DOMAIN t : t[j] = v
        BY <2>1, <2>2
      <3>1. k # i
        BY <1>2
      <3>2. PICK j \in DOMAIN t : f(j) = k
        BY <1>8, <3>1
      <3> QED BY <1>6, <3>2
    <2> QED BY <2>3, <2>4
  <1>11. ~Contains(t, w)
    BY <1>10
  <1>12. /\ Append(t, w) \in Seq(Workers) /\ Distinct(Append(t, w)) /\ Len(Append(t, w)) = Len(t) + 1
         /\ \A v \in Workers : Contains(Append(t, w), v) <=> Contains(t, v) \/ v = w
    BY <1>4, <1>9, <1>11, SessionAdded
  <1>13. Len(t) + 1 = Len(s)
    BY <1>1, <1>4
  <1>14. \A v \in Workers : Contains(Append(t, w), v) <=> Contains(s, v)
    BY <1>10, <1>12
  <1> QED BY <1>2, <1>3, <1>12, <1>13, <1>14

\* A call finds its session.
LEMMA FoundSessionStep ==
  ASSUME ToolInv, NEW w \in Workers, NEW i \in DOMAIN copies[w], FindSession(w, i), Contains(sessions, w) PROVE ToolInv'
  <1>1. /\ LoopKept /\ copies[w][i].at = "session" /\ UNCHANGED <<mailbox, contexts>> /\ CopyAnswered(w, i, "ok") /\ "ok" \in Answers
        /\ sessions' = Used(sessions, w) /\ Crossed(FALSE, "browser")
    BY DEF ToolInv, FindSession, At, Answers, Crossed
  <1>2. story' \in StoryRow /\ story'.owed = story.owed /\ story'.cold = story.cold /\ story.crossed \subseteq story'.crossed
    BY <1>1, CrossedRow
  <1>3. mailbox' \in [rows : Nat, in : Nat, mirrored : Nat] /\ story.owed \in Int
        /\ mailbox'.rows >= mailbox.rows /\ mailbox'.in >= mailbox.in /\ mailbox'.mirrored = mailbox.mirrored
    BY <1>1 DEF LoopKept, LoopTyped, StoryRow
  <1>4. LoopKept'
    BY <1>1, <1>2, <1>3, AnswersOne
  <1>5. PICK k : k = Kind(copies[w][i])
    OBVIOUS
  <1>6. Fate(k, NoKind)
    <2>1. ASSUME NEW K \in Watched PROVE Goes(copies, copies', K, k, NoKind)
      BY <1>1, <1>5, WatchedKinds, AnswerGoes
    <2> QED BY <2>1 DEF Fate
  <1>7. One(k, Owing) = 0 /\ One(k, Opening) = 0 /\ k \notin SendsSent
    BY <1>1, <1>5 DEF Kind, One, Owing, Opening, SendsSent
  <1>8. OwedKept'
    <2>1. story'.owed >= story.owed - One(k, Owing) + One(NoKind, Owing)
      BY <1>2, <1>3, <1>7, NoKindOwing
    <2> QED BY <1>4, <1>6, <2>1, OwedStays
  <1>9. MailInv' /\ InboxInv'
    <2>1. MailInv'
      BY <1>2, <1>3, <1>4, <1>6, <1>7, NoKindOwing, MailStays
    <2>2. InboxInv'
      BY <1>2, <1>3, <1>4, <1>6, NoKindOwing, InboxStays
    <2> QED BY <2>1, <2>2
  <1>10. BrowserInv'
    <2>1. CASE "browser" \in story.crossed
      BY <1>2, <2>1 DEF BrowserInv
    <2>2. CASE BrowserInTurn
      <3>1. /\ sessions' \in Seq(Workers) /\ Distinct(sessions') /\ Len(sessions') = Len(sessions)
            /\ \A v \in Workers : Contains(sessions', v) <=> Contains(sessions, v)
        BY <1>1, <2>2, SessionUsed DEF BrowserInTurn
      <3>2. contexts' = ContextsOf(sessions')
        BY <1>1, <2>2, <3>1 DEF BrowserInTurn, ContextsOf
      <3>3. /\ N(Opening) \in Nat /\ N(Opening)' \in Nat /\ N(Opening)' = N(Opening) - 0 + One(NoKind, Opening)
            /\ \A p \in Held(copies', Opening) : \E q \in Held(copies, Opening) : q[1] = p[1]
        BY <1>6, <1>7, NoKindOwing, Counted DEF Watched
      <3>4. One(NoKind, Opening) = 0
        BY NoKindOwing DEF One
      <3>5. N(Opening)' <= 1
        BY <2>2, <3>3, <3>4 DEF BrowserInTurn
      <3>6. ASSUME NEW p \in Held(copies', Opening) PROVE ~Contains(sessions', p[1]) /\ Len(sessions') < MaxSessions
        <4>1. p[1] \in Workers
          BY DEF Held
        <4> QED BY <2>2, <3>1, <3>3, <4>1 DEF BrowserInTurn
      <3>7. Len(sessions') <= MaxSessions
        BY <2>2, <3>1 DEF BrowserInTurn
      <3>8. BrowserInTurn'
        BY <3>1, <3>2, <3>5, <3>6, <3>7 DEF BrowserInTurn, ContextsOf, Held, Distinct
      <3> QED BY <3>8 DEF BrowserInv
    <2> QED BY <2>1, <2>2 DEF ToolInv, BrowserInv
  <1> QED BY <1>4, <1>6, <1>8, <1>9, <1>10, Together
\* One copy of a kind at most: the one at hand.
LEMMA OnlyOne ==
  ASSUME NEW C \in CopiesOf, NEW w \in Workers, NEW i \in DOMAIN C[w], NEW K, Kind(C[w][i]) \in K,
         IsFiniteSet(Held(C, K)), Cardinality(Held(C, K)) <= 1
  PROVE  Held(C, K) = {<<w, i>>}
  <1>1. i \in Nat
    <2>1. C[w] \in Seq(CopyRow)
      BY DEF CopiesOf
    <2> QED BY <2>1, LenProperties
  <1>2. <<w, i>> \in Held(C, K)
    BY <1>1 DEF Held
  <1>3. Cardinality(Held(C, K)) = 1
    <2>1. Cardinality(Held(C, K)) \in Nat /\ Cardinality(Held(C, K)) # 0
      BY <1>2, FS_CardinalityType, FS_EmptySet
    <2> QED BY <2>1
  <1>4. PICK x : Held(C, K) = {x}
    BY <1>3, FS_Singleton
  <1> QED BY <1>2, <1>4
\* It finds none: it makes room, and is the only one about to open, or two have crossed.
LEMMA NewSessionStep ==
  ASSUME ToolInv, NEW w \in Workers, NEW i \in DOMAIN copies[w], FindSession(w, i), ~Contains(sessions, w) PROVE ToolInv'
  <1>1. /\ LoopKept /\ copies[w][i].at = "session" /\ UNCHANGED mailbox /\ UNCHANGED worker /\ Moves(w, i, "open")
        /\ IF BrowserFull
           THEN sessions' = Tail(sessions) /\ contexts' = [contexts EXCEPT ![Head(sessions)] = @ - 1]
           ELSE UNCHANGED <<sessions, contexts>>
    BY DEF ToolInv, FindSession, At
  <1>2. PICK now \in BOOLEAN : now = Elsewhere(w, i, {"open"})
    BY DEF Elsewhere
  <1>3. Crossed(now, "browser")
    BY <1>2 DEF FindSession, Crossed
  <1>4. /\ story' \in StoryRow /\ story'.owed = story.owed /\ story'.cold = story.cold /\ story.crossed \subseteq story'.crossed
        /\ (now => "browser" \in story'.crossed)
    BY <1>1, <1>3, CrossedRow
  <1> DEFINE t == copies[w][i].call.tool
  <1>5. mailbox' \in [rows : Nat, in : Nat, mirrored : Nat] /\ story.owed \in Int /\ t \in Tools
        /\ mailbox'.rows >= mailbox.rows /\ mailbox'.in >= mailbox.in /\ mailbox'.mirrored = mailbox.mirrored
    BY <1>1, CopyFacts DEF LoopKept, LoopTyped, StoryRow
  <1>6. PICK k : k = <<"session", t>> /\ k = Kind(copies[w][i])
    BY <1>1 DEF Kind
  <1>7. PICK c : c = <<"open", t>>
    OBVIOUS
  <1>8. LoopKept' /\ Fate(k, c) /\ copies'[w][i] = MovedTo(copies[w][i], "open") /\ copies' \in CopiesOf /\ i \in DOMAIN copies'[w]
    <2>1. "open" \in Places
      BY DEF Places
    <2> QED BY <1>1, <1>4, <1>5, <1>6, <1>7, <2>1, MoveFate
  <1>9. /\ One(k, Owing) = 0 /\ One(c, Owing) = 0 /\ One(k, Opening) = 0 /\ One(c, Opening) = 1
        /\ k \notin SendsSent /\ c \notin SendsOut /\ c \notin SendsSent /\ c \notin Mirroring
    BY <1>5, <1>6, <1>7 DEF One, Owing, Mirroring, SendsOut, SendsSent, Opening
  <1>10. OwedKept'
    <2>1. story'.owed >= story.owed - One(k, Owing) + One(c, Owing)
      BY <1>4, <1>5, <1>9
    <2> QED BY <1>8, <2>1, OwedStays
  <1>11. MailInv' /\ InboxInv'
    <2>1. MailInv'
      BY <1>4, <1>5, <1>8, <1>9, MailStays
    <2>2. InboxInv'
      BY <1>4, <1>5, <1>8, <1>9, InboxStays
    <2> QED BY <2>1, <2>2
  <1>12. BrowserInv'
    <2>1. CASE now \/ "browser" \in story.crossed
      BY <1>4, <2>1 DEF BrowserInv
    <2>2. CASE ~now /\ BrowserInTurn
      <3>1. N(Opening) = 0
        <4>1. \A x \in Opening : x[1] \in {"open"}
          BY DEF Opening
        <4>2. copies[w][i].at \notin {"open"}
          BY <1>1
        <4> QED BY <1>1, <1>2, <2>2, <4>1, <4>2, Alone
      <3>2. N(Opening)' = N(Opening) - 0 + 1 /\ IsFiniteSet(Held(copies, Opening))'
        BY <1>8, <1>9, Counted DEF Watched
      <3>3. N(Opening)' = 1
        BY <3>1, <3>2
      <3>4. Held(copies', Opening) = {<<w, i>>}
        <4>1. Kind(copies'[w][i]) \in Opening
          <5>1. PICK r : r = copies[w][i]
            OBVIOUS
          <5>2. copies'[w][i].call.tool = t /\ copies'[w][i].at = "open"
            <6>1. r \in CopyRow
              BY <1>1, <5>1, CopyFacts
            <6>2. MovedTo(r, "open").at = "open" /\ MovedTo(r, "open").call = r.call
              BY <6>1 DEF CopyRow, MovedTo
            <6> QED BY <1>8, <5>1, <6>2
          <5> QED BY <1>5, <5>2 DEF Kind, Opening
        <4>2. IsFiniteSet(Held(copies', Opening)) /\ Cardinality(Held(copies', Opening)) <= 1
          BY <3>2, <3>3 DEF N, Held
        <4> QED BY <1>8, <4>1, <4>2, OnlyOne
      <3>5. /\ sessions \in Seq(Workers) /\ Distinct(sessions) /\ contexts = ContextsOf(sessions) /\ Len(sessions) <= MaxSessions
            /\ Len(sessions) \in Nat /\ MaxSessions \in Nat \ {0}
        BY <2>2, WorkerLoopAssumption DEF BrowserInTurn
      <3>6. /\ sessions' \in Seq(Workers) /\ Distinct(sessions') /\ contexts' = ContextsOf(sessions') /\ Len(sessions') < MaxSessions
            /\ ~Contains(sessions', w)
        <4>1. CASE BrowserFull
          <5>1. sessions # <<>>
            BY <3>5, <4>1, EmptySeq DEF BrowserFull
          <5>2. /\ Tail(sessions) \in Seq(Workers) /\ Distinct(Tail(sessions)) /\ Len(Tail(sessions)) = Len(sessions) - 1
                /\ \A v \in Workers : Contains(Tail(sessions), v) <=> Contains(sessions, v) /\ v # Head(sessions)
                /\ ContextsOf(Tail(sessions)) = [ContextsOf(sessions) EXCEPT ![Head(sessions)] = @ - 1]
            BY <3>5, <5>1, Evicted
          <5>3. contexts' = ContextsOf(Tail(sessions)) /\ sessions' = Tail(sessions)
            BY <1>1, <3>5, <4>1, <5>2
          <5> QED BY <3>5, <5>2, <5>3
        <4>2. CASE ~BrowserFull
          BY <1>1, <3>5, <4>2 DEF BrowserFull
        <4> QED BY <4>1, <4>2
      <3>7. \A p \in Held(copies', Opening) : ~Contains(sessions', p[1]) /\ Len(sessions') < MaxSessions
        BY <3>4, <3>6
      <3>8. Len(sessions') <= MaxSessions /\ N(Opening)' <= 1
        <4>1. Len(sessions') \in Nat
          BY <3>6
        <4> QED BY <3>3, <3>5, <3>6, <4>1
      <3>9. BrowserInTurn'
        BY <3>6, <3>7, <3>8 DEF BrowserInTurn, ContextsOf, Held, Distinct
      <3> QED BY <3>9 DEF BrowserInv
    <2> QED BY <2>1, <2>2 DEF ToolInv, BrowserInv
  <1> QED BY <1>8, <1>10, <1>11, <1>12, Together

\* Its context is opened.
LEMMA OpenContextStep ==
  ASSUME ToolInv, NEW w \in Workers, NEW i \in DOMAIN copies[w], OpenContext(w, i) PROVE ToolInv'
  <1>1. /\ LoopKept /\ copies[w][i].at = "open" /\ UNCHANGED <<mailbox, story>> /\ CopyAnswered(w, i, "ok") /\ "ok" \in Answers
        /\ sessions' = Used(sessions, w) /\ contexts' = [contexts EXCEPT ![w] = @ + 1] /\ copies \in CopiesOf
    BY DEF ToolInv, LoopKept, LoopTyped, OpenContext, At, Answers
  <1> DEFINE t == copies[w][i].call.tool
  <1>2. /\ mailbox' \in [rows : Nat, in : Nat, mirrored : Nat] /\ story.owed \in Int /\ story' \in StoryRow /\ t \in Tools
        /\ mailbox'.rows >= mailbox.rows /\ mailbox'.in >= mailbox.in /\ mailbox'.mirrored = mailbox.mirrored
        /\ story'.owed = story.owed /\ story'.cold = story.cold /\ story.crossed \subseteq story'.crossed
    BY <1>1, CopyFacts DEF LoopKept, LoopTyped, StoryRow
  <1>3. LoopKept'
    BY <1>1, <1>2, AnswersOne
  <1>4. PICK k : k = <<"open", t>> /\ k = Kind(copies[w][i])
    BY <1>1 DEF Kind
  <1>5. Fate(k, NoKind)
    <2>1. ASSUME NEW K \in Watched PROVE Goes(copies, copies', K, k, NoKind)
      BY <1>1, <1>4, WatchedKinds, AnswerGoes
    <2> QED BY <2>1 DEF Fate
  <1>6. One(k, Owing) = 0 /\ One(k, Opening) = 1 /\ k \notin SendsSent /\ k \in Opening
    BY <1>2, <1>4 DEF One, Owing, Opening, SendsSent
  <1>7. OwedKept'
    <2>1. story'.owed >= story.owed - One(k, Owing) + One(NoKind, Owing)
      BY <1>2, <1>6, NoKindOwing
    <2> QED BY <1>3, <1>5, <2>1, OwedStays
  <1>8. MailInv' /\ InboxInv'
    <2>1. MailInv'
      BY <1>2, <1>3, <1>5, <1>6, NoKindOwing, MailStays
    <2>2. InboxInv'
      BY <1>2, <1>3, <1>5, NoKindOwing, InboxStays
    <2> QED BY <2>1, <2>2
  <1>9. BrowserInv'
    <2>1. CASE "browser" \in story.crossed
      BY <1>2, <2>1 DEF BrowserInv
    <2>2. CASE BrowserInTurn
      <3>1. Held(copies, Opening) = {<<w, i>>}
        <4>1. IsFiniteSet(Held(copies, Opening)) /\ Cardinality(Held(copies, Opening)) <= 1
          BY <2>2 DEF ToolInv, Watched, BrowserInTurn, N
        <4> QED BY <1>1, <1>4, <1>6, <4>1, OnlyOne
      <3>2. ~Contains(sessions, w) /\ Len(sessions) < MaxSessions
        BY <2>2, <3>1 DEF BrowserInTurn
      <3>3. /\ sessions \in Seq(Workers) /\ Distinct(sessions) /\ contexts = ContextsOf(sessions) /\ Len(sessions) \in Nat
            /\ MaxSessions \in Nat \ {0}
        BY <2>2, WorkerLoopAssumption DEF BrowserInTurn
      <3>4. sessions' = Append(sessions, w)
        BY <1>1, <3>2 DEF Used
      <3>5. /\ Append(sessions, w) \in Seq(Workers) /\ Distinct(Append(sessions, w)) /\ Len(Append(sessions, w)) = Len(sessions) + 1
            /\ \A v \in Workers : Contains(Append(sessions, w), v) <=> Contains(sessions, v) \/ v = w
        BY <3>2, <3>3, SessionAdded
      <3>6. contexts' = ContextsOf(Append(sessions, w))
        <4>1. ContextsOf(sessions)[w] = 0
          BY <3>2 DEF ContextsOf
        <4>2. contexts' = [ContextsOf(sessions) EXCEPT ![w] = 1]
          BY <1>1, <3>3, <4>1
        <4>3. ASSUME NEW v \in Workers PROVE [ContextsOf(sessions) EXCEPT ![w] = 1][v] = ContextsOf(Append(sessions, w))[v]
          BY <3>5 DEF ContextsOf
        <4> QED BY <4>2, <4>3 DEF ContextsOf
      <3>7. N(Opening)' = N(Opening) - 1 + One(NoKind, Opening) /\ IsFiniteSet(Held(copies, Opening))' /\ N(Opening) \in Nat /\ N(Opening)' \in Nat
        BY <1>5, <1>6, Counted DEF Watched
      <3>8. N(Opening)' = 0
        <4>1. One(NoKind, Opening) = 0
          BY NoKindOwing DEF One
        <4> QED BY <2>2, <3>7, <4>1 DEF BrowserInTurn
      <3>9. Held(copies', Opening) = {}
        <4>1. IsFiniteSet(Held(copies', Opening)) /\ Cardinality(Held(copies', Opening)) = 0
          BY <3>7, <3>8 DEF N, Held
        <4> QED BY <4>1, FS_EmptySet
      <3>10. Len(sessions') <= MaxSessions
        BY <3>2, <3>3, <3>4, <3>5
      <3>11. BrowserInTurn'
        BY <3>4, <3>5, <3>6, <3>8, <3>9, <3>10 DEF BrowserInTurn, ContextsOf, Held, Distinct
      <3> QED BY <3>11 DEF BrowserInv
    <2> QED BY <2>1, <2>2 DEF ToolInv, BrowserInv
  <1> QED BY <1>3, <1>5, <1>7, <1>8, <1>9, Together
\* Every step of the browser.
LEMMA BrowserSteps ==
  ASSUME ToolInv, NEW w \in Workers, NEW i \in DOMAIN copies[w], Browser(w, i) PROVE ToolInv'
  BY FoundSessionStep, NewSessionStep, OpenContextStep DEF Browser

\* What touches no worker and no copy.
LEMMA StillKept ==
  ASSUME LoopKept, UNCHANGED <<worker, copies>>, mailbox' \in [rows : Nat, in : Nat, mirrored : Nat], story' \in StoryRow
  PROVE  LoopKept' /\ Fate(NoKind, NoKind)
  <1>1. LoopKept'
    BY DEF LoopKept, LoopTyped, Heeds, Waits
  <1>2. Fate(NoKind, NoKind)
    BY WatchedKinds, NothingGoes DEF Fate
  <1> QED BY <1>1, <1>2
\* An idle session is closed.
LEMMA SweepStep ==
  ASSUME ToolInv, Sweep PROVE ToolInv'
  <1>1. /\ LoopKept /\ UNCHANGED <<worker, copies>> /\ UNCHANGED <<mailbox, story>> /\ sessions # <<>> /\ sessions' = Tail(sessions)
        /\ contexts' = [contexts EXCEPT ![Head(sessions)] = @ - 1]
    BY DEF ToolInv, Sweep
  <1>2. /\ mailbox' \in [rows : Nat, in : Nat, mirrored : Nat] /\ story.owed \in Int /\ story' \in StoryRow
        /\ mailbox'.rows >= mailbox.rows /\ mailbox'.in >= mailbox.in /\ mailbox'.mirrored = mailbox.mirrored
        /\ story'.owed = story.owed /\ story'.cold = story.cold /\ story.crossed \subseteq story'.crossed
    BY <1>1 DEF LoopKept, LoopTyped, StoryRow
  <1>3. LoopKept' /\ Fate(NoKind, NoKind)
    BY <1>1, <1>2, StillKept
  <1>4. OwedKept'
    <2>1. story'.owed >= story.owed - One(NoKind, Owing) + One(NoKind, Owing)
      BY <1>2, NoKindOwing
    <2> QED BY <1>3, <2>1, OwedStays
  <1>5. MailInv' /\ InboxInv'
    <2>1. MailInv'
      BY <1>2, <1>3, NoKindOwing, MailStays
    <2>2. InboxInv'
      BY <1>2, <1>3, NoKindOwing, InboxStays
    <2> QED BY <2>1, <2>2
  <1>6. BrowserInv'
    <2>1. CASE "browser" \in story.crossed
      BY <1>2, <2>1 DEF BrowserInv
    <2>2. CASE BrowserInTurn
      <3>1. /\ sessions \in Seq(Workers) /\ Distinct(sessions) /\ contexts = ContextsOf(sessions) /\ Len(sessions) <= MaxSessions
            /\ Len(sessions) \in Nat /\ MaxSessions \in Nat
        BY <2>2, WorkerLoopAssumption DEF BrowserInTurn
      <3>2. /\ Tail(sessions) \in Seq(Workers) /\ Distinct(Tail(sessions)) /\ Len(Tail(sessions)) = Len(sessions) - 1
            /\ \A v \in Workers : Contains(Tail(sessions), v) <=> Contains(sessions, v) /\ v # Head(sessions)
            /\ ContextsOf(Tail(sessions)) = [ContextsOf(sessions) EXCEPT ![Head(sessions)] = @ - 1]
        BY <1>1, <3>1, Evicted
      <3>3. contexts' = ContextsOf(sessions')
        <4>1. contexts' = ContextsOf(Tail(sessions))
          BY <1>1, <3>1, <3>2
        <4> QED BY <1>1, <4>1
      <3>4. N(Opening)' <= 1 /\ Held(copies', Opening) = Held(copies, Opening)
        BY <1>1, <2>2 DEF BrowserInTurn, N, Held
      <3>5. ASSUME NEW p \in Held(copies', Opening) PROVE ~Contains(sessions', p[1]) /\ Len(sessions') < MaxSessions
        <4>1. p[1] \in Workers /\ ~Contains(sessions, p[1])
          BY <2>2, <3>4 DEF BrowserInTurn, Held
        <4> QED BY <1>1, <3>1, <3>2, <4>1
      <3>6. sessions' \in Seq(Workers) /\ Distinct(sessions') /\ Len(sessions') <= MaxSessions
        BY <1>1, <3>1, <3>2
      <3>7. BrowserInTurn'
        BY <3>3, <3>4, <3>5, <3>6 DEF BrowserInTurn, ContextsOf, Held, Distinct
      <3> QED BY <3>7 DEF BrowserInv
    <2> QED BY <2>1, <2>2 DEF ToolInv, BrowserInv
  <1> QED BY <1>3, <1>4, <1>5, <1>6, Together
\* Inbound mail, the owner's pause, or nothing.
LEMMA WorldStep ==
  ASSUME ToolInv, UNCHANGED <<worker, copies, sessions, contexts, story>>, mailbox' \in [rows : Nat, in : Nat, mirrored : Nat],
         mailbox'.rows = mailbox.rows, mailbox'.mirrored = mailbox.mirrored, mailbox'.in >= mailbox.in
  PROVE  ToolInv'
  <1>1. /\ LoopKept /\ UNCHANGED <<worker, copies>> /\ UNCHANGED <<sessions, contexts>> /\ story' = story /\ story' \in StoryRow
        /\ story.owed \in Int /\ mailbox.rows \in Nat
    BY DEF ToolInv, LoopKept, LoopTyped, StoryRow
  <1>2. LoopKept' /\ Fate(NoKind, NoKind)
    BY <1>1, StillKept
  <1>3. OwedKept'
    <2>1. story'.owed >= story.owed - One(NoKind, Owing) + One(NoKind, Owing)
      BY <1>1, NoKindOwing
    <2> QED BY <1>2, <2>1, OwedStays
  <1>4. MailInv'
    <2>1. mailbox'.rows >= mailbox.rows
      BY <1>1
    <2> QED BY <1>1, <1>2, <2>1, NoKindOwing, MailStays
  <1>5. InboxInv'
    BY <1>1, <1>2, NoKindOwing, InboxStays
  <1>6. BrowserInv'
    BY <1>1, <1>2, NoKindOwing, BrowserStays
  <1> QED BY <1>2, <1>3, <1>4, <1>5, <1>6, Together

\* Every step of the workers and their tools.
LEMMA LoopGoesOn ==
  ASSUME ToolInv, LoopNext PROVE ToolInv'
  <1> mailbox \in [rows : Nat, in : Nat, mirrored : Nat]
    BY DEF ToolInv, LoopKept, LoopTyped
  <1>1. ASSUME NEW w \in Workers, Loop(w) PROVE ToolInv'
    BY <1>1, LoopSteps
  <1>2. ASSUME NEW w \in Workers, ResetEarly(w) \/ ResetLate(w) PROVE ToolInv'
    BY <1>2, ResetEarlyStep, ResetLateStep
  <1>3. ASSUME NEW w \in Workers, Handle(w) PROVE ToolInv'
    <2>1. PICK i \in DOMAIN copies[w] : RefuseCall(w, i) \/ Authorize(w, i) \/ Email(w, i) \/ Inbox(w, i) \/ Browser(w, i)
      BY <1>3 DEF Handle
    <2> QED BY <2>1, RefuseCallStep, AuthorizeStep, EmailSteps, InboxSteps, BrowserSteps
  <1>4. CASE Sweep
    BY <1>4, SweepStep
  <1>5. CASE PauseCompany
    <2>1. UNCHANGED <<worker, copies, sessions, contexts, story>> /\ mailbox' = mailbox
      BY <1>5 DEF PauseCompany, World
    <2> QED BY <2>1, WorldStep
  <1>6. CASE MailArrives
    <2>1. UNCHANGED <<worker, copies, sessions, contexts, story>> /\ mailbox' = [mailbox EXCEPT !.in = @ + 1]
      BY <1>6 DEF MailArrives
    <2>2. /\ mailbox' \in [rows : Nat, in : Nat, mirrored : Nat] /\ mailbox'.rows = mailbox.rows
          /\ mailbox'.mirrored = mailbox.mirrored /\ mailbox'.in >= mailbox.in
      BY <2>1
    <2> QED BY <2>1, <2>2, WorldStep
  <1> QED BY <1>1, <1>2, <1>3, <1>4, <1>5, <1>6 DEF LoopNext
\* The sites' steps and no step leave them as they are.
LEMMA LoopStill ==
  ASSUME ToolInv, UNCHANGED loopVars PROVE ToolInv'
  <1>1. UNCHANGED <<worker, copies, sessions, contexts, story>> /\ mailbox' = mailbox
    BY DEF loopVars
  <1>2. mailbox \in [rows : Nat, in : Nat, mirrored : Nat]
    BY DEF ToolInv, LoopKept, LoopTyped
  <1> QED BY <1>1, <1>2, WorldStep

\* What a company's workers share stays in order whatever they do together: its mail, its mirror, its browser
\* (ToolsKept), among any workers and calls, with any number of broken connections.
THEOREM ToolsStayKept == Parts => []ToolsKept
  <1>1. InitParts => ToolInv
    BY LoopBegins DEF InitParts
  <1>2. ToolInv /\ [NextPart]_All => ToolInv'
    <2> SUFFICES ASSUME ToolInv, [NextPart]_All PROVE ToolInv'
      OBVIOUS
    <2>1. CASE Working(LoopNext)
      BY <2>1, LoopGoesOn DEF Working
    <2>2. ASSUME NEW slug \in Slugs, Serving(slug, Site(slug)!Next) PROVE ToolInv'
      BY <2>2, LoopStill DEF Serving
    <2>3. CASE UNCHANGED All
      BY <2>3, LoopStill DEF All
    <2> QED BY <2>1, <2>2, <2>3 DEF NextPart
  <1>3. ToolInv => ToolsKept
    BY LoopFollows
  <1> QED BY <1>1, <1>2, <1>3, PTL DEF Parts
==============================================================================
