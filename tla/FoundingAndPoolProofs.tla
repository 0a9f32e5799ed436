------------------------ MODULE FoundingAndPoolProofs ------------------------
(***************************************************************************)
(* Proofs about Founding, for every number of prompts, slugs, attempts and *)
(* requests, and about SandboxPool, for every number of workers and every  *)
(* capacity.                                                               *)
(*                                                                         *)
(* Founding: what a workflow has behind it is there for good (Kept), the   *)
(* deploy it awaits is its own or over (Waited), who is about to insert    *)
(* the starter product found none (Seeds), and deployd's requests carry    *)
(* links of the catalogue (JobsKept, FilesKept): together with what they   *)
(* make of a company this is FoundInv, ClockInv is the clock's part.       *)
(***************************************************************************)
EXTENDS SandboxPool, Founding, FiniteSetTheorems, TLAPS

----------------------------------------------------------------------------
(* The sandbox pool.                                                       *)

\* The shape of the gate: who is queued is waiting, and is queued once.
QueuesTyped ==
  /\ inUse \in Int
  /\ waiters \in Seq(Workers) /\ woken \in Seq(Workers)
  /\ at \in [Workers -> {"idle", "waiting", "claiming", "running", "releasing", "done"}]

QueuedWait ==
  /\ \A i \in 1..Len(waiters) : at[waiters[i]] = "waiting"
  /\ \A i \in 1..Len(woken) : at[woken[i]] = "waiting"

QueuedOnce ==
  /\ \A i, j \in 1..Len(waiters) : waiters[i] = waiters[j] => i = j
  /\ \A i, j \in 1..Len(woken) : woken[i] = woken[j] => i = j
  /\ \A i \in 1..Len(waiters), j \in 1..Len(woken) : waiters[i] # woken[j]

GateInv ==
  /\ QueuesTyped
  /\ QueuedWait
  /\ QueuedOnce
  /\ SlotsCounted
  /\ NoIdleSlot

----------------------------------------------------------------------------
\* The set of slots is finite, and its size follows one worker in and out.
LEMMA SlotsFinite == IsFiniteSet(Slots)
  <1>1. Slots \subseteq Workers
    BY DEF Slots
  <1> QED
    BY <1>1, SandboxPoolAssumption, FS_Subset

LEMMA SlotTaken ==
  ASSUME NEW w \in Workers, w \notin Slots, Slots' = Slots \cup {w}
  PROVE  Cardinality(Slots') = Cardinality(Slots) + 1
  BY SlotsFinite, FS_AddElement

LEMMA SlotFreed ==
  ASSUME NEW w \in Workers, w \in Slots, Slots' = Slots \ {w}
  PROVE  Cardinality(Slots') = Cardinality(Slots) - 1
  BY SlotsFinite, FS_RemoveElement

\* Moving a waiter from the head of one queue to the end of the other.
LEMMA HandOver ==
  ASSUME QueuesTyped, QueuedWait, QueuedOnce, waiters # <<>>,
         waiters' = Tail(waiters), woken' = Append(woken, Head(waiters))
  PROVE  /\ waiters' \in Seq(Workers) /\ woken' \in Seq(Workers)
         /\ Len(woken') = Len(woken) + 1
         /\ \A i \in 1..Len(waiters') : at[waiters'[i]] = "waiting"
         /\ \A i \in 1..Len(woken') : at[woken'[i]] = "waiting"
         /\ QueuedOnce'
  <1>1. /\ waiters \in Seq(Workers) /\ woken \in Seq(Workers)
        /\ Len(waiters) \in Nat \ {0} /\ Len(woken) \in Nat
        /\ Head(waiters) = waiters[1] /\ Head(waiters) \in Workers
    BY DEF QueuesTyped
  <1>2. /\ waiters' \in Seq(Workers) /\ Len(waiters') = Len(waiters) - 1
        /\ \A i \in 1..Len(waiters') : i + 1 \in 1..Len(waiters) /\ waiters'[i] = waiters[i + 1]
    BY <1>1
  <1>3. /\ woken' \in Seq(Workers) /\ Len(woken') = Len(woken) + 1
        /\ \A i \in 1..Len(woken) : woken'[i] = woken[i]
        /\ woken'[Len(woken) + 1] = waiters[1]
    BY <1>1
  <1>4. \A i \in 1..Len(waiters') : at[waiters'[i]] = "waiting"
    BY <1>2 DEF QueuedWait
  <1>5. \A i \in 1..Len(woken') : at[woken'[i]] = "waiting"
    BY <1>1, <1>3 DEF QueuedWait
  <1>6. \A i, j \in 1..Len(waiters') : waiters'[i] = waiters'[j] => i = j
    BY <1>1, <1>2 DEF QueuedOnce
  <1>7. \A i, j \in 1..Len(woken') : woken'[i] = woken'[j] => i = j
    BY <1>1, <1>3 DEF QueuedOnce
  <1>8. \A i \in 1..Len(waiters'), j \in 1..Len(woken') : waiters'[i] # woken'[j]
    BY <1>1, <1>2, <1>3 DEF QueuedOnce
  <1> QED
    BY <1>2, <1>3, <1>4, <1>5, <1>6, <1>7, <1>8 DEF QueuedOnce

----------------------------------------------------------------------------
\* The gate's part of a step, action by action.

LEMMA InitGate == Init => GateInv
  <1> SUFFICES ASSUME Init PROVE GateInv
    OBVIOUS
  <1>1. Slots = {}
    BY DEF Init, Slots
  <1>2. SlotsCounted
    BY <1>1, FS_EmptySet DEF Init, SlotsCounted
  <1> QED
    BY <1>2 DEF Init, GateInv, QueuesTyped, QueuedWait, QueuedOnce, NoIdleSlot

LEMMA AcquireGate ==
  ASSUME GateInv, NEW w \in Workers, Acquire(w)
  PROVE  GateInv'
  <1> USE DEF GateInv, QueuesTyped
  <1>1. /\ at[w] = "idle" /\ at' = [at EXCEPT ![w] = "claiming"]
        /\ inUse' = inUse + 1 /\ UNCHANGED <<waiters, woken>>
    BY DEF Acquire, Move
  <1>2. w \notin Slots /\ Slots' = Slots \cup {w}
    BY <1>1 DEF Slots
  <1>3. SlotsCounted'
    BY <1>1, <1>2, SlotTaken DEF SlotsCounted
  <1>4. QueuedWait'
    BY <1>1 DEF QueuedWait
  <1>5. QueuedOnce'
    BY <1>1 DEF QueuedOnce
  <1>6. NoIdleSlot'
    BY <1>1, SandboxPoolAssumption DEF NoIdleSlot
  <1> QED
    BY <1>1, <1>3, <1>4, <1>5, <1>6

LEMMA WaitGate ==
  ASSUME GateInv, NEW w \in Workers, Wait(w)
  PROVE  GateInv'
  <1> USE DEF GateInv, QueuesTyped
  <1>1. /\ at[w] = "idle" /\ at' = [at EXCEPT ![w] = "waiting"] /\ inUse >= Capacity
        /\ waiters' = Append(waiters, w) /\ UNCHANGED <<inUse, woken>>
    BY DEF Wait, Move, Full
  <1>2. /\ waiters' \in Seq(Workers) /\ Len(waiters') = Len(waiters) + 1
        /\ \A i \in 1..Len(waiters) : waiters'[i] = waiters[i]
        /\ waiters'[Len(waiters) + 1] = w
    BY <1>1
  <1>3. /\ \A i \in 1..Len(waiters) : waiters[i] # w
        /\ \A i \in 1..Len(woken) : woken[i] # w
    BY <1>1 DEF QueuedWait
  <1>4. Slots' = Slots
    BY <1>1 DEF Slots
  <1>5. SlotsCounted'
    BY <1>1, <1>4 DEF SlotsCounted
  <1>6. QueuedWait'
    <2>1. \A i \in 1..Len(waiters') : at'[waiters'[i]] = "waiting"
      BY <1>1, <1>2 DEF QueuedWait
    <2>2. \A i \in 1..Len(woken') : at'[woken'[i]] = "waiting"
      BY <1>1 DEF QueuedWait
    <2> QED
      BY <2>1, <2>2 DEF QueuedWait
  <1>7. QueuedOnce'
    <2>1. \A i, j \in 1..Len(waiters') : waiters'[i] = waiters'[j] => i = j
      <3>1. \A i \in 1..Len(waiters') : i \in 1..Len(waiters) \/ i = Len(waiters) + 1
        BY <1>2
      <3> QED
        BY <1>2, <1>3, <3>1 DEF QueuedOnce
    <2>2. \A i \in 1..Len(waiters'), j \in 1..Len(woken') : waiters'[i] # woken'[j]
      BY <1>1, <1>2, <1>3 DEF QueuedOnce
    <2> QED
      BY <1>1, <2>1, <2>2 DEF QueuedOnce
  <1>8. NoIdleSlot'
    BY <1>1, SandboxPoolAssumption DEF NoIdleSlot
  <1> QED
    BY <1>1, <1>2, <1>5, <1>6, <1>7, <1>8

LEMMA AcquireWokenGate ==
  ASSUME GateInv, NEW w \in Workers, AcquireWoken(w)
  PROVE  GateInv'
  <1> USE DEF GateInv, QueuesTyped
  <1>1. /\ woken # <<>> /\ woken[1] = w /\ woken' = Tail(woken)
        /\ inUse' = inUse + 1 /\ at' = [at EXCEPT ![w] = "claiming"] /\ UNCHANGED waiters
    BY DEF AcquireWoken, Move
  <1>2. /\ Len(woken) \in Nat \ {0}
        /\ woken' \in Seq(Workers) /\ Len(woken') = Len(woken) - 1
        /\ \A i \in 1..Len(woken') : i + 1 \in 1..Len(woken) /\ woken'[i] = woken[i + 1]
    BY <1>1
  <1>3. at[w] = "waiting"
    BY <1>1, <1>2 DEF QueuedWait
  <1>4. w \notin Slots /\ Slots' = Slots \cup {w}
    BY <1>1, <1>3 DEF Slots
  <1>5. SlotsCounted'
    BY <1>1, <1>4, SlotTaken DEF SlotsCounted
  <1>6. QueuedWait'
    <2>1. \A i \in 1..Len(waiters) : waiters[i] # w
      BY <1>1, <1>2 DEF QueuedOnce
    <2>2. \A i \in 1..Len(woken') : woken'[i] # w
      <3> SUFFICES ASSUME NEW i \in 1..Len(woken'), woken[i + 1] = woken[1] PROVE FALSE
        BY <1>1, <1>2
      <3> QED
        BY <1>2 DEF QueuedOnce
    <2>3. \A i \in 1..Len(waiters') : at'[waiters'[i]] = "waiting"
      BY <1>1, <2>1 DEF QueuedWait
    <2>4. \A i \in 1..Len(woken') : at'[woken'[i]] = "waiting"
      BY <1>1, <1>2, <2>2 DEF QueuedWait
    <2> QED
      BY <2>3, <2>4 DEF QueuedWait
  <1>7. QueuedOnce'
    <2>1. ASSUME NEW i \in 1..Len(woken'), NEW j \in 1..Len(woken'), woken'[i] = woken'[j] PROVE i = j
      <3>1. i + 1 \in 1..Len(woken) /\ j + 1 \in 1..Len(woken) /\ woken[i + 1] = woken[j + 1]
        BY <1>2, <2>1
      <3>2. i + 1 = j + 1
        BY <3>1 DEF QueuedOnce
      <3> QED
        BY <3>2
    <2>2. \A i \in 1..Len(waiters'), j \in 1..Len(woken') : waiters'[i] # woken'[j]
      BY <1>1, <1>2 DEF QueuedOnce
    <2> QED
      BY <1>1, <2>1, <2>2 DEF QueuedOnce
  <1>8. NoIdleSlot'
    BY <1>1, <1>2, SandboxPoolAssumption DEF NoIdleSlot
  <1> QED
    BY <1>1, <1>2, <1>5, <1>6, <1>7, <1>8

\* ClaimFails and Finally: the slot goes back, and its successor is woken.
LEMMA ReleaseGate ==
  ASSUME GateInv, NEW w \in Workers, at[w] \in {"claiming", "releasing"},
         Release, Move(w, "done")
  PROVE  GateInv'
  <1> USE DEF GateInv, QueuesTyped
  <1>1. /\ at' = [at EXCEPT ![w] = "done"] /\ inUse' = inUse - 1
        /\ w \in Slots /\ Slots' = Slots \ {w}
    BY DEF Release, Move, Slots
  <1>2. SlotsCounted'
    BY <1>1, SlotFreed DEF SlotsCounted
  <1>3. CASE waiters = <<>>
    <2>1. UNCHANGED <<waiters, woken>>
      BY <1>3 DEF Release
    <2>2. QueuedWait'
      BY <1>1, <2>1 DEF QueuedWait
    <2> QED
      BY <1>1, <1>2, <1>3, <2>1, <2>2 DEF QueuedOnce, NoIdleSlot
  <1>4. CASE waiters # <<>>
    <2>1. waiters' = Tail(waiters) /\ woken' = Append(woken, Head(waiters))
      BY <1>4 DEF Release
    <2>2. /\ waiters' \in Seq(Workers) /\ woken' \in Seq(Workers)
          /\ Len(woken') = Len(woken) + 1
          /\ \A i \in 1..Len(waiters') : at[waiters'[i]] = "waiting"
          /\ \A i \in 1..Len(woken') : at[woken'[i]] = "waiting"
          /\ QueuedOnce'
      BY <1>4, <2>1, HandOver
    <2>3. QueuedWait'
      BY <1>1, <2>2 DEF QueuedWait
    <2>4. NoIdleSlot'
      BY <1>1, <1>4, <2>2, SandboxPoolAssumption DEF NoIdleSlot
    <2> QED
      BY <1>1, <1>2, <2>2, <2>3, <2>4
  <1> QED
    BY <1>3, <1>4

\* Claimed, Settle and TransportFails: the worker keeps its slot.
LEMMA KeepSlotGate ==
  ASSUME GateInv, NEW w \in Workers, NEW p \in {"running", "releasing"},
         at[w] \in {"claiming", "running"}, Move(w, p), UNCHANGED gate
  PROVE  GateInv'
  <1> USE DEF GateInv, QueuesTyped
  <1>1. /\ at' = [at EXCEPT ![w] = p] /\ UNCHANGED <<inUse, waiters, woken>>
        /\ Slots' = Slots
    BY DEF Move, Slots, gate
  <1>2. QueuedWait'
    BY <1>1 DEF QueuedWait
  <1> QED
    BY <1>1, <1>2 DEF QueuedOnce, NoIdleSlot, SlotsCounted

\* Steps of the agent and of the clock leave the gate alone.
LEMMA SameGate ==
  ASSUME GateInv, UNCHANGED <<gate, at>>
  PROVE  GateInv'
  <1>1. UNCHANGED <<inUse, waiters, woken, at>> /\ Slots' = Slots
    BY DEF gate, Slots
  <1> QED
    BY <1>1 DEF GateInv, QueuesTyped, QueuedWait, QueuedOnce, SlotsCounted, NoIdleSlot

LEMMA StepGate == GateInv /\ [Next]_vars => GateInv'
  <1> SUFFICES ASSUME GateInv, [Next]_vars PROVE GateInv'
    OBVIOUS
  <1>1. CASE UNCHANGED vars
    BY <1>1, SameGate DEF vars
  <1>2. ASSUME NEW w \in Workers, Acquire(w) PROVE GateInv'
    BY <1>2, AcquireGate
  <1>3. ASSUME NEW w \in Workers, Wait(w) PROVE GateInv'
    BY <1>3, WaitGate
  <1>4. ASSUME NEW w \in Workers, AcquireWoken(w) PROVE GateInv'
    BY <1>4, AcquireWokenGate
  <1>5. ASSUME NEW w \in Workers, Claimed(w) PROVE GateInv'
    BY <1>5, KeepSlotGate DEF Claimed
  <1>6. ASSUME NEW w \in Workers, ClaimFails(w) PROVE GateInv'
    BY <1>6, ReleaseGate DEF ClaimFails
  <1>7. ASSUME NEW w \in Workers, Settle(w) PROVE GateInv'
    BY <1>7, KeepSlotGate DEF Settle
  <1>8. ASSUME NEW w \in Workers, TransportFails(w) PROVE GateInv'
    BY <1>8, KeepSlotGate DEF TransportFails
  <1>9. ASSUME NEW w \in Workers, Finally(w) PROVE GateInv'
    BY <1>9, ReleaseGate DEF Finally
  <1>10. ASSUME NEW w \in Workers, Think(w) \/ AgentEnds(w) \/ Expire(w) \/ Reap(w)
         PROVE  GateInv'
    BY <1>10, SameGate DEF Think, AgentEnds, Expire, Reap
  <1> QED
    BY <1>1, <1>2, <1>3, <1>4, <1>5, <1>6, <1>7, <1>8, <1>9, <1>10 DEF Next, RunWorker

----------------------------------------------------------------------------
\* CapacityGate: its counter, its waiters and the queues agree in every behaviour.
THEOREM GateHolds == Spec => []GateInv
  BY InitGate, StepGate, PTL DEF Spec

\* CapacityGate: whatever fails, times out or overtakes, the counter is the
\* number of sandboxes claimed and not released, so no slot leaks.
THEOREM SlotsAreCounted == Spec => []SlotsCounted
  <1>1. GateInv => SlotsCounted
    BY DEF GateInv
  <1> QED
    BY GateHolds, <1>1, PTL

\* CapacityGate.release: no wakeup is lost, however many wait and whatever
\* the capacity.
THEOREM NoLostWakeup == Spec => []NoIdleSlot
  <1>1. GateInv => NoIdleSlot
    BY DEF GateInv
  <1> QED
    BY GateHolds, <1>1, PTL

----------------------------------------------------------------------------
(* What a worker leaves behind. An agent is started by a claim that went    *)
(* through, so what runs belongs to a worker that is past its claim.        *)

AgentTyped ==
  /\ kind \in Kinds /\ lost \subseteq Workers
  /\ agent \in [Workers -> {"off", "on", "ended"}]
  /\ metered \in [Workers -> 0..MaxCost] /\ emitted \in [Workers -> {"none", "result", "error"}]
  /\ timedOut \in [Workers -> BOOLEAN]
  /\ result \in [Workers -> {"none", "ok", "failed"}] /\ reported \in [Workers -> Nat]
AgentClaimed == \A w \in Workers : agent[w] = "on" => at[w] \in {"running", "releasing", "done"}
AgentInv == AgentTyped /\ AgentClaimed /\ NoOrphan

LEMMA InitAgent == Init => AgentInv
  <1> SUFFICES ASSUME Init PROVE AgentInv
    OBVIOUS
  <1>1. 0 \in 0..MaxCost
    BY SandboxPoolAssumption
  <1> QED
    BY <1>1 DEF Init, AgentInv, AgentTyped, AgentClaimed, NoOrphan

\* Steps of the gate and of a claim that fails: no agent runs yet, and none starts.
LEMMA ClaimingAgent ==
  ASSUME GateInv, AgentInv, NEW w \in Workers,
         Acquire(w) \/ Wait(w) \/ AcquireWoken(w) \/ ClaimFails(w)
  PROVE  AgentInv'
  <1>1. UNCHANGED <<kind, agent, metered, emitted, lost, timedOut, reported>>
    BY DEF Acquire, Wait, AcquireWoken, ClaimFails, runtime, outcome
  <1>2. at[w] \in {"idle", "waiting", "claiming"}
    <2>1. ASSUME AcquireWoken(w) PROVE at[w] = "waiting"
      <3>1. woken \in Seq(Workers) /\ woken # <<>> /\ woken[1] = w
        BY <2>1 DEF AcquireWoken, GateInv, QueuesTyped
      <3>2. 1 \in 1..Len(woken)
        BY <3>1
      <3> QED
        BY <3>1, <3>2 DEF GateInv, QueuedWait
    <2> QED
      BY <2>1 DEF Acquire, Wait, ClaimFails
  <1>3. agent[w] # "on"
    BY <1>2 DEF AgentInv, AgentClaimed
  <1>4. \A v \in Workers : v # w => at'[v] = at[v]
    BY DEF Acquire, Wait, AcquireWoken, ClaimFails, Move, GateInv, QueuesTyped
  <1>5. result' \in [Workers -> {"none", "ok", "failed"}]
    BY DEF Acquire, Wait, AcquireWoken, ClaimFails, outcome, AgentInv, AgentTyped
  <1> QED
    BY <1>1, <1>3, <1>4, <1>5 DEF AgentInv, AgentTyped, AgentClaimed, NoOrphan

\* A worker that is running or releasing: its agent starts, ends or goes on.
LEMMA RunningAgent ==
  ASSUME GateInv, AgentInv, NEW w \in Workers, Claimed(w) \/ Settle(w) \/ TransportFails(w)
  PROVE  AgentInv'
  <1>1. /\ UNCHANGED <<kind, metered, emitted, lost, timedOut>>
        /\ at'[w] \in {"running", "releasing"} /\ \A v \in Workers : v # w => at'[v] = at[v]
    BY DEF Claimed, Settle, TransportFails, Move, runtime, GateInv, QueuesTyped
  <1>2. /\ agent' \in [Workers -> {"off", "on", "ended"}]
        /\ \A v \in Workers : v # w => agent'[v] = agent[v]
    BY DEF Claimed, Settle, TransportFails, runtime, AgentInv, AgentTyped
  <1>3. result' \in [Workers -> {"none", "ok", "failed"}]
    BY DEF Claimed, Settle, TransportFails, outcome, AgentInv, AgentTyped
  <1>4. reported' \in [Workers -> Nat]
    <2>1. ReportedCost(w) \in Nat
      BY SandboxPoolAssumption DEF ReportedCost, AgentInv, AgentTyped
    <2> QED
      BY <2>1 DEF Claimed, Settle, TransportFails, outcome, AgentInv, AgentTyped
  <1> QED
    BY <1>1, <1>2, <1>3, <1>4 DEF AgentInv, AgentTyped, AgentClaimed, NoOrphan

\* The release kills what an isolated sandbox runs, or the kill failed and E2B is told.
LEMMA FinallyAgent == ASSUME GateInv, AgentInv, NEW w \in Workers, Finally(w) PROVE AgentInv'
  <1>1. /\ UNCHANGED <<kind, metered, emitted, timedOut, result, reported>>
        /\ at'[w] = "done" /\ \A v \in Workers : v # w => at'[v] = at[v]
    BY DEF Finally, Move, outcome, GateInv, QueuesTyped
  <1>2. \/ agent' = agent /\ lost' = lost /\ kind = "local"
        \/ agent' = [agent EXCEPT ![w] = "ended"] /\ lost' = lost
        \/ agent' = agent /\ lost' = lost \cup {w}
    BY DEF Finally
  <1>3. /\ agent' \in [Workers -> {"off", "on", "ended"}] /\ lost' \subseteq Workers
        /\ lost \subseteq lost' /\ \A v \in Workers : agent'[v] = "on" => agent[v] = "on"
        /\ kind # "local" /\ agent'[w] = "on" => w \in lost'
    BY <1>2 DEF AgentInv, AgentTyped
  <1> QED
    BY <1>1, <1>3 DEF AgentInv, AgentTyped, AgentClaimed, NoOrphan

\* The agent's own steps, the clock's and E2B's start no agent.
LEMMA AloneAgent ==
  ASSUME AgentInv, NEW w \in Workers, Think(w) \/ AgentEnds(w) \/ Expire(w) \/ Reap(w)
  PROVE  AgentInv'
  <1>1. /\ UNCHANGED <<kind, at, lost, result, reported>>
        /\ agent' \in [Workers -> {"off", "on", "ended"}]
        /\ \A v \in Workers : agent'[v] = "on" => agent[v] = "on"
    BY DEF Think, AgentEnds, Expire, Reap, outcome, AgentInv, AgentTyped
  <1>2. metered' \in [Workers -> 0..MaxCost]
    BY SandboxPoolAssumption DEF Think, AgentEnds, Expire, Reap, AgentInv, AgentTyped
  <1>3. emitted' \in [Workers -> {"none", "result", "error"}] /\ timedOut' \in [Workers -> BOOLEAN]
    BY DEF Think, AgentEnds, Expire, Reap, AgentInv, AgentTyped
  <1> QED
    BY <1>1, <1>2, <1>3 DEF AgentInv, AgentTyped, AgentClaimed, NoOrphan

LEMMA StepAgent == GateInv /\ AgentInv /\ [Next]_vars => AgentInv'
  <1> SUFFICES ASSUME GateInv, AgentInv, [Next]_vars PROVE AgentInv'
    OBVIOUS
  <1>1. CASE UNCHANGED vars
    BY <1>1 DEF vars, runtime, outcome, AgentInv, AgentTyped, AgentClaimed, NoOrphan
  <1> QED
    BY <1>1, ClaimingAgent, RunningAgent, FinallyAgent, AloneAgent DEF Next, RunWorker

\* A finished worker leaves no agent of an isolated sandbox behind unless its kill failed,
\* and the pool's state is well typed, for every kind of pool.
THEOREM PoolStaysKept == Spec => []PoolKept
  <1>1. GateInv /\ AgentInv => PoolKept
    <2> SUFFICES ASSUME GateInv, AgentInv PROVE PoolKept
      OBVIOUS
    <2>1. inUse \in Nat
      BY SlotsFinite, FS_CardinalityType DEF GateInv, SlotsCounted
    <2> QED
      BY <2>1 DEF GateInv, QueuesTyped, AgentInv, AgentTyped, PoolKept, TypeOK
  <1> QED
    BY InitGate, InitAgent, StepGate, StepAgent, <1>1, PTL DEF Spec

----------------------------------------------------------------------------
(* Founding.                                                               *)

\* The rows of the state. Every activity, and what a workflow, a request and a company are.
AllActs == UNION {Activities(Stages[k]) : k \in 1..9}
ActRow == [step : Nat \ {0}, tries : Nat]
Acts == UNION {[D -> ActRow] : D \in SUBSET AllActs}
FlowRow == [at : {"idle", "failed"} \cup {Stages[k] : k \in 1..10}, slug : Slugs \cup {"none"}, acts : Acts,
            link : Nat, job : Jobs \cup {None}]
JobRow == [at : {"free", "open", "write", "rename"}, by : Prompts \cup {"nobody"}, slug : Slugs \cup {"none"},
           link : Int, fd : {"none", "tmp", "page"}]
CompanyRow == [owner : {Conglomerate[p] : p \in Prompts} \cup {NoOwner}, active : BOOLEAN, made : SUBSET Repeatable]

\* The state is well typed.
FoundTyped ==
  /\ company \in [Slugs -> CompanyRow] /\ starters \in [Slugs -> SUBSET (Nat \ {0})]
  /\ schedule \in [Slugs -> {"none", "running", "paused"}]
  /\ page \in [Slugs -> Int] /\ tmp \in [Slugs -> Int] /\ job \in [Jobs -> JobRow]
  /\ flow \in [Prompts -> FlowRow] /\ minted \in Nat
  /\ raced \subseteq Slugs /\ overlaid \subseteq Slugs

\* What the effects of an activity leave for good. The starter's and the schedule's events are skipped
\* when there was one already.
Lasting == Repeatable \ {"starter_event", "schedule_event"}
Effected(f, e) ==
  /\ e \in Lasting => e \in company[f.slug].made
  /\ e = "row" => company[f.slug].owner # NoOwner
  /\ e = "rows" => f.link \in starters[f.slug]
  /\ e = "wait" => page[f.slug] # None
  /\ e = "schedule" => schedule[f.slug] # "none"

\* The activities of a stage, those of the stages before it, and what a workflow has behind it.
ActsOf(stage) == IF stage \in {"idle", "done"} THEN {} ELSE Activities(IF stage = "failed" THEN "provision" ELSE stage)
Earlier(stage) == UNION {Activities(Stages[i]) : i \in {i \in 1..9 : \E k \in 1..10 : Stages[k] = stage /\ i < k}}
Behind(f) == Earlier(f.at) \cup (IF f.at = "failed" THEN {} ELSE ActsOf(f.at) \ DOMAIN f.acts)
Kept(f) ==
  /\ f.at # "idle" => f.slug \in Slugs
  /\ DOMAIN f.acts \subseteq ActsOf(f.at)
  /\ \A a \in DOMAIN f.acts : \A i \in 1..Len(Effects[a]) : i < f.acts[a].step => Effected(f, Effects[a][i])
  /\ \A a \in Behind(f) : \A i \in 1..Len(Effects[a]) : Effected(f, Effects[a][i])
Waiting(f) == "deploy" \in DOMAIN f.acts /\ f.acts["deploy"].step = 2
\* A deploy that is over has put a page up.
Waited(p, f) ==
  Waiting(f) => f.job \in Jobs /\ ((job[f.job].by = p /\ job[f.job].slug = f.slug) \/ page[f.slug] # None)
\* Who is about to insert the starter product has its link, and found none.
Minted(f) == "starter" \in DOMAIN f.acts /\ f.acts["starter"].step \in {3, 4}
Seeding(f) == Minted(f) /\ f.acts["starter"].step = 4
Seeds(f) ==
  /\ Minted(f) => f.link # None
  /\ Seeding(f) => starters[f.slug] = {} \/ f.slug \in raced
FlowsKept == \A p \in Prompts : Kept(flow[p]) /\ Waited(p, flow[p]) /\ Seeds(flow[p])

\* deployd's requests carry a link of the catalogue, and through the file a single one opened it alone writes.
JobsKept ==
  \A j \in Jobs : /\ job[j].at = "free" => job[j].slug = "none"
                  /\ job[j].at # "free" => job[j].slug \in Slugs /\ job[j].link \in starters[job[j].slug]
FilesKept ==
  \A s \in Slugs :
    /\ tmp[s] \in {None, Torn} \cup starters[s]
    /\ s \notin overlaid =>
         /\ \A i, j \in Jobs : job[i].slug = s /\ job[j].slug = s => i = j
         /\ \A j \in Jobs : job[j].slug = s => /\ job[j].at \in {"write", "rename"} => job[j].fd = "tmp"
                                               /\ job[j].at = "rename" => tmp[s] # Torn
FoundInv == FoundTyped /\ FlowsKept /\ JobsKept /\ FilesKept /\ FoundedWhole

\* The clock: who resumed a company is still being served; what the backfill is about to do to it.
ClockTyped ==
  /\ company \in [Slugs -> CompanyRow]
  /\ schedule \in [Slugs -> {"none", "running", "paused"}] /\ muted \subseteq Slugs
  /\ call \in [at : {"idle", "clock"}, kind : {"none", "pause", "resume", "schedule"}, slug : Slugs \cup {"none"}]
  /\ fill \in [at : {"idle", "create", "pause"}, slug : Slugs \cup {"none"}, active : BOOLEAN]
ClockInv ==
  /\ ClockTyped
  /\ call.at = "clock" => call.slug \in Slugs
  /\ call.at = "clock" /\ call.kind = "pause" => ~company[call.slug].active
  /\ fill.at # "idle" => fill.slug \in Slugs
  /\ fill.at = "pause" => ~fill.active /\ (~company[fill.slug].active \/ fill.slug \in muted)
  /\ fill.at = "create" /\ ~fill.active =>
       ~company[fill.slug].active \/ fill.slug \in muted \/ schedule[fill.slug] # "none"
  /\ \A s \in Slugs : company[s].active /\ schedule[s] = "paused" =>
       s \in muted \/ (call.at = "clock" /\ call.kind = "resume" /\ call.slug = s)

----------------------------------------------------------------------------
(* The stages and their activities.                                        *)

\* Every stage has a name of its own.
LEMMA StageNames ==
  /\ \A i, j \in 1..10 : Stages[i] = Stages[j] => i = j
  /\ \A i \in 1..10 : Stages[i] \notin {"idle", "failed"}
  /\ Stages[1] = "spec" /\ Stages[10] = "done"
  BY DEF Stages

\* The stage after the k-th.
LEMMA AfterIs ==
  ASSUME NEW k \in 1..9 PROVE After(Stages[k]) = Stages[k + 1]
<1> DEFINE i == CHOOSE i \in 1..9 : Stages[i] = Stages[k]
<1>1. i \in 1..9 /\ Stages[i] = Stages[k]
  OBVIOUS
<1> HIDE DEF i
<1>2. i \in 1..10 /\ k \in 1..10
  BY <1>1
<1>3. i = k
  BY <1>1, <1>2, StageNames
<1> QED BY <1>3 DEF After, i

\* What a stage does: all of provision's activities at once, else one of its own name.
LEMMA OneByOne ==
  ASSUME NEW k \in 1..9 PROVE
  /\ Stages[k] # "provision" => Activities(Stages[k]) = {Stages[k]}
  /\ Activities("provision") \subseteq {"database", "repo", "site", "mailbox", "secrets"}
  /\ Activities("provision") # {} /\ Activities("provision") \subseteq AllActs
<1>1. Stages[3] = "provision"
  BY DEF Stages
<1> QED BY <1>1, FoundingAssumption DEF Activities, Optional, AllActs

\* An activity belongs to one stage.
LEMMA StageOfAct ==
  ASSUME NEW stage, NEW a \in ActsOf(stage), stage = "failed" \/ \E k \in 1..10 : stage = Stages[k]
  PROVE  /\ a \in AllActs
         /\ a \in {Stages[k] : k \in 1..9} => stage = a /\ a # "provision"
         /\ stage \notin {"failed", "provision"} => a = stage /\ ActsOf(stage) = {a}
<1>1. CASE stage = "failed"
  <2>1. Activities("provision") \cap {Stages[k] : k \in 1..9} = {}
    BY OneByOne DEF Stages
  <2> QED BY <1>1, <2>1, OneByOne DEF ActsOf
<1>2. CASE \E k \in 1..10 : stage = Stages[k]
  <2>1. PICK k \in 1..10 : stage = Stages[k]
    BY <1>2
  <2>2. k \in 1..9 /\ stage \notin {"idle", "failed", "done"}
    BY <2>1, StageNames DEF ActsOf
  <2>3. ActsOf(stage) = Activities(Stages[k])
    BY <2>1, <2>2 DEF ActsOf
  <2>4. Activities("provision") \cap {Stages[i] : i \in 1..9} = {}
    BY OneByOne DEF Stages
  <2> QED BY <2>1, <2>2, <2>3, <2>4, OneByOne DEF AllActs
<1> QED BY <1>1, <1>2

\* The effects, by activity.
LEMMA EffectsAre ==
  ASSUME NEW a \in AllActs
  PROVE  /\ Len(Effects[a]) \in Nat
         /\ \A i \in 1..Len(Effects[a]) :
              /\ Effects[a][i] = "created_event" => a = "announce"
              /\ Effects[a][i] = "wait" => a = "deploy" /\ i = 2
              /\ Effects[a][i] = "rows" => a = "starter" /\ i = 4
<1>1. a \in {"spec", "company", "database", "repo", "site", "mailbox", "secrets", "record", "starter", "deploy",
             "playbook", "schedule", "announce"}
  BY FoundingAssumption DEF AllActs, Activities, Optional, Stages
<1>2. CASE a = "spec"
  <2>1. Effects[a] = <<>>
    BY <1>2 DEF Effects
  <2> QED BY <1>2, <2>1
<1>3. CASE a = "company"
  <2>1. Effects[a] = <<"row", "ceo">>
    BY <1>3 DEF Effects
  <2> QED BY <1>3, <2>1
<1>4. CASE a = "database"
  <2>1. Effects[a] = <<"database">>
    BY <1>4 DEF Effects
  <2> QED BY <1>4, <2>1
<1>5. CASE a = "repo"
  <2>1. Effects[a] = <<"repo">>
    BY <1>5 DEF Effects
  <2> QED BY <1>5, <2>1
<1>6. CASE a = "site"
  <2>1. Effects[a] = <<"site">>
    BY <1>6 DEF Effects
  <2> QED BY <1>6, <2>1
<1>7. CASE a = "mailbox"
  <2>1. Effects[a] = <<"mailbox", "address", "mailbox_event">>
    BY <1>7 DEF Effects
  <2> QED BY <1>7, <2>1
<1>8. CASE a = "secrets"
  <2>1. Effects[a] = <<"folder", "secrets_event">>
    BY <1>8 DEF Effects
  <2> QED BY <1>8, <2>1
<1>9. CASE a = "record"
  <2>1. Effects[a] = <<"recorded">>
    BY <1>9 DEF Effects
  <2> QED BY <1>9, <2>1
<1>10. CASE a = "starter"
  <2>1. Effects[a] = <<"look", "mint", "check", "rows", "starter_event">>
    BY <1>10 DEF Effects
  <2> QED BY <1>10, <2>1
<1>11. CASE a = "deploy"
  <2>1. Effects[a] = <<"ask", "wait">>
    BY <1>11 DEF Effects
  <2> QED BY <1>11, <2>1
<1>12. CASE a = "playbook"
  <2>1. Effects[a] = <<"tasks">>
    BY <1>12 DEF Effects
  <2> QED BY <1>12, <2>1
<1>13. CASE a = "schedule"
  <2>1. Effects[a] = <<"schedule", "schedule_event">>
    BY <1>13 DEF Effects
  <2> QED BY <1>13, <2>1
<1>14. CASE a = "announce"
  <2>1. Effects[a] = <<"created_event">>
    BY <1>14 DEF Effects
  <2> QED BY <1>14, <2>1
<1> QED BY <1>1, <1>2, <1>3, <1>4, <1>5, <1>6, <1>7, <1>8, <1>9, <1>10, <1>11, <1>12, <1>13, <1>14


\* What is behind a stage: the stages before it.
LEMMA EarlierIs ==
  /\ Earlier("idle") = {} /\ Earlier("failed") = {}
  /\ \A k \in 1..10 : Earlier(Stages[k]) = UNION {Activities(Stages[i]) : i \in 1..(k - 1)}
<1>1. Earlier("idle") = {} /\ Earlier("failed") = {}
  BY StageNames DEF Earlier
<1>2. ASSUME NEW k \in 1..10 PROVE Earlier(Stages[k]) = UNION {Activities(Stages[i]) : i \in 1..(k - 1)}
  <2>1. {i \in 1..9 : \E m \in 1..10 : Stages[m] = Stages[k] /\ i < m} = 1..(k - 1)
    BY StageNames
  <2> QED BY <2>1 DEF Earlier
<1> QED BY <1>1, <1>2

\* A stage more.
LEMMA EarlierNext ==
  ASSUME NEW k \in 1..9
  PROVE  Earlier(Stages[k + 1]) = Earlier(Stages[k]) \cup Activities(Stages[k])
<1>1. k + 1 \in 1..10 /\ 1..((k + 1) - 1) = 1..k /\ 1..k = (1..(k - 1)) \cup {k} /\ k \in 1..10
  OBVIOUS
<1> QED BY <1>1, EarlierIs

\* What is behind the stages that need it.
LEMMA BehindDeploy ==
  /\ "starter" \in Earlier("deploy")
  /\ {"starter", "deploy", "schedule"} \subseteq Earlier("announce")
  /\ Activities("company") \cup Activities("provision") \cup Activities("record") \cup Activities("playbook")
       \subseteq Earlier("announce")
<1>1. Stages[6] = "deploy" /\ Stages[9] = "announce"
  BY DEF Stages
<1>2. Stages[2] = "company" /\ Stages[3] = "provision" /\ Stages[4] = "record" /\ Stages[5] = "starter"
      /\ Stages[7] = "playbook" /\ Stages[8] = "schedule"
  BY DEF Stages
<1>3. {2, 3, 4, 5, 6, 7, 8} \subseteq 1..(9 - 1) /\ 5 \in 1..(6 - 1) /\ 6 \in 1..10 /\ 9 \in 1..10
  OBVIOUS
<1>4. Activities("starter") = {"starter"} /\ Activities("deploy") = {"deploy"} /\ Activities("schedule") = {"schedule"}
  BY DEF Activities
<1>5. Earlier(Stages[9]) = UNION {Activities(Stages[i]) : i \in 1..(9 - 1)}
      /\ Earlier(Stages[6]) = UNION {Activities(Stages[i]) : i \in 1..(6 - 1)}
  BY <1>3, EarlierIs
<1> HIDE DEF Stages, Activities
<1> QED BY <1>1, <1>2, <1>3, <1>4, <1>5

\* The workflow's activities are a function of their names.
LEMMA FlowIs ==
  ASSUME NEW f \in FlowRow
  PROVE  f.acts \in [DOMAIN f.acts -> ActRow] /\ DOMAIN f.acts \subseteq AllActs
<1>1. PICK D \in SUBSET AllActs : f.acts \in [D -> ActRow]
  BY DEF FlowRow, Acts
<1> QED BY <1>1

\* Rows with the same slug and link have the same effects.
LEMMA SameEffects ==
  ASSUME NEW f, NEW g, g.slug = f.slug, g.link = f.link, NEW e PROVE Effected(f, e) <=> Effected(g, e)
  BY DEF Effected

\* The activity at its n-th effect.
Stepped(f, a, n) == [f EXCEPT !.acts[a].step = n]

\* An activity goes to its n-th effect.
LEMMA Stepping ==
  ASSUME NEW f \in FlowRow, NEW a \in DOMAIN f.acts, NEW n \in Nat \ {0}, NEW g,
         g = Stepped(f, a, n)
  PROVE  /\ g \in FlowRow /\ g.at = f.at /\ g.slug = f.slug /\ g.link = f.link /\ g.job = f.job
         /\ DOMAIN g.acts = DOMAIN f.acts /\ g.acts[a].step = n
         /\ \A b \in DOMAIN f.acts : b # a => g.acts[b].step = f.acts[b].step
<1>1. f.acts \in [DOMAIN f.acts -> ActRow] /\ DOMAIN f.acts \subseteq AllActs
  BY FlowIs
<1> DEFINE h == [f.acts[a] EXCEPT !.step = n]
           k == [f.acts EXCEPT ![a] = h]
<1>2. f.acts[a] \in ActRow
  BY <1>1
<1>3. h \in ActRow /\ h.step = n
  BY <1>2 DEF ActRow
<1>4. g = [f EXCEPT !.acts = k]
  BY <1>1, <1>2 DEF FlowRow, Stepped
<1> HIDE DEF h
<1>5. k \in [DOMAIN f.acts -> ActRow] /\ k[a] = h /\ \A b \in DOMAIN f.acts : b # a => k[b] = f.acts[b]
  BY <1>1, <1>3
<1> HIDE DEF k
<1>6. k \in Acts
  BY <1>1, <1>5 DEF Acts
<1>7. g \in FlowRow
  BY <1>4, <1>6 DEF FlowRow
<1>8. g.at = f.at /\ g.slug = f.slug /\ g.link = f.link /\ g.job = f.job /\ g.acts = k
  BY <1>4 DEF FlowRow
<1>9. DOMAIN k = DOMAIN f.acts
  BY <1>5
<1> QED BY <1>3, <1>5, <1>7, <1>8, <1>9

\* It keeps what the workflow relies on.
LEMMA SteppedKept ==
  ASSUME NEW f \in FlowRow, NEW a \in DOMAIN f.acts, NEW n \in Nat \ {0}, NEW g, g.at = f.at, g.slug = f.slug,
         DOMAIN g.acts = DOMAIN f.acts, g.acts[a].step = n,
         \A b \in DOMAIN f.acts : b # a => g.acts[b].step = f.acts[b].step,
         g.link = f.link, Kept(f),
         \A i \in 1..Len(Effects[a]) : i < n => Effected(f, Effects[a][i])
  PROVE  Kept(g)
  BY SameEffects DEF Kept, Behind


\* So does a stage that is over: the next one has its activities before it.
LEMMA Entering ==
  ASSUME NEW f \in FlowRow, NEW k \in 1..9, f.at = Stages[k], Kept(f),
         \A a \in Activities(Stages[k]) : \A i \in 1..Len(Effects[a]) : Effected(f, Effects[a][i]),
         NEW g, g = Enter(f, After(f.at))
  PROVE  /\ g \in FlowRow /\ Kept(g) /\ g.slug = f.slug /\ g.link = f.link
         /\ \A a \in DOMAIN g.acts : g.acts[a].step = 1
<1> DEFINE stage == Stages[k + 1]
           acts == IF stage = "done" THEN <<>> ELSE [a \in Activities(stage) |-> Fresh]
<1>1. k + 1 \in 1..10 /\ k \in 1..10
  OBVIOUS
<1>2. After(f.at) = stage
  BY AfterIs
<1>3. stage \notin {"idle", "failed"} /\ f.at \notin {"idle", "failed", "done"}
  BY <1>1, StageNames
<1>4. /\ acts \in Acts /\ DOMAIN acts = ActsOf(stage) /\ \A a \in DOMAIN acts : acts[a].step = 1
  <2>1. CASE stage = "done"
    <3>1. acts = <<>> /\ DOMAIN acts = {}
      BY <2>1
    <3>2. acts \in [{} -> ActRow]
      BY <2>1
    <3> QED BY <2>1, <3>1, <3>2 DEF Acts, ActsOf
  <2>2. CASE stage # "done"
    <3>1. k + 1 \in 1..9
      BY <1>1, <2>2, StageNames
    <3>2. Activities(stage) \subseteq AllActs
      BY <3>1 DEF AllActs
    <3>3. Fresh \in ActRow /\ Fresh.step = 1
      BY DEF Fresh, ActRow
    <3>4. acts \in [Activities(stage) -> ActRow] /\ \A a \in Activities(stage) : acts[a] = Fresh
      BY <2>2, <3>3
    <3>5. ActsOf(stage) = Activities(stage)
      BY <1>3, <2>2 DEF ActsOf
    <3> QED BY <3>2, <3>3, <3>4, <3>5 DEF Acts
  <2> QED BY <2>1, <2>2
<1> HIDE DEF acts
<1>5. g = [[f EXCEPT !.at = stage] EXCEPT !.acts = acts]
  BY <1>2 DEF Enter, acts, FlowRow
<1>6. g \in FlowRow /\ g.at = stage /\ g.slug = f.slug /\ g.link = f.link /\ g.acts = acts
  <2>1. stage \in {"idle", "failed"} \cup {Stages[i] : i \in 1..10}
    BY <1>1
  <2> HIDE DEF stage
  <2>2. [f EXCEPT !.at = stage] \in FlowRow
    BY <2>1 DEF FlowRow
  <2> QED BY <1>4, <1>5, <2>2 DEF FlowRow
<1>7. Behind(g) = Earlier(Stages[k]) \cup Activities(Stages[k])
  BY <1>3, <1>4, <1>6, EarlierNext DEF Behind
<1>8. \A a \in Behind(g) : \A i \in 1..Len(Effects[a]) : Effected(f, Effects[a][i])
  BY <1>3, <1>7 DEF Kept, Behind
<1>9. \A a \in Behind(g) : \A i \in 1..Len(Effects[a]) : Effected(g, Effects[a][i])
  BY <1>6, <1>8, SameEffects
<1>10. g.slug \in Slugs
  BY <1>3, <1>6 DEF Kept
<1>11. \A a \in DOMAIN g.acts : \A i \in 1..Len(Effects[a]) : ~(i < g.acts[a].step)
  BY <1>4, <1>6
<1> QED BY <1>4, <1>6, <1>9, <1>10, <1>11 DEF Kept

\* The workflow without an activity.
Dropped(f, a, stage) == [[f EXCEPT !.at = stage] EXCEPT !.acts = Restrict(f.acts, DOMAIN f.acts \ {a})]

\* An activity is dropped, and either is over or its workflow has failed.
LEMMA Dropping ==
  ASSUME NEW f \in FlowRow, NEW a \in DOMAIN f.acts, Kept(f), NEW stage \in {f.at, "failed"},
         NEW g, g = Dropped(f, a, stage),
         stage = "failed" \/ \A i \in 1..Len(Effects[a]) : Effected(f, Effects[a][i])
  PROVE  /\ g \in FlowRow /\ Kept(g) /\ g.slug = f.slug /\ g.link = f.link /\ g.job = f.job
         /\ DOMAIN g.acts = DOMAIN f.acts \ {a} /\ \A b \in DOMAIN g.acts : g.acts[b] = f.acts[b]
<1> DEFINE D == DOMAIN f.acts \ {a}
           acts == [b \in D |-> f.acts[b]]
<1>1. f.acts \in [DOMAIN f.acts -> ActRow] /\ DOMAIN f.acts \subseteq AllActs
  BY FlowIs
<1>2. acts \in [D -> ActRow] /\ D \in SUBSET AllActs
  BY <1>1
<1>3. acts \in Acts /\ DOMAIN acts = D
  BY <1>2 DEF Acts
<1>4. g = [[f EXCEPT !.at = stage] EXCEPT !.acts = acts]
  BY DEF Dropped, Restrict, FlowRow
<1>5. \A b \in D : acts[b] = f.acts[b]
  OBVIOUS
<1> HIDE DEF acts
<1>6. g \in FlowRow /\ g.at = stage /\ g.slug = f.slug /\ g.link = f.link /\ g.job = f.job /\ g.acts = acts
  BY <1>3, <1>4 DEF FlowRow
<1>7. \A e : Effected(g, e) <=> Effected(f, e)
  BY <1>6, SameEffects
<1>8. a \in ActsOf(f.at) /\ f.at \notin {"idle", "done"}
  BY DEF Kept, ActsOf
<1>9. f.at = "failed" \/ \E k \in 1..10 : f.at = Stages[k]
  BY <1>8 DEF FlowRow
<1>10. D \subseteq ActsOf(stage)
  <2>1. CASE stage = f.at
    BY <2>1 DEF Kept
  <2>2. CASE stage = "failed" /\ f.at # "provision"
    <3>1. f.at = "failed" \/ ActsOf(f.at) = {a}
      BY <1>8, <1>9, <2>2, StageOfAct
    <3>2. DOMAIN f.acts \subseteq ActsOf(f.at)
      BY DEF Kept
    <3> QED BY <2>2, <3>1, <3>2
  <2>3. CASE stage = "failed" /\ f.at = "provision"
    BY <2>3 DEF Kept, ActsOf
  <2> QED BY <2>1, <2>2, <2>3
<1>11. Behind(g) \subseteq Behind(f) \cup (IF stage = "failed" THEN {} ELSE {a})
  BY <1>3, <1>6, EarlierIs DEF Behind
<1>12. \A b \in Behind(g) : \A i \in 1..Len(Effects[b]) : Effected(f, Effects[b][i])
  BY <1>11 DEF Kept
<1>13. \A b \in D : \A i \in 1..Len(Effects[b]) : i < acts[b].step => Effected(f, Effects[b][i])
  BY <1>5 DEF Kept
<1>14. g.at # "idle" => g.slug \in Slugs
  BY <1>6, <1>8 DEF Kept
<1>15. Kept(g)
  BY <1>3, <1>6, <1>7, <1>10, <1>12, <1>13, <1>14 DEF Kept
<1> QED BY <1>3, <1>5, <1>6, <1>15


\* An attempt that fails is tried again from its first effect, or given up.
LEMMA Retrying ==
  ASSUME NEW f \in FlowRow, NEW a \in DOMAIN f.acts, Kept(f), NEW g, g = Retried(f, a)
  PROVE  /\ g \in FlowRow /\ Kept(g) /\ g.slug = f.slug /\ g.link = f.link /\ g.job = f.job
         /\ a \in DOMAIN g.acts => g.acts[a].step = 1
         /\ DOMAIN g.acts \subseteq DOMAIN f.acts /\ \A b \in DOMAIN g.acts : b # a => g.acts[b] = f.acts[b]
<1>1. CASE f.at = "failed" \/ f.acts[a].tries = MaxAttempts
  <2>1. g = Dropped(f, a, "failed")
    BY <1>1 DEF Retried, GivesUp, Dropped, FlowRow
  <2> QED BY <2>1, Dropping
<1>2. CASE ~(f.at = "failed" \/ f.acts[a].tries = MaxAttempts)
  <2>1. f.acts \in [DOMAIN f.acts -> ActRow] /\ DOMAIN f.acts \subseteq AllActs
    BY FlowIs
  <2> DEFINE h == [step |-> 1, tries |-> f.acts[a].tries + 1]
             k == [f.acts EXCEPT ![a] = h]
  <2>2. h \in ActRow /\ h.step = 1
    BY <2>1 DEF ActRow
  <2>3. g = [f EXCEPT !.acts = k]
    BY <1>2, <2>1 DEF Retried, FlowRow
  <2> HIDE DEF h
  <2>4. k \in [DOMAIN f.acts -> ActRow] /\ k[a] = h /\ \A b \in DOMAIN f.acts : b # a => k[b] = f.acts[b]
    BY <2>1, <2>2
  <2> HIDE DEF k
  <2>5. k \in Acts /\ DOMAIN k = DOMAIN f.acts
    BY <2>1, <2>4 DEF Acts
  <2>6. g \in FlowRow /\ g.at = f.at /\ g.slug = f.slug /\ g.link = f.link /\ g.job = f.job /\ g.acts = k
    BY <2>3, <2>5 DEF FlowRow
  <2>7. Kept(g)
    <3>1. \A i \in 1..Len(Effects[a]) : i < 1 => Effected(f, Effects[a][i])
      OBVIOUS
    <3>2. g.acts[a].step = 1 /\ \A b \in DOMAIN f.acts : b # a => g.acts[b].step = f.acts[b].step
      BY <2>2, <2>4, <2>6
    <3> QED BY <2>5, <2>6, <3>1, <3>2, SteppedKept
  <2> QED BY <2>2, <2>4, <2>5, <2>6, <2>7
<1> QED BY <1>1, <1>2

\* Nothing that is made goes away again.
Grown ==
  \A s \in Slugs :
    /\ company[s].made \subseteq company'[s].made
    /\ company[s].owner # NoOwner => company'[s].owner # NoOwner
    /\ starters[s] \subseteq starters'[s]
    /\ page[s] # None => page'[s] # None
    /\ schedule[s] # "none" => schedule'[s] # "none"

\* So what a workflow relies on stays.
LEMMA KeptGrows ==
  ASSUME NEW f \in FlowRow, Kept(f), Grown PROVE Kept(f)'
<1>1. CASE f.at = "idle"
  BY <1>1, EarlierIs DEF Kept, Behind, ActsOf
<1>2. CASE f.at # "idle"
  <2>1. f.slug \in Slugs
    BY <1>2 DEF Kept
  <2>2. \A e : Effected(f, e) => Effected(f, e)'
    BY <2>1 DEF Grown, Effected
  <2> QED BY <2>1, <2>2 DEF Kept, Behind
<1> QED BY <1>1, <1>2

\* A deploy that is awaited is still the same request, or is over.
LEMMA WaitedGrows ==
  ASSUME NEW p, NEW f \in FlowRow, Kept(f), Waited(p, f), Grown,
         Waiting(f) => \/ job'[f.job].by = job[f.job].by /\ job'[f.job].slug = job[f.job].slug
                       \/ job[f.job].by # p \/ page'[f.slug] # None
  PROVE  Waited(p, f)'
<1> SUFFICES ASSUME Waiting(f) 
             PROVE  f.job \in Jobs /\ ((job'[f.job].by = p /\ job'[f.job].slug = f.slug) \/ page'[f.slug] # None)
  BY DEF Waited, Waiting
<1>1. f.slug \in Slugs
  BY DEF Kept, Waiting, ActsOf
<1> QED BY <1>1 DEF Grown, Waited

\* Whoever seeds keeps finding none, unless it raced.
LEMMA SeedsGrow ==
  ASSUME NEW f \in FlowRow, Seeds(f), raced \subseteq raced',
         Seeding(f) => starters'[f.slug] = starters[f.slug] \/ f.slug \in raced'
  PROVE  Seeds(f)'
  BY DEF Seeds, Seeding, Minted

\* One workflow moves.
LEMMA OneFlow ==
  ASSUME FoundTyped, FlowsKept, Grown, NEW p \in Prompts, NEW g \in FlowRow, flow' = [flow EXCEPT ![p] = g],
         Kept(g)', Waited(p, g)', Seeds(g)',
         \A q \in Prompts \ {p} : \A f \in FlowRow : f = flow[q] => Waited(q, f)' /\ Seeds(f)'
  PROVE  FlowsKept' /\ flow' \in [Prompts -> FlowRow]
<1>1. flow \in [Prompts -> FlowRow] /\ flow'[p] = g /\ \A q \in Prompts \ {p} : flow'[q] = flow[q]
  BY DEF FoundTyped
<1>2. ASSUME NEW q \in Prompts PROVE (Kept(flow[q]) /\ Waited(q, flow[q]) /\ Seeds(flow[q]))'
  <2>1. CASE q = p
    BY <1>1, <2>1
  <2>2. CASE q # p
    <3>1. PICK f \in FlowRow : f = flow[q]
      BY <1>1
    <3>2. Kept(f)' /\ Waited(q, f)' /\ Seeds(f)' /\ flow'[q] = f
      BY <1>1, <2>2, <3>1, KeptGrows DEF FlowsKept
    <3> QED BY <3>2
  <2> QED BY <2>1, <2>2
<1> QED BY <1>1, <1>2 DEF FlowsKept

\* What a workflow does on its own.
LEMMA FlowAlone ==
  ASSUME FoundInv, UNCHANGED <<company, starters, schedule, site, raced>>, minted' \in Nat, NEW p \in Prompts,
         NEW g \in FlowRow, flow' = [flow EXCEPT ![p] = g], Kept(g), Waited(p, g), Seeds(g)
  PROVE  FoundInv'
<1>1. UNCHANGED <<page, tmp, job, overlaid>>
  BY DEF site
<1>2. Grown
  BY <1>1 DEF Grown
<1>3. \A f \in FlowRow : (Kept(f) => Kept(f)') /\ \A q : (Waited(q, f) => Waited(q, f)') /\ (Seeds(f) => Seeds(f)')
  BY <1>1, <1>2, KeptGrows DEF Waited, Seeds
<1>4. \A q \in Prompts \ {p} : \A f \in FlowRow : f = flow[q] => Waited(q, f)' /\ Seeds(f)'
  BY <1>3 DEF FoundInv, FlowsKept
<1>5. FlowsKept' /\ flow' \in [Prompts -> FlowRow]
  BY <1>2, <1>3, <1>4, OneFlow DEF FoundInv
<1>6. FoundTyped'
  BY <1>1, <1>5 DEF FoundInv, FoundTyped
<1>7. JobsKept' /\ FilesKept'
  BY <1>1 DEF FoundInv, JobsKept, FilesKept
<1>8. FoundedWhole'
  BY <1>1 DEF FoundInv, FoundedWhole, AnnouncedIsWhole, StorefrontSells
<1> QED BY <1>5, <1>6, <1>7, <1>8 DEF FoundInv

\* A workflow row of the invariant.
LEMMA FlowOf ==
  ASSUME FoundInv, NEW p \in Prompts, NEW f, f = flow[p]
  PROVE  f \in FlowRow /\ Kept(f) /\ Waited(p, f) /\ Seeds(f)
  BY DEF FoundInv, FoundTyped, FlowsKept

\* A prompt starts its workflow, with everything still ahead.
LEMMA StartKeeps == ASSUME FoundInv, NEW p \in Prompts, StartCreateCompany(p) PROVE FoundInv'
<1>1. PICK s \in SlugsOf[p] : flow' = [flow EXCEPT ![p] = Enter([Idle EXCEPT !.slug = s], "spec")]
  BY DEF StartCreateCompany, Becomes
<1> DEFINE acts == [a \in {"spec"} |-> Fresh]
           g == [at |-> "spec", slug |-> s, acts |-> acts, link |-> None, job |-> None]
<1>2. s \in Slugs /\ flow' = [flow EXCEPT ![p] = g]
  <2> DEFINE i == [at |-> "idle", slug |-> s, acts |-> <<>>, link |-> None, job |-> None]
  <2>1. [Idle EXCEPT !.slug = s] = i
    BY DEF Idle
  <2>2. [a \in Activities("spec") |-> Fresh] = acts
    BY DEF Activities
  <2>3. Enter(i, "spec") = [i EXCEPT !.at = "spec", !.acts = [a \in Activities("spec") |-> Fresh]]
    BY DEF Enter
  <2> HIDE DEF acts
  <2>4. Enter(i, "spec") = g
    BY <2>2, <2>3
  <2> QED BY <1>1, <2>1, <2>4, FoundingAssumption
<1>3. acts \in Acts /\ DOMAIN acts = {"spec"} /\ acts["spec"].step = 1
  <2>1. acts \in [{"spec"} -> ActRow] /\ acts["spec"].step = 1
    BY DEF Fresh, ActRow
  <2>2. {"spec"} \subseteq AllActs
    BY StageNames, OneByOne DEF AllActs, Activities
  <2> QED BY <2>1, <2>2 DEF Acts
<1> HIDE DEF acts
<1>4. g \in FlowRow
  BY <1>2, <1>3, StageNames DEF FlowRow, None
<1>5. Behind(g) = {}
  <2>1. Earlier("spec") = {}
    BY StageNames, EarlierIs
  <2>2. ActsOf("spec") = {"spec"}
    BY DEF ActsOf, Activities
  <2> QED BY <1>3, <2>1, <2>2 DEF Behind
<1>6. Kept(g)
  <2>1. DOMAIN g.acts \subseteq ActsOf(g.at)
    BY <1>3 DEF ActsOf, Activities
  <2> QED BY <1>2, <1>3, <1>5, <2>1 DEF Kept
<1>7. Waited(p, g) /\ Seeds(g)
  BY <1>3 DEF Waited, Waiting, Seeds, Seeding, Minted
<1>8. UNCHANGED <<company, starters, schedule, site, raced, minted>>
  BY DEF StartCreateCompany, world
<1> HIDE DEF g
<1> QED BY <1>2, <1>4, <1>6, <1>7, <1>8, FlowAlone DEF FoundInv, FoundTyped

\* The workflow when an activity is over.
Ended(f, a) ==
  IF DOMAIN f.acts = {a} THEN IF f.at = "failed" THEN [f EXCEPT !.acts = <<>>] ELSE Enter(f, After(f.at))
  ELSE [f EXCEPT !.acts = Restrict(@, DOMAIN @ \ {a})]

\* An activity that is over is dropped, or brings the next stage.
LEMMA Ending ==
  ASSUME NEW f \in FlowRow, NEW a \in DOMAIN f.acts, Kept(f), f.acts[a].step > Len(Effects[a]),
         NEW g, g = Ended(f, a)
  PROVE  /\ g \in FlowRow /\ Kept(g)
         /\ \A b \in DOMAIN g.acts : \/ g.acts[b].step = 1
                                     \/ /\ b \in DOMAIN f.acts /\ g.acts[b] = f.acts[b]
                                        /\ g.slug = f.slug /\ g.link = f.link /\ g.job = f.job
<1>1. f.acts \in [DOMAIN f.acts -> ActRow] /\ DOMAIN f.acts \subseteq AllActs /\ a \in ActsOf(f.at)
  BY FlowIs DEF Kept
<1>2. f.acts[a].step \in Nat /\ Len(Effects[a]) \in Nat
  BY <1>1, EffectsAre DEF ActRow
<1>3. \A i \in 1..Len(Effects[a]) : Effected(f, Effects[a][i])
  BY <1>2 DEF Kept
<1>4. f.at \notin {"idle", "done"} /\ f.at \in {"failed"} \cup {Stages[k] : k \in 1..10}
  BY <1>1 DEF ActsOf, FlowRow
<1>5. CASE DOMAIN f.acts = {a} /\ f.at = "failed"
  <2> DEFINE acts == <<>>
  <2>1. g = [f EXCEPT !.acts = acts]
    BY <1>5 DEF Ended
  <2>2. acts \in [{} -> ActRow] /\ DOMAIN acts = {}
    OBVIOUS
  <2>3. acts \in Acts
    BY <2>2 DEF Acts
  <2> HIDE DEF acts
  <2>4. g \in FlowRow /\ g.at = f.at /\ g.slug = f.slug /\ g.link = f.link /\ g.acts = acts
    BY <2>1, <2>3 DEF FlowRow
  <2>5. Behind(g) = {} /\ g.slug \in Slugs
    BY <1>5, <2>4, EarlierIs DEF Behind, Kept
  <2> QED BY <2>2, <2>4, <2>5 DEF Kept
<1>6. CASE DOMAIN f.acts = {a} /\ f.at # "failed"
  <2>1. PICK k \in 1..10 : f.at = Stages[k]
    BY <1>4, <1>6
  <2>2. k \in 1..9
    BY <1>4, <2>1, StageNames
  <2>3. ActsOf(f.at) = Activities(Stages[k]) /\ Behind(f) = Earlier(f.at) \cup (ActsOf(f.at) \ {a})
    BY <1>4, <1>6, <2>1 DEF ActsOf, Behind
  <2>4. \A b \in Activities(Stages[k]) : \A i \in 1..Len(Effects[b]) : Effected(f, Effects[b][i])
    BY <1>3, <2>3 DEF Kept
  <2>5. g = Enter(f, After(f.at))
    BY <1>6 DEF Ended
  <2> QED BY <2>1, <2>2, <2>4, <2>5, Entering
<1>7. CASE DOMAIN f.acts # {a}
  <2>1. g = Dropped(f, a, f.at)
    BY <1>7 DEF Ended, Dropped, FlowRow
  <2>2. /\ g \in FlowRow /\ Kept(g) /\ g.slug = f.slug /\ g.link = f.link /\ g.job = f.job
        /\ DOMAIN g.acts = DOMAIN f.acts \ {a} /\ \A b \in DOMAIN g.acts : g.acts[b] = f.acts[b]
    BY <1>3, <2>1, Dropping
  <2> QED BY <2>2
<1> QED BY <1>5, <1>6, <1>7

\* An activity is over.
LEMMA EndsKeeps == ASSUME FoundInv, NEW p \in Prompts, NEW a, ActivityEnds(p, a) PROVE FoundInv'
<1>1. PICK f : f = flow[p]
  OBVIOUS
<1>2. f \in FlowRow /\ Kept(f) /\ Waited(p, f) /\ Seeds(f)
  BY <1>1, FlowOf
<1> DEFINE g == Ended(f, a)
<1>3. flow' = [flow EXCEPT ![p] = g] /\ a \in DOMAIN f.acts /\ f.acts[a].step > Len(Effects[a])
  BY <1>1 DEF ActivityEnds, Becomes, Ended
<1>4. g \in FlowRow /\ Kept(g) /\ \A b \in DOMAIN g.acts : \/ g.acts[b].step = 1
                              \/ /\ b \in DOMAIN f.acts /\ g.acts[b] = f.acts[b]
                                 /\ g.slug = f.slug /\ g.link = f.link /\ g.job = f.job
  BY <1>2, <1>3, Ending
<1> HIDE DEF g
<1>5. Waited(p, g) /\ Seeds(g)
  BY <1>2, <1>4 DEF Waited, Waiting, Seeds, Seeding, Minted
<1>6. UNCHANGED <<company, starters, schedule, site, raced, minted>>
  BY DEF ActivityEnds, world
<1> QED BY <1>3, <1>4, <1>5, <1>6, FlowAlone DEF FoundInv, FoundTyped

\* An attempt fails.
LEMMA FailsKeeps == ASSUME FoundInv, NEW p \in Prompts, NEW a, AttemptFails(p, a) PROVE FoundInv'
<1>1. PICK f : f = flow[p]
  OBVIOUS
<1>2. f \in FlowRow /\ Kept(f) /\ Waited(p, f) /\ Seeds(f)
  BY <1>1, FlowOf
<1> DEFINE g == Retried(f, a)
<1>3. flow' = [flow EXCEPT ![p] = g] /\ a \in DOMAIN f.acts
  BY <1>1 DEF AttemptFails, Becomes
<1>4. /\ g \in FlowRow /\ Kept(g) /\ g.slug = f.slug /\ g.link = f.link /\ g.job = f.job
      /\ a \in DOMAIN g.acts => g.acts[a].step = 1
      /\ DOMAIN g.acts \subseteq DOMAIN f.acts /\ \A b \in DOMAIN g.acts : b # a => g.acts[b] = f.acts[b]
  BY <1>2, <1>3, Retrying
<1> HIDE DEF g
<1>5. Waited(p, g) /\ Seeds(g)
  BY <1>2, <1>4 DEF Waited, Waiting, Seeds, Seeding, Minted
<1>6. UNCHANGED <<company, starters, schedule, site, raced, minted>>
  BY DEF AttemptFails, world
<1> QED BY <1>3, <1>4, <1>5, <1>6, FlowAlone DEF FoundInv, FoundTyped

\* What an activity runs is one of its effects, and it belongs to its workflow's stage.
LEMMA Running ==
  ASSUME FoundInv, NEW p \in Prompts, NEW f, f = flow[p], NEW a, NEW e, Runs(p, a, e)
  PROVE  /\ a \in DOMAIN f.acts /\ a \in AllActs /\ a \in ActsOf(f.at) /\ f.at \notin {"idle", "done"}
         /\ f.slug \in Slugs /\ f.acts[a].step \in 1..Len(Effects[a]) /\ f.acts[a].step \in Nat \ {0}
         /\ Effects[a][f.acts[a].step] = e /\ Len(Effects[a]) \in Nat
         /\ a \in {Stages[k] : k \in 1..9} => f.at = a
         /\ \A i \in 1..Len(Effects[a]) : i < f.acts[a].step => Effected(f, Effects[a][i])
<1>1. f \in FlowRow /\ Kept(f)
  BY FlowOf
<1>2. a \in DOMAIN f.acts /\ f.acts[a].step <= Len(Effects[a]) /\ Effects[a][f.acts[a].step] = e
  BY DEF Runs
<1>3. f.acts \in [DOMAIN f.acts -> ActRow] /\ DOMAIN f.acts \subseteq AllActs
  BY <1>1, FlowIs
<1>4. f.acts[a].step \in Nat \ {0} /\ Len(Effects[a]) \in Nat
  BY <1>2, <1>3, EffectsAre DEF ActRow
<1>5. a \in ActsOf(f.at) /\ f.at \notin {"idle", "done"}
  BY <1>1, <1>2 DEF Kept, ActsOf
<1>6. f.at = "failed" \/ \E k \in 1..10 : f.at = Stages[k]
  BY <1>1, <1>5 DEF FlowRow
<1>7. a \in {Stages[k] : k \in 1..9} => f.at = a
  BY <1>5, <1>6, StageOfAct
<1>8. f.slug \in Slugs /\ \A i \in 1..Len(Effects[a]) : i < f.acts[a].step => Effected(f, Effects[a][i])
  BY <1>1, <1>2, <1>5 DEF Kept
<1> QED BY <1>2, <1>3, <1>4, <1>5, <1>7, <1>8

\* The starter's effects, in order.
LEMMA StarterEffects ==
  /\ Len(Effects["starter"]) = 5 /\ Effects["starter"][1] = "look" /\ Effects["starter"][2] = "mint"
  /\ Effects["starter"][3] = "check" /\ Effects["starter"][4] = "rows" /\ Effects["starter"][5] = "starter_event"
<1>1. Effects["starter"] = <<"look", "mint", "check", "rows", "starter_event">>
  BY DEF Effects
<1> QED BY <1>1

\* The deploy's.
LEMMA DeployEffects ==
  Len(Effects["deploy"]) = 2 /\ Effects["deploy"][1] = "ask" /\ Effects["deploy"][2] = "wait"
<1>1. Effects["deploy"] = <<"ask", "wait">>
  BY DEF Effects
<1> QED BY <1>1

\* The activity of a stage of its own is alone.
LEMMA Alone ==
  ASSUME NEW f \in FlowRow, Kept(f), NEW a \in {"company", "starter", "deploy", "schedule", "announce"}, a \in DOMAIN f.acts
  PROVE  DOMAIN f.acts = {a} /\ f.at = a /\ a \notin Earlier(a) /\ Behind(f) = Earlier(a)
<1>1. a \in ActsOf(f.at) /\ DOMAIN f.acts \subseteq ActsOf(f.at) /\ f.at \notin {"idle", "done"}
  BY DEF Kept, ActsOf
<1>2. a \in {Stages[k] : k \in 1..9} /\ a # "provision"
  <2>1. Stages[2] = "company" /\ Stages[5] = "starter" /\ Stages[6] = "deploy" /\ Stages[8] = "schedule"
        /\ Stages[9] = "announce"
    BY DEF Stages
  <2> QED BY <2>1
<1>3. f.at = "failed" \/ \E k \in 1..10 : f.at = Stages[k]
  BY <1>1 DEF FlowRow
<1>4. f.at = a /\ f.at \notin {"failed", "provision"}
  BY <1>1, <1>2, <1>3, StageNames, StageOfAct
<1>5. ActsOf(f.at) = {a}
  BY <1>1, <1>3, <1>4, StageOfAct
<1>6. a \notin Earlier(a)
  <2>1. PICK k \in 1..9 : a = Stages[k]
    BY <1>2
  <2>2. \A i \in 1..(k - 1) : i \in 1..9 /\ Stages[i] # Stages[k]
    BY StageNames
  <2>3. \A i \in 1..(k - 1) : a \notin Activities(Stages[i])
    <3> SUFFICES ASSUME NEW i \in 1..(k - 1) PROVE a \notin Activities(Stages[i])
      OBVIOUS
    <3>1. CASE Stages[i] = "provision"
      BY <3>1, OneByOne
    <3>2. CASE Stages[i] # "provision"
      BY <2>1, <2>2, <3>2, OneByOne
    <3> QED BY <3>1, <3>2
  <2>4. k \in 1..10 /\ Earlier(a) = UNION {Activities(Stages[i]) : i \in 1..(k - 1)}
    BY <2>1, EarlierIs
  <2> QED BY <2>3, <2>4
<1> QED BY <1>1, <1>4, <1>5, <1>6 DEF Behind

\* The seeding goes to its n-th effect with another link.
Relink(f, n, l) == [Stepped(f, "starter", n) EXCEPT !.link = l]

\* The starter activity takes another link with it: what is behind the stage is not about links.
LEMMA Relinked ==
  ASSUME NEW f \in FlowRow, Kept(f), "starter" \in DOMAIN f.acts, NEW n \in Nat \ {0}, NEW l \in Nat,
         n <= 4 \/ l \in starters[f.slug], NEW g, g = Relink(f, n, l)
  PROVE  /\ g \in FlowRow /\ Kept(g) /\ g.slug = f.slug /\ g.link = l
         /\ DOMAIN g.acts = {"starter"} /\ g.acts["starter"].step = n
<1> DEFINE h == Stepped(f, "starter", n)
<1>1. /\ h \in FlowRow /\ h.at = f.at /\ h.slug = f.slug /\ h.link = f.link /\ h.job = f.job
      /\ DOMAIN h.acts = DOMAIN f.acts /\ h.acts["starter"].step = n
  BY Stepping
<1> HIDE DEF h
<1>2. g = [h EXCEPT !.link = l]
  BY DEF h, Relink
<1>3. g \in FlowRow /\ g.at = f.at /\ g.slug = f.slug /\ g.link = l /\ g.acts = h.acts
  BY <1>1, <1>2 DEF FlowRow
<1>4. /\ DOMAIN f.acts = {"starter"} /\ f.at = "starter"
      /\ "starter" \notin Earlier("starter") /\ Behind(f) = Earlier("starter")
  BY Alone
<1>5. f.slug \in Slugs
  BY <1>4 DEF Kept
<1>6. Behind(g) = Behind(f)
  BY <1>1, <1>3 DEF Behind
<1>7. \A e : e # "rows" => (Effected(f, e) => Effected(g, e))
  BY <1>3 DEF Effected
<1>8. \A b \in Earlier("starter") : b \in AllActs
  BY OneByOne DEF Earlier, AllActs
<1>9. \A b \in Behind(g) : \A i \in 1..Len(Effects[b]) : Effected(g, Effects[b][i])
  BY <1>4, <1>6, <1>7, <1>8, EffectsAre DEF Kept
<1>10. \A i \in 1..Len(Effects["starter"]) : i < n => Effected(g, Effects["starter"][i])
  <2> SUFFICES ASSUME NEW i \in 1..5, i < n PROVE Effected(g, Effects["starter"][i])
    BY StarterEffects
  <2>1. CASE i = 4
    BY <1>3, <2>1, StarterEffects DEF Effected, Lasting, Repeatable
  <2>2. CASE i # 4
    BY <2>2, StarterEffects DEF Effected, Lasting, Repeatable
  <2> QED BY <2>1, <2>2
<1> QED BY <1>1, <1>3, <1>4, <1>5, <1>9, <1>10 DEF Kept

\* The seeding takes another link, and is not about to insert one.
LEMMA RelinkKeeps ==
  ASSUME FoundInv, UNCHANGED <<company, starters, schedule, site, raced>>, minted' \in Nat, NEW p \in Prompts,
         NEW f, f = flow[p], "starter" \in DOMAIN f.acts, NEW n \in Nat \ {0}, NEW l \in Nat \ {0}, n # 4,
         n <= 4 \/ l \in starters[f.slug],
         NEW g, g = Relink(f, n, l), flow' = [flow EXCEPT ![p] = g]
  PROVE  FoundInv'
<1>1. f \in FlowRow /\ Kept(f)
  BY FlowOf
<1>2. g \in FlowRow /\ Kept(g) /\ DOMAIN g.acts = {"starter"} /\ g.acts["starter"].step = n /\ g.link = l
  BY <1>1, Relinked
<1>3. Waited(p, g) /\ Seeds(g)
  BY <1>2 DEF None, Waited, Waiting, Seeds, Seeding, Minted
<1> QED BY <1>2, <1>3, FlowAlone

\* The n-th effect is no wait for deployd, and no insert unless nothing was found.
MayStep(f, a, n) ==
  ~(a = "deploy" /\ n = 2) /\ (a = "starter" => n # 3 /\ (n = 4 => starters[f.slug] = {} /\ f.link # None))

\* An activity goes on to its n-th effect, and neither awaits a deploy nor is about to insert.
LEMMA StepKeeps ==
  ASSUME FoundInv, UNCHANGED <<company, starters, schedule, site, raced, minted>>, NEW p \in Prompts,
         NEW f, f = flow[p], NEW a, NEW e, Runs(p, a, e), NEW n \in Nat \ {0},
         \A i \in 1..Len(Effects[a]) : i < n => Effected(f, Effects[a][i]),
         NEW g, g = Stepped(f, a, n), flow' = [flow EXCEPT ![p] = g],
         MayStep(f, a, n)
  PROVE  FoundInv'
<1>1. f \in FlowRow /\ Kept(f) /\ Waited(p, f) /\ Seeds(f) /\ a \in DOMAIN f.acts
  BY FlowOf, Running
<1>2. /\ g \in FlowRow /\ g.at = f.at /\ g.slug = f.slug /\ g.link = f.link /\ g.job = f.job
      /\ DOMAIN g.acts = DOMAIN f.acts /\ g.acts[a].step = n
      /\ \A b \in DOMAIN f.acts : b # a => g.acts[b].step = f.acts[b].step
  BY <1>1, Stepping
<1>3. Kept(g)
  <2>1. \A i \in 1..Len(Effects[a]) : i < n => Effected(f, Effects[a][i])
    OBVIOUS
  <2> QED BY <1>1, <1>2, <2>1, SteppedKept
<1>4. Waited(p, g) /\ Seeds(g)
  BY <1>1, <1>2 DEF MayStep, Waited, Waiting, Seeds, Seeding, Minted
<1>5. minted' \in Nat
  BY DEF FoundInv, FoundTyped
<1> QED BY <1>2, <1>3, <1>4, <1>5, FlowAlone

\* What each effect stands at.
LEMMA StepOf ==
  ASSUME FoundInv, NEW p \in Prompts, NEW f, f = flow[p], NEW a, NEW e, Runs(p, a, e)
  PROVE  /\ a = "starter" => f.acts[a].step = (CASE e = "look" -> 1 [] e = "mint" -> 2 [] e = "check" -> 3
                                                [] e = "rows" -> 4 [] e = "starter_event" -> 5)
         /\ a = "deploy" => f.acts[a].step = (CASE e = "ask" -> 1 [] e = "wait" -> 2)
<1>1. f.acts[a].step \in 1..Len(Effects[a]) /\ Effects[a][f.acts[a].step] = e
  BY Running
<1>2. CASE a = "starter"
  <2>1. f.acts[a].step \in 1..5
    BY <1>1, <1>2, StarterEffects
  <2> QED BY <1>1, <1>2, <2>1, StarterEffects
<1>3. CASE a = "deploy"
  <2>1. f.acts[a].step \in 1..2
    BY <1>1, <1>3, DeployEffects
  <2> QED BY <1>1, <1>3, <2>1, DeployEffects
<1> QED BY <1>2, <1>3

\* A link of the catalogue was minted.
LEMMA StarterTyped ==
  ASSUME FoundInv, NEW s \in Slugs, NEW l \in starters[s] PROVE l \in Nat \ {0} /\ l # None /\ l # Torn
  BY DEF FoundInv, FoundTyped, None, Torn

\* The seeding finds the product of an earlier attempt, and answers with its link.
LEMMA FoundKeeps ==
  ASSUME FoundInv, UNCHANGED <<company, starters, schedule, site, raced, minted>>, NEW p \in Prompts,
         NEW e, Runs(p, "starter", e), Found(p)
  PROVE  FoundInv'
<1>1. PICK f : f = flow[p]
  OBVIOUS
<1>2. "starter" \in DOMAIN f.acts /\ f.slug \in Slugs /\ f \in FlowRow
  BY <1>1, Running, FlowOf
<1>3. PICK l \in starters[f.slug] : flow' = [flow EXCEPT ![p] = [f EXCEPT !.acts["starter"].step = 6, !.link = l]]
  BY <1>1 DEF Found, Becomes
<1> DEFINE n == 6
           g == Relink(f, n, l)
<1>4. flow' = [flow EXCEPT ![p] = g] /\ n \in Nat \ {0} /\ n # 4 /\ l \in Nat \ {0}
  BY <1>2, <1>3, StarterTyped DEF FlowRow, Relink, Stepped
<1>5. minted' \in Nat
  BY DEF FoundInv, FoundTyped
<1> HIDE DEF n
<1> QED BY <1>1, <1>2, <1>4, <1>5, RelinkKeeps

\* The first look for a product.
LEMMA LookKeeps == ASSUME FoundInv, NEW p \in Prompts, LookForStarter(p) PROVE FoundInv'
<1>1. Runs(p, "starter", "look") /\ UNCHANGED <<company, starters, schedule, site, raced, minted>>
  BY DEF LookForStarter, world
<1>2. CASE starters[flow[p].slug] # {}
  BY <1>1, <1>2, FoundKeeps DEF LookForStarter
<1>3. CASE starters[flow[p].slug] = {}
  <2>1. PICK f : f = flow[p]
    OBVIOUS
  <2>2. f.acts["starter"].step = 1 /\ f \in FlowRow
    BY <1>1, <2>1, StepOf, FlowOf
  <2> DEFINE n == 2
             g == Stepped(f, "starter", n)
  <2>3. flow' = [flow EXCEPT ![p] = [f EXCEPT !.acts["starter"].step = @ + 1]]
    BY <1>3, <2>1 DEF LookForStarter, Onward, Becomes
  <2>4. "starter" \in DOMAIN f.acts /\ f.acts \in [DOMAIN f.acts -> ActRow]
    BY <1>1, <2>1, <2>2, Running, FlowIs
  <2>5. flow' = [flow EXCEPT ![p] = g] /\ n \in Nat \ {0} /\ n \notin {3, 4} /\ n < 3
    BY <2>2, <2>3, <2>4 DEF FlowRow, ActRow, Stepped
  <2> HIDE DEF n
  <2>6. \A i \in 1..Len(Effects["starter"]) : i < n => Effected(f, Effects["starter"][i])
    BY <2>5, StarterEffects DEF Effected, Lasting, Repeatable
  <2>7. MayStep(f, "starter", n)
    BY <2>5 DEF MayStep
  <2> QED BY <1>1, <2>1, <2>5, <2>6, <2>7, StepKeeps
<1> QED BY <1>2, <1>3

\* A product is minted at the provider.
LEMMA MintKeeps == ASSUME FoundInv, NEW p \in Prompts, MintProduct(p) PROVE FoundInv'
<1>1. Runs(p, "starter", "mint") /\ UNCHANGED <<company, starters, schedule, site, raced>> /\ minted' = minted + 1
  BY DEF MintProduct, world
<1>2. PICK f : f = flow[p]
  OBVIOUS
<1>3. f.acts["starter"].step = 2 /\ f \in FlowRow
  BY <1>1, <1>2, StepOf, FlowOf
<1>4. "starter" \in DOMAIN f.acts /\ f.acts \in [DOMAIN f.acts -> ActRow]
  BY <1>1, <1>2, <1>3, Running, FlowIs
<1> DEFINE n == 3
           l == minted + 1
           g == Relink(f, n, l)
<1>5. minted' \in Nat /\ l \in Nat \ {0}
  BY <1>1 DEF FoundInv, FoundTyped
<1>6. flow' = [flow EXCEPT ![p] = [f EXCEPT !.acts["starter"].step = @ + 1, !.link = l]]
  BY <1>2 DEF MintProduct, Becomes
<1> HIDE DEF l
<1>7. flow' = [flow EXCEPT ![p] = g] /\ n \in Nat \ {0} /\ n # 4 /\ n <= 4
  BY <1>3, <1>4, <1>6 DEF FlowRow, ActRow, Relink, Stepped
<1> HIDE DEF n
<1> QED BY <1>1, <1>2, <1>4, <1>5, <1>7, RelinkKeeps

\* The look of the transaction.
LEMMA CheckKeeps == ASSUME FoundInv, NEW p \in Prompts, CheckStarter(p) PROVE FoundInv'
<1>1. Runs(p, "starter", "check") /\ UNCHANGED <<company, starters, schedule, site, raced, minted>>
  BY DEF CheckStarter, world
<1>2. CASE Seeded(p)
  BY <1>1, <1>2, FoundKeeps DEF CheckStarter, AnswerStored
<1>3. CASE ~Seeded(p)
  <2>1. PICK f : f = flow[p]
    OBVIOUS
  <2>2. f.acts["starter"].step = 3 /\ f \in FlowRow /\ Seeds(f)
    BY <1>1, <2>1, StepOf, FlowOf
  <2> DEFINE n == 4
             g == Stepped(f, "starter", n)
  <2>3. flow' = [flow EXCEPT ![p] = [f EXCEPT !.acts["starter"].step = @ + 1]]
    BY <1>3, <2>1 DEF CheckStarter, Onward, Becomes
  <2>4. "starter" \in DOMAIN f.acts /\ f.acts \in [DOMAIN f.acts -> ActRow]
    BY <1>1, <2>1, <2>2, Running, FlowIs
  <2>5. flow' = [flow EXCEPT ![p] = g] /\ n \in Nat \ {0} /\ n = 4 /\ n < 5
    BY <2>2, <2>3, <2>4 DEF FlowRow, ActRow, Stepped
  <2>6. starters[f.slug] = {} /\ f.link # None
    BY <1>3, <2>1, <2>2, <2>4 DEF Seeded, Seeds, Minted
  <2> HIDE DEF n
  <2>7. \A i \in 1..Len(Effects["starter"]) : i < n => Effected(f, Effects["starter"][i])
    BY <2>5, StarterEffects DEF Effected, Lasting, Repeatable
  <2>8. MayStep(f, "starter", n)
    BY <2>5, <2>6 DEF MayStep
  <2> QED BY <1>1, <2>1, <2>5, <2>7, <2>8, StepKeeps
<1> QED BY <1>2, <1>3

\* deployd has answered: the page is up.
LEMMA HearKeeps == ASSUME FoundInv, NEW p \in Prompts, HearDeployd(p) PROVE FoundInv'
<1>1. Runs(p, "deploy", "wait") /\ UNCHANGED <<company, starters, schedule, site, raced, minted>>
  BY DEF HearDeployd, world
<1>2. PICK f : f = flow[p]
  OBVIOUS
<1>3. f.acts["deploy"].step = 2 /\ f \in FlowRow /\ Waited(p, f)
  BY <1>1, <1>2, StepOf, FlowOf
<1> DEFINE n == 3
           g == Stepped(f, "deploy", n)
<1>4. flow' = [flow EXCEPT ![p] = [f EXCEPT !.acts["deploy"].step = @ + 1]]
  BY <1>2 DEF HearDeployd, Onward, Becomes
<1>5. "deploy" \in DOMAIN f.acts /\ f.acts \in [DOMAIN f.acts -> ActRow]
  BY <1>1, <1>2, <1>3, Running, FlowIs
<1>6. flow' = [flow EXCEPT ![p] = g] /\ n \in Nat \ {0} /\ n # 2
  BY <1>3, <1>4, <1>5 DEF FlowRow, ActRow, Stepped
<1>7. page[f.slug] # None
  BY <1>1, <1>2, <1>3, <1>5 DEF HearDeployd, Waits, Waited, Waiting
<1> HIDE DEF n
<1>8. \A i \in 1..Len(Effects["deploy"]) : i < n => Effected(f, Effects["deploy"][i])
  BY <1>7, DeployEffects DEF Effected, Lasting, Repeatable
<1>9. MayStep(f, "deploy", n)
  BY <1>6 DEF MayStep
<1> QED BY <1>1, <1>2, <1>6, <1>8, <1>9, StepKeeps

\* The n-th effect neither waits for deployd nor inserts a product.
MayGrow(a, n) == a # "deploy" /\ (a # "starter" \/ n \notin {3, 4})

\* A step of an activity makes something: what the others rely on stays.
LEMMA StepGrows ==
  ASSUME FoundInv, Grown, UNCHANGED <<starters, minted, site, raced>>, company' \in [Slugs -> CompanyRow],
         schedule' \in [Slugs -> {"none", "running", "paused"}], AnnouncedIsWhole', NEW p \in Prompts,
         NEW f, f = flow[p], NEW a, NEW e, Runs(p, a, e), NEW n \in Nat \ {0},
         \A i \in 1..Len(Effects[a]) : i < n => Effected(f, Effects[a][i])',
         NEW g, g = Stepped(f, a, n), flow' = [flow EXCEPT ![p] = g], MayGrow(a, n)
  PROVE  FoundInv'
<1>1. f \in FlowRow /\ Kept(f) /\ Waited(p, f) /\ Seeds(f) /\ a \in DOMAIN f.acts
  BY FlowOf, Running
<1>2. /\ g \in FlowRow /\ g.at = f.at /\ g.slug = f.slug /\ g.link = f.link /\ g.job = f.job
      /\ DOMAIN g.acts = DOMAIN f.acts /\ g.acts[a].step = n
      /\ \A b \in DOMAIN f.acts : b # a => g.acts[b].step = f.acts[b].step
  BY <1>1, Stepping
<1>3. UNCHANGED <<page, tmp, job, overlaid>>
  BY DEF site
<1>4. Kept(g)'
  <2>1. Kept(f)'
    BY <1>1, KeptGrows
  <2>2. \A e1 : Effected(f, e1)' <=> Effected(g, e1)'
    BY <1>2 DEF Effected
  <2>3. \A i \in 1..Len(Effects[a]) : i < n => Effected(f, Effects[a][i])'
    OBVIOUS
  <2> QED BY <1>2, <2>1, <2>2, <2>3 DEF Kept, Behind
<1>5. Waited(p, g)' /\ Seeds(g)'
  BY <1>1, <1>2, <1>3 DEF MayGrow, Waited, Waiting, Seeds, Seeding, Minted
<1>6. \A q \in Prompts \ {p} : \A h \in FlowRow : h = flow[q] => Waited(q, h)' /\ Seeds(h)'
  BY <1>3 DEF FoundInv, FlowsKept, Waited, Seeds
<1>7. FlowsKept' /\ flow' \in [Prompts -> FlowRow]
  BY <1>2, <1>4, <1>5, <1>6, OneFlow DEF FoundInv
<1>8. FoundTyped'
  BY <1>3, <1>7 DEF FoundInv, FoundTyped
<1>9. JobsKept' /\ FilesKept'
  BY <1>3 DEF FoundInv, JobsKept, FilesKept
<1>10. FoundedWhole'
  BY <1>3 DEF FoundInv, FoundedWhole, StorefrontSells
<1> QED BY <1>7, <1>8, <1>9, <1>10 DEF FoundInv

\* What was announced is still whole.
LEMMA StillWhole ==
  ASSUME FoundInv, Grown, \A s \in Slugs : "created_event" \in company'[s].made => "created_event" \in company[s].made
  PROVE  AnnouncedIsWhole'
<1> SUFFICES ASSUME NEW s \in Slugs, "created_event" \in company'[s].made
             PROVE  /\ Needed \ {"row"} \subseteq company'[s].made /\ company'[s].owner # NoOwner
                    /\ schedule'[s] # "none" /\ page'[s] # None
  BY DEF AnnouncedIsWhole
<1>1. /\ Needed \ {"row"} \subseteq company[s].made /\ company[s].owner # NoOwner
      /\ schedule[s] # "none" /\ page[s] # None
  BY DEF FoundInv, FoundedWhole, AnnouncedIsWhole
<1> QED BY <1>1 DEF Grown

\* The row of the company is written, or is there.
LEMMA UpsertKeeps == ASSUME FoundInv, NEW p \in Prompts, UpsertRow(p) PROVE FoundInv'
<1>1. PICK f : f = flow[p]
  OBVIOUS
<1>2. Runs(p, "company", "row") /\ UNCHANGED <<starters, schedule, minted, site, raced>> /\ UNCHANGED <<page, schedule>>
  BY DEF UpsertRow, site
<1>3. /\ "company" \in DOMAIN f.acts /\ f.slug \in Slugs /\ f.acts["company"].step \in Nat \ {0} /\ f \in FlowRow
      /\ f.acts["company"].step \in 1..Len(Effects["company"]) /\ Effects["company"][f.acts["company"].step] = "row"
      /\ f.acts \in [DOMAIN f.acts -> ActRow]
  BY <1>1, <1>2, FlowOf, Running, FlowIs
<1>4. Effects["company"] = <<"row", "ceo">>
  BY DEF Effects
<1>5. f.acts["company"].step = 1
  <2>1. f.acts["company"].step \in 1..2
    BY <1>3, <1>4
  <2> QED BY <1>3, <1>4, <2>1
<1> DEFINE s == f.slug
           owner == IF company[s].owner = NoOwner THEN Conglomerate[p] ELSE company[s].owner
           row == [company[s] EXCEPT !.owner = owner]
           n == 2
           g == Stepped(f, "company", n)
<1>6. company \in [Slugs -> CompanyRow] /\ s \in Slugs
  BY <1>3 DEF FoundInv, FoundTyped
<1>7. company' = [company EXCEPT ![s] = row]
  BY <1>1, <1>6 DEF UpsertRow
<1>8. owner # NoOwner /\ owner \in {Conglomerate[q] : q \in Prompts} \cup {NoOwner}
      /\ (company[s].owner # NoOwner => owner = company[s].owner)
  BY <1>6, FoundingAssumption DEF CompanyRow, NoOwner
<1> HIDE DEF owner
<1>9. row \in CompanyRow /\ row.owner # NoOwner /\ row.made = company[s].made
  BY <1>6, <1>8 DEF CompanyRow
<1> HIDE DEF row
<1>10. company' \in [Slugs -> CompanyRow] /\ Grown /\ company'[s].owner # NoOwner
       /\ \A t \in Slugs : company'[t].made = company[t].made
  BY <1>2, <1>6, <1>7, <1>9 DEF Grown
<1>11. AnnouncedIsWhole'
  BY <1>10, StillWhole
<1>12. flow' = [flow EXCEPT ![p] = [f EXCEPT !.acts["company"].step = @ + 1]]
  BY <1>1 DEF UpsertRow, Onward, Becomes
<1>13. flow' = [flow EXCEPT ![p] = g] /\ n \in Nat \ {0} /\ n = 2
  BY <1>3, <1>5, <1>12 DEF FlowRow, ActRow, Stepped
<1> HIDE DEF n
<1>14. \A i \in 1..Len(Effects["company"]) : i < n => Effected(f, Effects["company"][i])'
  BY <1>4, <1>10, <1>13 DEF Effected, Lasting, Repeatable
<1>15. schedule' \in [Slugs -> {"none", "running", "paused"}]
  BY <1>2 DEF FoundInv, FoundTyped
<1>16. MayGrow("company", n)
  BY DEF MayGrow
<1> QED BY <1>1, <1>2, <1>10, <1>11, <1>13, <1>14, <1>15, <1>16, StepGrows

\* The clock is made, or is there.
LEMMA ScheduleKeeps == ASSUME FoundInv, NEW p \in Prompts, CreateSchedule(p) PROVE FoundInv'
<1>1. PICK f : f = flow[p]
  OBVIOUS
<1>2. Runs(p, "schedule", "schedule") /\ UNCHANGED <<starters, company, minted, site, raced>> /\ UNCHANGED <<page, company>>
  BY DEF CreateSchedule, site
<1>3. /\ "schedule" \in DOMAIN f.acts /\ f.slug \in Slugs /\ f.acts["schedule"].step \in Nat \ {0} /\ f \in FlowRow
      /\ f.acts["schedule"].step \in 1..Len(Effects["schedule"])
      /\ Effects["schedule"][f.acts["schedule"].step] = "schedule" /\ f.acts \in [DOMAIN f.acts -> ActRow]
  BY <1>1, <1>2, FlowOf, Running, FlowIs
<1>4. Effects["schedule"] = <<"schedule", "schedule_event">>
  BY DEF Effects
<1>5. f.acts["schedule"].step = 1
  <2>1. f.acts["schedule"].step \in 1..2
    BY <1>3, <1>4
  <2> QED BY <1>3, <1>4, <2>1
<1> DEFINE s == f.slug
           n == IF schedule[s] = "none" THEN 2 ELSE 3
           g == Stepped(f, "schedule", n)
<1>6. /\ schedule' \in [Slugs -> {"none", "running", "paused"}] /\ schedule'[s] # "none"
      /\ \A t \in Slugs : schedule[t] # "none" => schedule'[t] # "none"
  BY <1>1, <1>3 DEF CreateSchedule, FoundInv, FoundTyped
<1>7. Grown /\ \A t \in Slugs : company'[t].made = company[t].made
  BY <1>2, <1>6 DEF Grown
<1>8. AnnouncedIsWhole'
  BY <1>7, StillWhole
<1>9. flow' = [flow EXCEPT ![p] = g] /\ n \in Nat \ {0} /\ n \in {2, 3}
  BY <1>1, <1>3, <1>5 DEF CreateSchedule, Onward, SkipTo, Becomes, FlowRow, ActRow, Stepped
<1> HIDE DEF n
<1>10. \A i \in 1..Len(Effects["schedule"]) : i < n => Effected(f, Effects["schedule"][i])'
  BY <1>4, <1>6, <1>9 DEF Effected, Lasting, Repeatable
<1>11. company' \in [Slugs -> CompanyRow]
  BY <1>2 DEF FoundInv, FoundTyped
<1>12. MayGrow("schedule", n)
  BY DEF MayGrow
<1> QED BY <1>1, <1>2, <1>6, <1>7, <1>8, <1>9, <1>10, <1>11, <1>12, StepGrows

\* What a company needs is made for good.
LEMMA NeededLasts ==
  ASSUME NEW e \in Needed, e # "row"
  PROVE  /\ e \in Lasting
         /\ \E a \in Earlier("announce") : \E i \in 1..Len(Effects[a]) : e = Effects[a][i]
<1>0. PICK stage \in {"company", "provision", "record", "playbook"} :
        e \in UNION {{Effects[b][i] : i \in 1..Len(Effects[b])} : b \in Activities(stage)}
  BY DEF Needed
<1>1. PICK a \in Activities(stage) : \E i \in 1..Len(Effects[a]) : e = Effects[a][i]
  BY <1>0
<1>2. a \in Earlier("announce")
  BY <1>1, BehindDeploy
<1>3. a \in {"company", "database", "repo", "site", "mailbox", "secrets", "record", "playbook"}
  BY <1>1, OneByOne DEF Activities
<1> DEFINE row == Effects[a]
<1>4. \/ row = <<"row", "ceo">> \/ row = <<"database">> \/ row = <<"repo">> \/ row = <<"site">>
      \/ row = <<"mailbox", "address", "mailbox_event">> \/ row = <<"folder", "secrets_event">>
      \/ row = <<"recorded">> \/ row = <<"tasks">>
  BY <1>3 DEF Effects
<1>5. PICK i \in 1..Len(row) : e = row[i]
  BY <1>1
<1> HIDE DEF row
<1>6. e \in Lasting
  BY <1>4, <1>5 DEF Lasting, Repeatable
<1> QED BY <1>1, <1>2, <1>6

\* A company is announced when everything is behind its workflow.
LEMMA WholeBehind ==
  ASSUME FoundInv, NEW f \in FlowRow, Kept(f), f.slug \in Slugs, Earlier("announce") \subseteq Behind(f)
  PROVE  /\ Needed \ {"row"} \subseteq company[f.slug].made /\ company[f.slug].owner # NoOwner
         /\ schedule[f.slug] # "none" /\ page[f.slug] # None
<1>1. \A a \in Earlier("announce") : \A i \in 1..Len(Effects[a]) : Effected(f, Effects[a][i])
  BY DEF Kept
<1>2. Needed \ {"row"} \subseteq company[f.slug].made
  BY <1>1, NeededLasts DEF Effected
<1>3. schedule[f.slug] # "none"
  <2>1. Effects["schedule"] = <<"schedule", "schedule_event">>
    BY DEF Effects
  <2>2. Len(Effects["schedule"]) = 2 /\ Effects["schedule"][1] = "schedule" /\ "schedule" \in Earlier("announce")
    BY <2>1, BehindDeploy
  <2>3. Effected(f, "schedule")
    BY <1>1, <2>2
  <2> QED BY <2>3 DEF Effected
<1>4. page[f.slug] # None
  BY <1>1, BehindDeploy, DeployEffects DEF Effected
<1>5. company[f.slug].owner # NoOwner
  <2>1. Effects["company"] = <<"row", "ceo">> /\ Activities("company") = {"company"}
    BY DEF Effects, Activities
  <2>2. Len(Effects["company"]) = 2 /\ Effects["company"][1] = "row" /\ "company" \in Earlier("announce")
    BY <2>1, BehindDeploy
  <2>3. Effected(f, "row")
    BY <1>1, <2>2
  <2> QED BY <2>3 DEF Effected
<1> QED BY <1>2, <1>3, <1>4, <1>5

\* An effect that may be repeated; the last of them announces the company.
LEMMA MakeKeeps == ASSUME FoundInv, NEW p \in Prompts, NEW a, Make(p, a) PROVE FoundInv'
<1>1. PICK f : f = flow[p]
  OBVIOUS
<1>2. PICK e \in Repeatable : Runs(p, a, e) /\ company' = [company EXCEPT ![f.slug].made = @ \cup {e}]
  BY <1>1 DEF Make
<1>3. UNCHANGED <<starters, schedule, minted, site, raced>> /\ UNCHANGED <<page, schedule>>
  BY DEF Make, site
<1>4. /\ a \in DOMAIN f.acts /\ f.slug \in Slugs /\ f.acts[a].step \in Nat \ {0} /\ f \in FlowRow /\ Kept(f)
      /\ a \in AllActs /\ f.acts[a].step \in 1..Len(Effects[a]) /\ Effects[a][f.acts[a].step] = e
      /\ f.acts \in [DOMAIN f.acts -> ActRow] /\ Len(Effects[a]) \in Nat
      /\ \A i \in 1..Len(Effects[a]) : i < f.acts[a].step => Effected(f, Effects[a][i])
  BY <1>1, <1>2, FlowOf, Running, FlowIs
<1> DEFINE s == f.slug
           made == company[s].made \cup {e}
           row == [company[s] EXCEPT !.made = made]
           n == f.acts[a].step + 1
           g == Stepped(f, a, n)
<1>5. company \in [Slugs -> CompanyRow]
  BY DEF FoundInv, FoundTyped
<1>6. company' = [company EXCEPT ![s] = row] /\ company[s] \in CompanyRow
  BY <1>2, <1>4, <1>5
<1>7. made \in SUBSET Repeatable /\ company[s].made \subseteq made /\ e \in made
      /\ ("created_event" \in made => "created_event" \in company[s].made \/ e = "created_event")
  BY <1>2, <1>6 DEF CompanyRow
<1> HIDE DEF made
<1>8. row \in CompanyRow /\ row.owner = company[s].owner /\ row.made = made
  BY <1>6, <1>7 DEF CompanyRow
<1> HIDE DEF row
<1>9. /\ company' \in [Slugs -> CompanyRow] /\ company'[s].made = made
      /\ \A t \in Slugs : company'[t].owner = company[t].owner /\ (t # s => company'[t].made = company[t].made)
  BY <1>4, <1>5, <1>6, <1>8
<1>10. Grown
  BY <1>3, <1>7, <1>9 DEF Grown
<1>11. AnnouncedIsWhole'
  <2>1. CASE e # "created_event"
    BY <1>7, <1>9, <1>10, <2>1, StillWhole
  <2>2. CASE e = "created_event"
    <3>1. a = "announce"
      BY <1>4, <2>2, EffectsAre
    <3>2. Behind(f) = Earlier("announce")
      BY <1>4, <3>1, Alone
    <3>3. /\ Needed \ {"row"} \subseteq company[s].made /\ company[s].owner # NoOwner
          /\ schedule[s] # "none" /\ page[s] # None
      BY <1>4, <3>2, WholeBehind
    <3>4. \A t \in Slugs \ {s} : "created_event" \in company[t].made =>
            /\ Needed \ {"row"} \subseteq company[t].made /\ company[t].owner # NoOwner
            /\ schedule[t] # "none" /\ page[t] # None
      BY DEF FoundInv, FoundedWhole, AnnouncedIsWhole
    <3> QED BY <1>3, <1>7, <1>9, <3>3, <3>4 DEF AnnouncedIsWhole
  <2> QED BY <2>1, <2>2
<1>12. flow' = [flow EXCEPT ![p] = g] /\ n \in Nat \ {0} /\ n = f.acts[a].step + 1
  BY <1>1, <1>4 DEF Make, Onward, Becomes, FlowRow, ActRow, Stepped
<1> HIDE DEF n
<1>13. \A i \in 1..Len(Effects[a]) : i < n => Effected(f, Effects[a][i])'
  <2> SUFFICES ASSUME NEW i \in 1..Len(Effects[a]), i < n PROVE Effected(f, Effects[a][i])'
    OBVIOUS
  <2>1. CASE i < f.acts[a].step
    <3>1. Effected(f, Effects[a][i])
      BY <1>4, <2>1
    <3> QED BY <1>4, <1>10, <3>1 DEF Effected, Grown
  <2>2. CASE ~(i < f.acts[a].step)
    <3>1. Effects[a][i] = e
      BY <1>4, <1>12, <2>2
    <3>2. e \in company'[s].made /\ e \notin {"row", "rows", "wait", "schedule"}
      BY <1>2, <1>7, <1>9 DEF Repeatable
    <3> QED BY <3>1, <3>2 DEF Effected
  <2> QED BY <2>1, <2>2
<1>14. MayGrow(a, n)
  <2>1. CASE a = "deploy"
    <3>1. f.acts[a].step \in 1..2
      BY <1>4, <2>1, DeployEffects
    <3> QED BY <1>2, <1>4, <2>1, <3>1, DeployEffects DEF Repeatable
  <2>2. CASE a = "starter"
    <3>1. f.acts[a].step \in 1..5
      BY <1>4, <2>2, StarterEffects
    <3>2. f.acts[a].step = 5
      BY <1>2, <1>4, <2>2, <3>1, StarterEffects DEF Repeatable
    <3> QED BY <1>12, <2>2, <3>2 DEF MayGrow
  <2> QED BY <2>1, <2>2 DEF MayGrow
<1>15. schedule' \in [Slugs -> {"none", "running", "paused"}]
  BY <1>3 DEF FoundInv, FoundTyped
<1> QED BY <1>1, <1>2, <1>3, <1>9, <1>10, <1>11, <1>12, <1>13, <1>14, <1>15, StepGrows

\* The starter product is inserted: a second one only by a race.
LEMMA InsertKeeps == ASSUME FoundInv, NEW p \in Prompts, InsertStarter(p) PROVE FoundInv'
<1>1. PICK f : f = flow[p]
  OBVIOUS
<1>2. Runs(p, "starter", "rows") /\ UNCHANGED <<company, schedule, minted, page, tmp, job, overlaid>>
  BY DEF InsertStarter, site
<1>3. f \in FlowRow /\ Kept(f) /\ Seeds(f) /\ f.acts["starter"].step = 4 /\ "starter" \in DOMAIN f.acts
      /\ f.slug \in Slugs /\ f.acts \in [DOMAIN f.acts -> ActRow]
  BY <1>1, <1>2, FlowOf, StepOf, Running, FlowIs
<1> DEFINE s == f.slug
           n == 5
           g == Stepped(f, "starter", n)
<1>4. starters' = [starters EXCEPT ![s] = @ \cup {f.link}] /\ starters \in [Slugs -> SUBSET (Nat \ {0})]
      /\ raced \subseteq raced' /\ raced' \subseteq raced \cup {s} /\ raced \subseteq Slugs
      /\ \A q \in Prompts \ {p} : flow[q].slug = s /\ Runs(q, "starter", "rows") => s \in raced'
  BY <1>1 DEF InsertStarter, FoundInv, FoundTyped
<1>5. f.link \in Nat \ {0}
  BY <1>3 DEF Seeds, Minted, FlowRow, None
<1>6. starters' \in [Slugs -> SUBSET (Nat \ {0})] /\ starters'[s] = starters[s] \cup {f.link}
      /\ \A t \in Slugs \ {s} : starters'[t] = starters[t]
  BY <1>3, <1>4, <1>5
<1>7. Grown
  BY <1>2, <1>6 DEF Grown
<1>8. flow' = [flow EXCEPT ![p] = [f EXCEPT !.acts["starter"].step = @ + 1]]
  BY <1>1 DEF InsertStarter, Onward, Becomes
<1>9. flow' = [flow EXCEPT ![p] = g] /\ n \in Nat \ {0} /\ n = 5
  BY <1>3, <1>8 DEF FlowRow, ActRow, Stepped
<1> HIDE DEF n
<1>10. /\ g \in FlowRow /\ g.at = f.at /\ g.slug = f.slug /\ g.link = f.link /\ g.job = f.job
       /\ DOMAIN g.acts = DOMAIN f.acts /\ g.acts["starter"].step = n
       /\ \A b \in DOMAIN f.acts : b # "starter" => g.acts[b].step = f.acts[b].step
  BY <1>3, <1>9, Stepping
<1> HIDE DEF g
<1>11. Kept(g)'
  <2>1. Kept(f)'
    BY <1>3, <1>7, KeptGrows
  <2>2. \A e1 : Effected(f, e1)' <=> Effected(g, e1)'
    BY <1>10 DEF Effected
  <2>3. \A i \in 1..Len(Effects["starter"]) : i < n => Effected(f, Effects["starter"][i])'
    BY <1>6, <1>9, StarterEffects DEF Effected, Lasting, Repeatable
  <2> QED BY <1>10, <2>1, <2>2, <2>3 DEF Kept, Behind
<1>12. Waited(p, g)' /\ Seeds(g)'
  <2>1. DOMAIN f.acts = {"starter"}
    BY <1>3, Alone
  <2> QED BY <1>9, <1>10, <2>1 DEF Waited, Waiting, Seeds, Seeding, Minted
<1>13. ASSUME NEW q \in Prompts \ {p}, NEW h \in FlowRow, h = flow[q] PROVE Waited(q, h)' /\ Seeds(h)'
  <2>1. Kept(h) /\ Waited(q, h) /\ Seeds(h)
    BY <1>13 DEF FoundInv, FlowsKept
  <2>2. Waited(q, h)'
    BY <1>2, <2>1 DEF Waited
  <2>3. Seeding(h) => h.slug \in Slugs
    <3>1. \A a \in DOMAIN h.acts : h.at # "idle"
      BY <2>1 DEF Kept, ActsOf
    <3> QED BY <2>1, <3>1 DEF Kept, Seeding, Minted
  <2>4. Seeding(h) /\ h.slug = s => s \in raced'
    <3> SUFFICES ASSUME Seeding(h), h.slug = s PROVE s \in raced'
      OBVIOUS
    <3>1. Runs(q, "starter", "rows")
      BY <1>13, StarterEffects DEF Runs, Seeding, Minted
    <3> QED BY <1>4, <1>13, <3>1
  <2> QED BY <1>4, <1>6, <2>1, <2>2, <2>3, <2>4 DEF Seeds
<1>14. FlowsKept' /\ flow' \in [Prompts -> FlowRow]
  BY <1>7, <1>9, <1>10, <1>11, <1>12, <1>13, OneFlow DEF FoundInv
<1>15. FoundTyped'
  BY <1>2, <1>3, <1>4, <1>6, <1>14 DEF FoundInv, FoundTyped
<1>16. JobsKept'
  BY <1>2, <1>7 DEF FoundInv, JobsKept, Grown
<1>17. FilesKept'
  BY <1>2, <1>7 DEF FoundInv, FilesKept, Grown
<1>18. AnnouncedIsWhole'
  BY <1>2, <1>7, StillWhole
<1>19. StorefrontSells'
  <2> SUFFICES ASSUME NEW t \in Slugs
               PROVE  /\ page'[t] \in {None} \cup starters'[t] \cup (IF t \in overlaid' THEN {Torn} ELSE {})
                      /\ Cardinality(starters'[t]) <= 1 \/ t \in raced'
    BY DEF StorefrontSells
  <2>1. /\ page[t] \in {None} \cup starters[t] \cup (IF t \in overlaid THEN {Torn} ELSE {})
        /\ Cardinality(starters[t]) <= 1 \/ t \in raced
    BY DEF FoundInv, FoundedWhole, StorefrontSells
  <2>2. CASE t # s
    BY <1>2, <1>4, <1>6, <2>1, <2>2
  <2>3. CASE t = s /\ s \in raced'
    BY <1>2, <1>6, <2>1, <2>3
  <2>4. CASE t = s /\ s \notin raced'
    <3>1. starters[s] = {}
      BY <1>3, <1>4, <2>4 DEF Seeds, Seeding, Minted
    <3>2. starters'[s] = {f.link} /\ Cardinality({f.link}) = 1
      BY <1>6, <3>1, FS_Singleton
    <3>3. Cardinality(starters'[t]) <= 1
      BY <2>4, <3>2
    <3> QED BY <1>2, <1>6, <2>1, <2>4, <3>3
  <2> QED BY <2>2, <2>3, <2>4
<1> QED BY <1>14, <1>15, <1>16, <1>17, <1>18, <1>19 DEF FoundInv, FoundedWhole

\* What the workflows rely on when none of them moves.
LEMMA FlowsStay ==
  ASSUME FoundInv, Grown, UNCHANGED <<flow, raced, starters>>,
         \A q \in Prompts : \A h \in FlowRow : h = flow[q] => Waited(q, h)'
  PROVE  FlowsKept' /\ flow' \in [Prompts -> FlowRow]
<1>1. flow \in [Prompts -> FlowRow] /\ flow' = flow
  BY DEF FoundInv, FoundTyped
<1>2. ASSUME NEW q \in Prompts PROVE (Kept(flow[q]) /\ Waited(q, flow[q]) /\ Seeds(flow[q]))'
  <2>1. PICK h \in FlowRow : h = flow[q]
    BY <1>1
  <2>2. Kept(h) /\ Seeds(h)
    BY <2>1 DEF FoundInv, FlowsKept
  <2>3. Kept(h)' /\ Waited(q, h)' /\ Seeds(h)'
    BY <2>1, <2>2, KeptGrows DEF Seeds
  <2> QED BY <1>1, <2>1, <2>3
<1> QED BY <1>1, <1>2 DEF FlowsKept

\* deployd's request of a slug.
LEMMA JobOf ==
  ASSUME FoundInv, NEW j \in Jobs, job[j].at # "free"
  PROVE  /\ job \in [Jobs -> JobRow] /\ job[j] \in JobRow /\ job[j].slug \in Slugs
         /\ job[j].link \in starters[job[j].slug] /\ job[j].link \in Nat \ {0}
  BY StarterTyped DEF FoundInv, FoundTyped, JobsKept

\* deployd is asked for the page of a product the catalogue has.
LEMMA AskKeeps == ASSUME FoundInv, NEW p \in Prompts, AskDeployd(p) PROVE FoundInv'
<1>1. PICK f : f = flow[p]
  OBVIOUS
<1>2. Runs(p, "deploy", "ask") /\ UNCHANGED <<company, starters, schedule, minted, page, tmp, raced>>
  BY DEF AskDeployd, world
<1>3. f \in FlowRow /\ Kept(f) /\ f.acts["deploy"].step = 1 /\ "deploy" \in DOMAIN f.acts
      /\ f.slug \in Slugs /\ f.acts \in [DOMAIN f.acts -> ActRow]
  BY <1>1, <1>2, FlowOf, StepOf, Running, FlowIs
<1> DEFINE s == f.slug
           row == [at |-> "open", by |-> p, slug |-> s, link |-> f.link, fd |-> "none"]
           n == 2
           h == Stepped(f, "deploy", n)
<1>4. PICK j \in Jobs : /\ job[j] = NoJob /\ job' = [job EXCEPT ![j] = row]
                        /\ flow' = [flow EXCEPT ![p] = [f EXCEPT !.acts["deploy"].step = @ + 1, !.job = j]]
  BY <1>1 DEF AskDeployd, Becomes
<1>5. overlaid \subseteq overlaid' /\ overlaid' \subseteq overlaid \cup {s}
      /\ \A i \in Jobs : job[i].slug = s => s \in overlaid'
  BY <1>1 DEF AskDeployd
<1> DEFINE g == [h EXCEPT !.job = j]
<1>6. flow' = [flow EXCEPT ![p] = g] /\ n \in Nat \ {0} /\ n = 2
  BY <1>3, <1>4 DEF FlowRow, ActRow, Stepped
<1> HIDE DEF n
<1>7. /\ h \in FlowRow /\ h.at = f.at /\ h.slug = f.slug /\ h.link = f.link /\ h.job = f.job
      /\ DOMAIN h.acts = DOMAIN f.acts /\ h.acts["deploy"].step = n
      /\ \A b \in DOMAIN f.acts : b # "deploy" => h.acts[b].step = f.acts[b].step
  BY <1>3, <1>6, Stepping
<1> HIDE DEF h
<1>8. g \in FlowRow /\ g.at = f.at /\ g.slug = s /\ g.link = f.link /\ g.job = j /\ g.acts = h.acts
  BY <1>7 DEF FlowRow
<1> HIDE DEF g
<1>9. Grown
  BY <1>2 DEF Grown
<1>10. DOMAIN f.acts = {"deploy"} /\ Behind(f) = Earlier("deploy")
  BY <1>3, Alone
<1>11. f.link \in starters[s]
  <2>1. \A i \in 1..Len(Effects["starter"]) : Effected(f, Effects["starter"][i])
    BY <1>3, <1>10, BehindDeploy DEF Kept
  <2>2. Effected(f, "rows")
    BY <2>1, StarterEffects
  <2> QED BY <2>2 DEF Effected
<1>12. Kept(g)'
  <2>1. Kept(f)'
    BY <1>3, <1>9, KeptGrows
  <2>2. \A e1 : Effected(f, e1)' <=> Effected(g, e1)'
    BY <1>8 DEF Effected
  <2>3. \A i \in 1..Len(Effects["deploy"]) : i < n => Effected(f, Effects["deploy"][i])'
    BY <1>6, DeployEffects DEF Effected, Lasting, Repeatable
  <2> QED BY <1>7, <1>8, <2>1, <2>2, <2>3 DEF Kept, Behind
<1>13. job \in [Jobs -> JobRow] /\ row \in JobRow
  BY <1>3 DEF FoundInv, FoundTyped, JobRow, FlowRow
<1>14. /\ job' \in [Jobs -> JobRow] /\ job'[j].at = "open" /\ job'[j].by = p /\ job'[j].slug = s
       /\ job'[j].link = f.link /\ \A i \in Jobs \ {j} : job'[i] = job[i]
  BY <1>4, <1>13
<1> HIDE DEF row
<1>15. Waited(p, g)' /\ Seeds(g)'
  BY <1>7, <1>8, <1>10, <1>14 DEF Waited, Seeds, Seeding, Minted
<1>16. ASSUME NEW q \in Prompts \ {p}, NEW k \in FlowRow, k = flow[q] PROVE Waited(q, k)' /\ Seeds(k)'
  <2>1. Kept(k) /\ Waited(q, k) /\ Seeds(k)
    BY <1>16 DEF FoundInv, FlowsKept
  <2>2. Waited(q, k)'
    <3>1. job[j].by # q
      BY <1>4, FoundingAssumption DEF NoJob
    <3> QED BY <1>2, <1>14, <2>1, <3>1 DEF Waited
  <2> QED BY <1>2, <2>1, <2>2 DEF Seeds
<1>17. FlowsKept' /\ flow' \in [Prompts -> FlowRow]
  BY <1>6, <1>8, <1>9, <1>12, <1>15, <1>16, OneFlow DEF FoundInv
<1>18. FoundTyped'
  BY <1>2, <1>3, <1>5, <1>14, <1>17 DEF FoundInv, FoundTyped
<1>19. JobsKept'
  BY <1>2, <1>3, <1>11, <1>14 DEF FoundInv, JobsKept
<1>20. FilesKept'
  <2> SUFFICES ASSUME NEW t \in Slugs
               PROVE  /\ tmp'[t] \in {None, Torn} \cup starters'[t]
                      /\ t \notin overlaid' =>
                           /\ \A i, m \in Jobs : job'[i].slug = t /\ job'[m].slug = t => i = m
                           /\ \A i \in Jobs : job'[i].slug = t => /\ job'[i].at \in {"write", "rename"} => job'[i].fd = "tmp"
                                                                  /\ job'[i].at = "rename" => tmp'[t] # Torn
    BY DEF FilesKept
  <2>1. /\ tmp[t] \in {None, Torn} \cup starters[t]
        /\ t \notin overlaid =>
             /\ \A i, m \in Jobs : job[i].slug = t /\ job[m].slug = t => i = m
             /\ \A i \in Jobs : job[i].slug = t => /\ job[i].at \in {"write", "rename"} => job[i].fd = "tmp"
                                                   /\ job[i].at = "rename" => tmp[t] # Torn
    BY DEF FoundInv, FilesKept
  <2> QED BY <1>2, <1>5, <1>14, <2>1
<1>21. FoundedWhole'
  BY <1>2, <1>5, <1>9, StillWhole DEF FoundInv, FoundedWhole, StorefrontSells
<1> QED BY <1>17, <1>18, <1>19, <1>20, <1>21 DEF FoundInv

\* What the files of one slug are to its requests.
FilesOf(t) ==
  /\ tmp[t] \in {None, Torn} \cup starters[t]
  /\ t \notin overlaid =>
       /\ \A i, m \in Jobs : job[i].slug = t /\ job[m].slug = t => i = m
       /\ \A i \in Jobs : job[i].slug = t => /\ job[i].at \in {"write", "rename"} => job[i].fd = "tmp"
                                             /\ job[i].at = "rename" => tmp[t] # Torn
\* The files, slug by slug.
LEMMA FilesAre == FilesKept <=> \A t \in Slugs : FilesOf(t)
  BY DEF FilesKept, FilesOf

\* deployd writes a file: whoever asked still waits for the same request.
LEMMA WriteKeeps ==
  ASSUME FoundInv, UNCHANGED <<world, flow, clock, events, raced, overlaid>>, NEW j \in Jobs, job[j].at # "free",
         NEW stage \in {"write", "rename"}, NEW fd \in {"none", "tmp", "page"}, JobStep(j, stage, fd),
         tmp' \in [Slugs -> Int], page' \in [Slugs -> Int],
         \A s \in Slugs : page[s] # None => page'[s] # None,
         \A t \in Slugs : page'[t] \in {None} \cup starters[t] \cup (IF t \in overlaid THEN {Torn} ELSE {}),
         \A t \in Slugs : FilesOf(t) => FilesOf(t)'
  PROVE  FoundInv'
<1>1. job \in [Jobs -> JobRow] /\ job[j] \in JobRow
  BY JobOf
<1> DEFINE r == [job[j] EXCEPT !.at = stage]
           row == [r EXCEPT !.fd = fd]
<1>2. r \in JobRow /\ r.at = stage /\ r.by = job[j].by /\ r.slug = job[j].slug /\ r.link = job[j].link
  BY <1>1 DEF JobRow
<1>3. job' = [job EXCEPT ![j] = row]
  BY <1>1 DEF JobStep, JobRow
<1> HIDE DEF r
<1>4. row \in JobRow /\ row.at = stage /\ row.by = job[j].by /\ row.slug = job[j].slug /\ row.link = job[j].link
  BY <1>2 DEF JobRow
<1> HIDE DEF row
<1>5. /\ job' \in [Jobs -> JobRow] /\ job'[j].at = stage
      /\ \A i \in Jobs : job'[i].by = job[i].by /\ job'[i].slug = job[i].slug /\ job'[i].link = job[i].link
      /\ \A i \in Jobs \ {j} : job'[i] = job[i]
  BY <1>1, <1>3, <1>4
<1>6. UNCHANGED <<company, starters, schedule, minted>>
  BY DEF world
<1>7. Grown
  BY <1>6 DEF Grown
<1>8. ASSUME NEW q \in Prompts, NEW h \in FlowRow, h = flow[q] PROVE Waited(q, h)'
  <2>1. Kept(h) /\ Waited(q, h)
    BY <1>8 DEF FoundInv, FlowsKept
  <2>2. Waiting(h) => job'[h.job].by = job[h.job].by /\ job'[h.job].slug = job[h.job].slug
    BY <1>5, <2>1 DEF Waited
  <2> QED BY <1>7, <2>1, <2>2, WaitedGrows
<1>9. FlowsKept' /\ flow' \in [Prompts -> FlowRow]
  BY <1>6, <1>7, <1>8, FlowsStay
<1>10. FoundTyped'
  BY <1>5, <1>6, <1>9 DEF FoundInv, FoundTyped
<1>11. JobsKept'
  BY <1>5, <1>6 DEF FoundInv, JobsKept
<1>12. FilesKept'
  <2>1. \A t \in Slugs : FilesOf(t)
    BY FilesAre DEF FoundInv
  <2> QED BY <2>1 DEF FilesKept, FilesOf
<1>13. AnnouncedIsWhole'
  BY <1>6, <1>7, StillWhole
<1>14. StorefrontSells'
  BY <1>6 DEF FoundInv, FoundedWhole, StorefrontSells
<1> QED BY <1>9, <1>10, <1>11, <1>12, <1>13, <1>14 DEF FoundInv, FoundedWhole

\* deployd opens the temporary file, and truncates it.
LEMMA OpenKeeps == ASSUME FoundInv, NEW j \in Jobs, OpenTmp(j) PROVE FoundInv'
<1> DEFINE s == job[j].slug
<1>1. job[j].at = "open" /\ job[j].at # "free" /\ JobStep(j, "write", "tmp") /\ tmp' = [tmp EXCEPT ![s] = Torn]
      /\ UNCHANGED <<world, flow, clock, events, raced, overlaid>> /\ page' = page
  BY DEF OpenTmp
<1>2. job \in [Jobs -> JobRow] /\ job[j] \in JobRow /\ s \in Slugs
  BY <1>1, JobOf
<1>3. tmp' \in [Slugs -> Int] /\ tmp'[s] = Torn /\ \A t \in Slugs \ {s} : tmp'[t] = tmp[t]
  BY <1>1, <1>2 DEF FoundInv, FoundTyped, Torn
<1>4. /\ page' \in [Slugs -> Int]
      /\ \A t \in Slugs : page'[t] \in {None} \cup starters[t] \cup (IF t \in overlaid THEN {Torn} ELSE {})
  BY <1>1 DEF FoundInv, FoundTyped, FoundedWhole, StorefrontSells
<1>5. /\ \A i \in Jobs \ {j} : job'[i] = job[i]
      /\ job'[j].at = "write" /\ job'[j].fd = "tmp" /\ job'[j].slug = s
  BY <1>1, <1>2 DEF JobStep, JobRow
<1>6. ASSUME NEW t \in Slugs, FilesOf(t) PROVE FilesOf(t)'
  <2>1. starters' = starters /\ overlaid' = overlaid
    BY <1>1 DEF world
  <2>2. tmp'[t] \in {None, Torn} \cup starters'[t]
    BY <1>3, <1>6, <2>1 DEF FilesOf
  <2>3. ASSUME t \notin overlaid PROVE \A i, m \in Jobs : job'[i].slug = t /\ job'[m].slug = t => i = m
    BY <1>5, <1>6, <2>3 DEF FilesOf
  <2>4. ASSUME t \notin overlaid, NEW i \in Jobs, job'[i].slug = t
        PROVE  /\ job'[i].at \in {"write", "rename"} => job'[i].fd = "tmp"
               /\ job'[i].at = "rename" => tmp'[t] # Torn
    BY <1>3, <1>5, <1>6, <2>4 DEF FilesOf
  <2> QED BY <2>1, <2>2, <2>3, <2>4 DEF FilesOf
<1>7. \A t \in Slugs : page[t] # None => page'[t] # None
  BY <1>1
<1> QED BY <1>1, <1>3, <1>4, <1>6, <1>7, WriteKeeps

\* deployd writes the page through the file it opened.
LEMMA WriteTmpKeeps == ASSUME FoundInv, NEW j \in Jobs, WriteTmp(j) PROVE FoundInv'
<1> DEFINE s == job[j].slug
           fd == job[j].fd
           l == job[j].link
<1>1. /\ job[j].at = "write" /\ job[j].at # "free" /\ JobStep(j, "rename", fd)
      /\ IF fd = "tmp" THEN tmp' = [tmp EXCEPT ![s] = l] /\ page' = page ELSE page' = [page EXCEPT ![s] = l] /\ tmp' = tmp
      /\ UNCHANGED <<world, flow, clock, events, raced, overlaid>>
  BY DEF WriteTmp
<1>2. /\ job \in [Jobs -> JobRow] /\ job[j] \in JobRow /\ s \in Slugs
      /\ l \in starters[s] /\ l \in Nat \ {0} /\ l # Torn /\ l # None
  BY <1>1, JobOf, StarterTyped
<1>3. /\ \A i \in Jobs \ {j} : job'[i] = job[i]
      /\ job'[j].at = "rename" /\ job'[j].fd = fd /\ job'[j].slug = s
  BY <1>1, <1>2 DEF JobStep, JobRow
<1>4. fd \in {"none", "tmp", "page"}
  BY <1>2 DEF JobRow
<1>5. tmp \in [Slugs -> Int] /\ page \in [Slugs -> Int] /\ starters' = starters /\ overlaid' = overlaid
      /\ \A t \in Slugs : page[t] \in {None} \cup starters[t] \cup (IF t \in overlaid THEN {Torn} ELSE {})
  BY <1>1 DEF world, FoundInv, FoundTyped, FoundedWhole, StorefrontSells
<1> HIDE DEF fd
<1>6. /\ tmp' \in [Slugs -> Int] /\ page' \in [Slugs -> Int]
      /\ \A t \in Slugs : page[t] # None => page'[t] # None
      /\ \A t \in Slugs : page'[t] \in {None} \cup starters[t] \cup (IF t \in overlaid THEN {Torn} ELSE {})
      /\ \A t \in Slugs : tmp'[t] = tmp[t] \/ (t = s /\ tmp'[t] = l)
      /\ fd = "tmp" => tmp'[s] = l
  BY <1>1, <1>2, <1>5
<1>7. ASSUME NEW t \in Slugs, FilesOf(t) PROVE FilesOf(t)'
  <2>1. tmp'[t] \in {None, Torn} \cup starters'[t]
    BY <1>2, <1>5, <1>6, <1>7 DEF FilesOf
  <2>2. ASSUME t \notin overlaid PROVE \A i, m \in Jobs : job'[i].slug = t /\ job'[m].slug = t => i = m
    BY <1>3, <1>7, <2>2 DEF FilesOf
  <2>3. ASSUME t \notin overlaid, NEW i \in Jobs, job'[i].slug = t
        PROVE  /\ job'[i].at \in {"write", "rename"} => job'[i].fd = "tmp"
               /\ job'[i].at = "rename" => tmp'[t] # Torn
    <3>1. CASE i = j
      <4>1. t = s /\ fd = "tmp"
        BY <1>1, <1>3, <1>7, <2>3, <3>1 DEF FilesOf, fd
      <4> QED BY <1>2, <1>3, <1>6, <3>1, <4>1
    <3>2. CASE i # j
      <4>1. job[i] = job'[i]
        BY <1>3, <3>2
      <4>2. /\ job[i].at \in {"write", "rename"} => job[i].fd = "tmp"
            /\ job[i].at = "rename" => tmp[t] # Torn
        BY <1>7, <2>3, <4>1 DEF FilesOf
      <4> QED BY <1>2, <1>6, <4>1, <4>2
    <3> QED BY <3>1, <3>2
  <2> QED BY <1>5, <2>1, <2>2, <2>3 DEF FilesOf
<1> QED BY <1>1, <1>4, <1>6, <1>7, WriteKeeps

\* deployd renames the file: the page is up, or the attempt that waits fails.
LEMMA RenameKeeps == ASSUME FoundInv, NEW j \in Jobs, RenameTmp(j) PROVE FoundInv'
<1> DEFINE s == job[j].slug
<1>1. /\ job[j].at = "rename" /\ job[j].at # "free"
      /\ page' = IF tmp[s] = None THEN page ELSE [page EXCEPT ![s] = tmp[s]]
      /\ tmp' = [tmp EXCEPT ![s] = None]
      /\ job' = [i \in Jobs |-> IF i = j THEN NoJob
                                ELSE IF job[i].slug = s /\ job[i].fd = "tmp" THEN [job[i] EXCEPT !.fd = "page"] ELSE job[i]]
      /\ flow' = [p \in Prompts |-> IF tmp[s] = None /\ Waits(p, j) THEN Retried(flow[p], "deploy") ELSE flow[p]]
      /\ UNCHANGED <<company, starters, schedule, minted, raced, overlaid>>
  BY DEF RenameTmp, world
<1>2. job \in [Jobs -> JobRow] /\ job[j] \in JobRow /\ s \in Slugs
  BY <1>1, JobOf
<1>3. /\ tmp \in [Slugs -> Int] /\ page \in [Slugs -> Int] /\ starters \in [Slugs -> SUBSET (Nat \ {0})]
      /\ \A t \in Slugs : page[t] \in {None} \cup starters[t] \cup (IF t \in overlaid THEN {Torn} ELSE {})
      /\ \A t \in Slugs : FilesOf(t)
  BY FilesAre DEF FoundInv, FoundTyped, FoundedWhole, StorefrontSells
<1>4. /\ tmp' \in [Slugs -> Int] /\ tmp'[s] = None /\ \A t \in Slugs \ {s} : tmp'[t] = tmp[t]
      /\ page' \in [Slugs -> Int] /\ \A t \in Slugs \ {s} : page'[t] = page[t]
      /\ tmp[s] # None => page'[s] = tmp[s]
      /\ tmp[s] = None => page'[s] = page[s]
  BY <1>1, <1>2, <1>3 DEF None
<1>5. Grown
  BY <1>1, <1>2, <1>4 DEF Grown
<1>6. job'[j] = NoJob /\ NoJob \in JobRow /\ NoJob.slug = "none" /\ NoJob.at = "free"
  BY <1>1 DEF NoJob, JobRow, None
<1>7. ASSUME NEW i \in Jobs \ {j}
      PROVE  /\ job'[i] \in JobRow /\ job'[i].at = job[i].at /\ job'[i].by = job[i].by
             /\ job'[i].slug = job[i].slug /\ job'[i].link = job[i].link
             /\ job[i].slug # s => job'[i] = job[i]
  <2>1. job[i] \in JobRow
    BY <1>2
  <2>2. [job[i] EXCEPT !.fd = "page"] \in JobRow
    BY <2>1 DEF JobRow
  <2>3. job'[i] \in {job[i], [job[i] EXCEPT !.fd = "page"]} /\ (job[i].slug # s => job'[i] = job[i])
    BY <1>1
  <2> QED BY <2>1, <2>2, <2>3 DEF JobRow
<1>8. job' \in [Jobs -> JobRow]
  BY <1>1, <1>6, <1>7
<1>9. ASSUME NEW q \in Prompts
      PROVE  flow'[q] \in FlowRow /\ (Kept(flow[q]) /\ Waited(q, flow[q]) /\ Seeds(flow[q]))'
  <2>1. PICK h : h = flow[q]
    OBVIOUS
  <2>2. PICK k : k = flow'[q]
    OBVIOUS
  <2>3. h \in FlowRow /\ Kept(h) /\ Waited(q, h) /\ Seeds(h)
    BY <2>1, FlowOf
  <2>4. k = IF tmp[s] = None /\ Waits(q, j) THEN Retried(h, "deploy") ELSE h
    BY <1>1, <2>1, <2>2
  <2>5. k \in FlowRow /\ Kept(k) /\ Seeds(k) /\ Waited(q, k)'
    <3>1. CASE tmp[s] = None /\ Waits(q, j)
      <4>1. "deploy" \in DOMAIN h.acts
        BY <2>1, <3>1 DEF Waits, Runs
      <4>2. k = Retried(h, "deploy")
        BY <2>4, <3>1
      <4>3. /\ k \in FlowRow /\ Kept(k) /\ k.slug = h.slug /\ k.link = h.link /\ k.job = h.job
            /\ "deploy" \in DOMAIN k.acts => k.acts["deploy"].step = 1
            /\ DOMAIN k.acts \subseteq DOMAIN h.acts /\ \A b \in DOMAIN k.acts : b # "deploy" => k.acts[b] = h.acts[b]
        BY <2>3, <4>1, <4>2, Retrying
      <4>4. Seeds(k) /\ ~Waiting(k)
        BY <2>3, <4>3 DEF Seeds, Seeding, Minted, Waiting
      <4> QED BY <4>3, <4>4 DEF Waited
    <3>2. CASE ~(tmp[s] = None /\ Waits(q, j))
      <4>1. k = h
        BY <2>4, <3>2
      <4>2. Waited(q, h)'
        <5> SUFFICES ASSUME Waiting(h)
                     PROVE  h.job \in Jobs /\ ((job'[h.job].by = q /\ job'[h.job].slug = h.slug) \/ page'[h.slug] # None)
          BY DEF Waited
        <5>1. h.job \in Jobs /\ ((job[h.job].by = q /\ job[h.job].slug = h.slug) \/ page[h.slug] # None) /\ h.slug \in Slugs
          BY <2>3 DEF Waited, Kept, Waiting, ActsOf
        <5>2. CASE page[h.slug] # None
          BY <1>5, <5>1, <5>2 DEF Grown
        <5>3. CASE h.job # j
          BY <1>5, <1>7, <5>1, <5>3 DEF Grown
        <5>4. CASE h.job = j /\ page[h.slug] = None
          <6>1. Runs(q, "deploy", "wait")
            BY <2>1, DeployEffects DEF Runs, Waiting
          <6>2. Waits(q, j) /\ h.slug = s
            BY <2>1, <5>1, <5>4, <6>1 DEF Waits
          <6> QED BY <1>4, <3>2, <5>1, <6>2
        <5> QED BY <5>2, <5>3, <5>4
      <4> QED BY <2>3, <4>1, <4>2
    <3> QED BY <3>1, <3>2
  <2>6. Kept(k)' /\ Seeds(k)'
    <3>1. Kept(k)'
      BY <1>5, <2>5, KeptGrows
    <3>2. Seeds(k)'
      BY <1>1, <2>5 DEF Seeds
    <3> QED BY <3>1, <3>2
  <2> QED BY <2>2, <2>5, <2>6
<1>10. FlowsKept' /\ flow' \in [Prompts -> FlowRow]
  BY <1>1, <1>9 DEF FlowsKept
<1>11. FoundTyped'
  BY <1>1, <1>4, <1>8, <1>10 DEF FoundInv, FoundTyped
<1>12. JobsKept'
  BY <1>1, <1>6, <1>7 DEF FoundInv, JobsKept
<1>13. ASSUME NEW t \in Slugs PROVE FilesOf(t)'
  <2>1. CASE t = s
    <3>1. tmp'[t] \in {None, Torn} \cup starters'[t]
      BY <1>4, <2>1
    <3>2. ASSUME t \notin overlaid, NEW i \in Jobs PROVE job'[i].slug # t
      <4>1. CASE i = j
        BY <1>6, <4>1, FoundingAssumption
      <4>2. CASE i # j
        BY <1>3, <1>7, <2>1, <3>2, <4>2 DEF FilesOf
      <4> QED BY <4>1, <4>2
    <3> QED BY <1>1, <3>1, <3>2 DEF FilesOf
  <2>2. CASE t # s
    <3>1. tmp'[t] = tmp[t] /\ FilesOf(t)
      BY <1>3, <1>4, <2>2
    <3>2. ASSUME NEW i \in Jobs, job'[i].slug = t PROVE job'[i] = job[i] /\ i # j
      BY <1>6, <1>7, <2>2, <3>2, FoundingAssumption
    <3>3. tmp'[t] \in {None, Torn} \cup starters'[t]
      BY <1>1, <3>1 DEF FilesOf
    <3>4. ASSUME t \notin overlaid PROVE \A i, m \in Jobs : job'[i].slug = t /\ job'[m].slug = t => i = m
      BY <3>1, <3>2, <3>4 DEF FilesOf
    <3>5. ASSUME t \notin overlaid, NEW i \in Jobs, job'[i].slug = t
          PROVE  /\ job'[i].at \in {"write", "rename"} => job'[i].fd = "tmp"
                 /\ job'[i].at = "rename" => tmp'[t] # Torn
      <4>1. job'[i] = job[i]
        BY <3>2, <3>5
      <4> QED BY <3>1, <3>5, <4>1 DEF FilesOf
    <3> QED BY <1>1, <3>3, <3>4, <3>5 DEF FilesOf
  <2> QED BY <2>1, <2>2
<1>14. FilesKept'
  BY <1>13 DEF FilesKept, FilesOf
<1>15. AnnouncedIsWhole'
  BY <1>1, <1>5, StillWhole
<1>16. StorefrontSells'
  <2> SUFFICES ASSUME NEW t \in Slugs
               PROVE  /\ page'[t] \in {None} \cup starters'[t] \cup (IF t \in overlaid' THEN {Torn} ELSE {})
                      /\ Cardinality(starters'[t]) <= 1 \/ t \in raced'
    BY DEF StorefrontSells
  <2>1. Cardinality(starters'[t]) <= 1 \/ t \in raced'
    BY <1>1 DEF FoundInv, FoundedWhole, StorefrontSells
  <2>2. CASE t # s \/ tmp[s] = None
    BY <1>1, <1>3, <1>4, <2>1, <2>2
  <2>3. CASE t = s /\ tmp[s] # None
    <3>1. tmp[s] \in {Torn} \cup starters[s] /\ (s \notin overlaid => tmp[s] # Torn)
      BY <1>1, <1>2, <1>3, <2>3 DEF FilesOf
    <3> QED BY <1>1, <1>4, <2>1, <2>3, <3>1
  <2> QED BY <2>2, <2>3
<1> QED BY <1>10, <1>11, <1>12, <1>14, <1>15, <1>16 DEF FoundInv, FoundedWhole

\* The owner and the backfill touch the clock and whether the company is active.
LEMMA ControlKeeps ==
  ASSUME FoundInv, UNCHANGED <<starters, minted, site, flow, raced>>, company' \in [Slugs -> CompanyRow],
         \A s \in Slugs : company'[s].owner = company[s].owner /\ company'[s].made = company[s].made,
         schedule' \in [Slugs -> {"none", "running", "paused"}],
         \A s \in Slugs : schedule[s] # "none" => schedule'[s] # "none"
  PROVE  FoundInv'
<1>1. UNCHANGED <<page, tmp, job, overlaid>>
  BY DEF site
<1>2. Grown
  BY <1>1 DEF Grown
<1>3. \A q \in Prompts : \A h \in FlowRow : h = flow[q] => Waited(q, h)'
  BY <1>1 DEF FoundInv, FlowsKept, Waited
<1>4. FlowsKept' /\ flow' \in [Prompts -> FlowRow]
  BY <1>2, <1>3, FlowsStay
<1>5. FoundTyped'
  BY <1>1, <1>4 DEF FoundInv, FoundTyped
<1>6. JobsKept' /\ FilesKept'
  BY <1>1 DEF FoundInv, JobsKept, FilesKept
<1>7. AnnouncedIsWhole'
  BY <1>2, StillWhole
<1>8. StorefrontSells'
  BY <1>1 DEF FoundInv, FoundedWhole, StorefrontSells
<1> QED BY <1>4, <1>5, <1>6, <1>7, <1>8 DEF FoundInv, FoundedWhole

\* The owner's and the backfill's steps break no company.
LEMMA ControlsKeep == ASSUME FoundInv, ClockInv, Controls PROVE FoundInv'
<1>1. company \in [Slugs -> CompanyRow] /\ schedule \in [Slugs -> {"none", "running", "paused"}]
  BY DEF FoundInv, FoundTyped
<1>2. ASSUME NEW s \in Slugs, NEW request \in {"pause", "resume", "schedule"}, Click(request, s) PROVE FoundInv'
  <2> DEFINE active == IF request = "schedule" THEN company[s].active ELSE request = "resume"
             row == [company[s] EXCEPT !.active = active]
  <2>1. company' = [company EXCEPT ![s] = row] /\ company[s] \in CompanyRow
    BY <1>1, <1>2 DEF Click
  <2>2. active \in BOOLEAN
    BY <2>1 DEF CompanyRow
  <2> HIDE DEF active
  <2>3. row \in CompanyRow /\ row.owner = company[s].owner /\ row.made = company[s].made
    BY <2>1, <2>2 DEF CompanyRow
  <2> HIDE DEF row
  <2>4. /\ company' \in [Slugs -> CompanyRow]
        /\ \A t \in Slugs : company'[t].owner = company[t].owner /\ company'[t].made = company[t].made
    BY <1>1, <2>1, <2>3
  <2>5. UNCHANGED <<starters, schedule, minted, site, flow, raced>>
    BY <1>2 DEF Click
  <2> QED BY <1>1, <2>4, <2>5, ControlKeeps
<1>3. ASSUME NEW s \in Slugs, Backfill(s) PROVE FoundInv'
  <2>1. UNCHANGED <<company, starters, schedule, minted, site, flow, raced>>
    BY <1>3 DEF Backfill, world
  <2> QED BY <1>1, <2>1, ControlKeeps
<1>4. CASE ClockUnreachable
  <2>1. UNCHANGED <<company, starters, schedule, minted, site, flow, raced>>
    BY <1>4 DEF ClockUnreachable, world
  <2> QED BY <1>1, <2>1, ControlKeeps
<1>5. CASE Clock
  <2>1. UNCHANGED <<company, starters, minted, site, flow, raced>> /\ call.slug \in Slugs
    BY <1>5 DEF Clock, ClockInv
  <2>2. /\ schedule' \in [Slugs -> {"none", "running", "paused"}]
        /\ \A s \in Slugs : schedule[s] # "none" => schedule'[s] # "none"
    BY <1>1, <1>5, <2>1 DEF Clock, SetClock
  <2> QED BY <1>1, <2>1, <2>2, ControlKeeps
<1>6. CASE FillSchedule \/ FillPause
  <2>1. UNCHANGED <<company, starters, minted, site, flow, raced>> /\ fill.slug \in Slugs
    BY <1>6 DEF FillSchedule, FillPause, ClockInv
  <2>2. /\ schedule' \in [Slugs -> {"none", "running", "paused"}]
        /\ \A s \in Slugs : schedule[s] # "none" => schedule'[s] # "none"
    BY <1>1, <1>6, <2>1 DEF FillSchedule, FillPause, SetClock
  <2> QED BY <1>1, <2>1, <2>2, ControlKeeps
<1> QED BY <1>2, <1>3, <1>4, <1>5, <1>6 DEF Controls

----------------------------------------------------------------------------
(* The clock.                                                              *)

\* A step that leaves the owner, the backfill and who is active alone, and pauses no clock.
LEMMA ClockStays ==
  ASSUME ClockInv, UNCHANGED <<call, fill, muted>>, company' \in [Slugs -> CompanyRow],
         \A s \in Slugs : company'[s].active = company[s].active, schedule' \in [Slugs -> {"none", "running", "paused"}],
         \A s \in Slugs : /\ schedule'[s] = "paused" => schedule[s] = "paused"
                          /\ schedule[s] # "none" => schedule'[s] # "none"
  PROVE  ClockInv'
  BY DEF ClockInv, ClockTyped

\* Founding a company pauses no clock.
LEMMA FoundingTicks ==
  ASSUME FoundInv, FoundInv', ClockInv, NEW p \in Prompts,
         StartCreateCompany(p) \/ Founds(p) \/ \E a \in DOMAIN flow[p].acts : AttemptFails(p, a)
  PROVE  ClockInv'
<1>1. company' \in [Slugs -> CompanyRow] /\ schedule' \in [Slugs -> {"none", "running", "paused"}]
      /\ company \in [Slugs -> CompanyRow] /\ schedule \in [Slugs -> {"none", "running", "paused"}]
  BY DEF FoundInv, FoundTyped
<1>2. UNCHANGED <<call, fill, muted>>
  BY DEF StartCreateCompany, Founds, AttemptFails, UpsertRow, Starter, LookForStarter, MintProduct, CheckStarter,
         InsertStarter, CreateSchedule, AskDeployd, HearDeployd, Activity, Make, ActivityEnds, clock
<1>3. ASSUME UNCHANGED <<company, schedule>> PROVE ClockInv'
  BY <1>1, <1>2, <1>3, ClockStays
<1>4. CASE UpsertRow(p)
  <2>1. UNCHANGED schedule /\ \A s \in Slugs : company'[s].active = company[s].active
    BY <1>1, <1>4 DEF UpsertRow, CompanyRow
  <2> QED BY <1>1, <1>2, <2>1, ClockStays
<1>5. CASE CreateSchedule(p)
  <2>1. /\ UNCHANGED company
        /\ \A s \in Slugs : /\ schedule'[s] = "paused" => schedule[s] = "paused"
                            /\ schedule[s] # "none" => schedule'[s] # "none"
    BY <1>1, <1>5 DEF CreateSchedule
  <2> QED BY <1>1, <1>2, <2>1, ClockStays
<1>6. ASSUME NEW a, Make(p, a) PROVE ClockInv'
  <2>1. UNCHANGED schedule /\ \A s \in Slugs : company'[s].active = company[s].active
    BY <1>1, <1>6 DEF Make, CompanyRow
  <2> QED BY <1>1, <1>2, <2>1, ClockStays
<1>7. UNCHANGED <<company, schedule>> \/ UpsertRow(p) \/ CreateSchedule(p) \/ \E a : Make(p, a)
  BY DEF StartCreateCompany, Founds, AttemptFails, Starter, LookForStarter, MintProduct, CheckStarter,
         InsertStarter, AskDeployd, HearDeployd, Activity, ActivityEnds, world
<1> QED BY <1>3, <1>4, <1>5, <1>6, <1>7

\* The owner's clicks and the backfill: a clock is paused only of a company that is not active.
LEMMA ControlsTick == ASSUME FoundInv, ClockInv, Controls PROVE ClockInv'
<1>1. company \in [Slugs -> CompanyRow] /\ schedule \in [Slugs -> {"none", "running", "paused"}]
  BY DEF FoundInv, FoundTyped
<1>2. ASSUME NEW s \in Slugs, NEW request \in {"pause", "resume", "schedule"}, Click(request, s) PROVE ClockInv'
  <2> DEFINE active == IF request = "schedule" THEN company[s].active ELSE request = "resume"
             row == [company[s] EXCEPT !.active = active]
  <2>1. company' = [company EXCEPT ![s] = row] /\ company[s] \in CompanyRow
    BY <1>1, <1>2 DEF Click
  <2>2. /\ active \in BOOLEAN
        /\ request = "schedule" => active = company[s].active
        /\ request = "pause" => ~active
        /\ request = "resume" => active
    BY <2>1 DEF CompanyRow
  <2> HIDE DEF active
  <2>3. row \in CompanyRow /\ row.active = active
    BY <2>1, <2>2 DEF CompanyRow
  <2> HIDE DEF row
  <2>4. company' \in [Slugs -> CompanyRow] /\ company'[s].active = active /\ \A t \in Slugs \ {s} : company'[t] = company[t]
    BY <1>1, <2>1, <2>3
  <2>5. UNCHANGED <<schedule, fill>> /\ call.at # "clock" /\ call' = [at |-> "clock", kind |-> request, slug |-> s]
        /\ muted' = IF request = "resume" /\ FillOvertaken(s) THEN muted \cup {s} ELSE muted
    BY <1>2 DEF Click, NoCall
  <2>6. ClockTyped' /\ call'.at = "clock" /\ call'.kind = request /\ call'.slug = s
    BY <1>1, <2>4, <2>5 DEF ClockInv, ClockTyped
  <2> QED BY <1>1, <2>2, <2>4, <2>5, <2>6 DEF ClockInv, FillOvertaken
<1>3. ASSUME NEW s \in Slugs, Backfill(s) PROVE ClockInv'
  <2>1. /\ UNCHANGED <<company, schedule, call, muted>> /\ company[s].active \in BOOLEAN
        /\ fill' = [at |-> "create", slug |-> s, active |-> company[s].active]
    BY <1>1, <1>3 DEF Backfill, world, CompanyRow
  <2> QED BY <2>1 DEF ClockInv, ClockTyped
<1>4. CASE ClockUnreachable
  <2>1. /\ UNCHANGED <<company, schedule, fill>> /\ call' = NoCall /\ call.slug \in Slugs
        /\ muted' = IF call.kind = "resume" THEN muted \cup {call.slug} ELSE muted
    BY <1>4 DEF ClockUnreachable, world, ClockInv
  <2> QED BY <2>1 DEF ClockInv, ClockTyped, NoCall
<1>5. CASE Clock
  <2> DEFINE s == call.slug
  <2>1. UNCHANGED <<company, fill, muted>> /\ s \in Slugs /\ call' = NoCall
    BY <1>5 DEF Clock, ClockInv
  <2>2. /\ schedule' \in [Slugs -> {"none", "running", "paused"}]
        /\ \A t \in Slugs \ {s} : schedule'[t] = schedule[t]
        /\ schedule[s] # "none" => schedule'[s] # "none"
        /\ schedule'[s] = "paused" => call.kind = "pause" \/ (call.kind = "schedule" /\ schedule[s] = "paused")
                                      \/ (call.kind = "resume" /\ FALSE)
    BY <1>1, <1>5, <2>1 DEF Clock, SetClock
  <2> QED BY <1>5, <2>1, <2>2 DEF ClockInv, ClockTyped, NoCall, Clock
<1>6. CASE FillSchedule
  <2> DEFINE s == fill.slug
  <2>1. UNCHANGED <<company, call, muted>> /\ s \in Slugs /\ fill.at = "create"
    BY <1>6 DEF FillSchedule, ClockInv
  <2>2. CASE schedule[s] = "none"
    <3>1. /\ schedule' = [schedule EXCEPT ![s] = "running"]
          /\ fill' = IF fill.active THEN NoFill ELSE [fill EXCEPT !.at = "pause"]
      BY <1>6, <2>2 DEF FillSchedule
    <3> QED BY <1>1, <2>1, <2>2, <3>1 DEF ClockInv, ClockTyped, NoFill
  <2>3. CASE schedule[s] # "none"
    <3>1. schedule' = schedule /\ fill' = NoFill
      BY <1>6, <2>3 DEF FillSchedule
    <3> QED BY <1>1, <2>1, <3>1 DEF ClockInv, ClockTyped, NoFill
  <2> QED BY <2>2, <2>3
<1>7. CASE FillPause
  <2> DEFINE s == fill.slug
  <2>1. UNCHANGED <<company, call, muted>> /\ s \in Slugs /\ fill.at = "pause" /\ fill' = NoFill
        /\ schedule' = [schedule EXCEPT ![s] = IF @ = "none" THEN @ ELSE "paused"]
    BY <1>7 DEF FillPause, SetClock, ClockInv
  <2> QED BY <1>1, <2>1 DEF ClockInv, ClockTyped, NoFill
<1> QED BY <1>2, <1>3, <1>4, <1>5, <1>6, <1>7 DEF Controls

----------------------------------------------------------------------------
\* Nothing is founded yet.
LEMMA FoundBegins == FoundingInit => FoundInv /\ ClockInv
<1> SUFFICES ASSUME FoundingInit PROVE FoundInv /\ ClockInv
  OBVIOUS
<1>1. Idle \in FlowRow /\ Idle.at = "idle" /\ Idle.acts = <<>> /\ DOMAIN Idle.acts = {}
  <2>1. Idle.acts \in [{} -> ActRow]
    BY DEF Idle
  <2>2. Idle.acts \in Acts
    BY <2>1 DEF Acts
  <2> QED BY <2>2 DEF Idle, FlowRow, None
<1>2. FoundTyped
  BY <1>1 DEF FoundingInit, FoundTyped, CompanyRow, JobRow, NoJob, None
<1>3. FlowsKept
  <2>1. Behind(Idle) = {}
    BY <1>1, EarlierIs DEF Behind, ActsOf
  <2>2. Kept(Idle) /\ \A p \in Prompts : Waited(p, Idle) /\ Seeds(Idle)
    BY <1>1, <2>1 DEF Kept, Waited, Waiting, Seeds, Seeding, Minted
  <2> QED BY <2>2 DEF FoundingInit, FlowsKept
<1>4. JobsKept /\ FilesKept
  BY FoundingAssumption DEF FoundingInit, JobsKept, FilesKept, NoJob
<1>5. FoundedWhole
  BY FS_EmptySet DEF FoundingInit, FoundedWhole, AnnouncedIsWhole, StorefrontSells
<1>6. ClockInv
  BY DEF FoundingInit, ClockInv, ClockTyped, CompanyRow, NoCall, NoFill
<1> QED BY <1>2, <1>3, <1>4, <1>5, <1>6 DEF FoundInv

\* Every step keeps both invariants.
LEMMA FoundSteps == FoundInv /\ ClockInv /\ [FoundingNext]_foundingVars => FoundInv' /\ ClockInv'
<1> SUFFICES ASSUME FoundInv, ClockInv, [FoundingNext]_foundingVars PROVE FoundInv' /\ ClockInv'
  OBVIOUS
<1>1. ASSUME NEW p \in Prompts, StartCreateCompany(p) \/ Founds(p) \/ \E a \in DOMAIN flow[p].acts : AttemptFails(p, a)
      PROVE  FoundInv' /\ ClockInv'
  <2>1. FoundInv'
    BY <1>1, StartKeeps, FailsKeeps, UpsertKeeps, LookKeeps, MintKeeps, CheckKeeps, InsertKeeps, ScheduleKeeps,
       AskKeeps, HearKeeps, MakeKeeps, EndsKeeps DEF Founds, Starter, Activity
  <2> QED BY <1>1, <2>1, FoundingTicks
<1>2. ASSUME NEW j \in Jobs, Deployd(j) PROVE FoundInv' /\ ClockInv'
  <2>1. FoundInv'
    BY <1>2, OpenKeeps, WriteTmpKeeps, RenameKeeps DEF Deployd
  <2>2. UNCHANGED <<company, schedule, call, fill, muted>>
    BY <1>2 DEF Deployd, OpenTmp, WriteTmp, RenameTmp, world, clock
  <2> QED BY <2>1, <2>2 DEF ClockInv, ClockTyped
<1>3. CASE Controls
  BY <1>3, ControlsKeep, ControlsTick
<1>4. CASE UNCHANGED foundingVars
  <2>1. UNCHANGED <<starters, minted, site, flow, raced, company, schedule>> /\ UNCHANGED <<call, fill, muted>>
    BY <1>4 DEF foundingVars, site
  <2>2. company \in [Slugs -> CompanyRow] /\ schedule \in [Slugs -> {"none", "running", "paused"}]
    BY DEF FoundInv, FoundTyped
  <2> QED BY <2>1, <2>2, ControlKeeps, ClockStays
<1> QED BY <1>1, <1>2, <1>3, <1>4 DEF FoundingNext

\* A company the ledger announces is whole, and its page sells what its catalogue has.
THEOREM FoundedIsWhole == FoundingSpec => []FoundedWhole
<1>1. FoundInv => FoundedWhole
  BY DEF FoundInv
<1> QED BY <1>1, FoundBegins, FoundSteps, PTL DEF FoundingSpec

\* A company its owner left active has a clock that ticks.
THEOREM ActiveKeepsTicking == FoundingSpec => []ActiveTicks
<1>1. ClockInv => ActiveTicks
  BY DEF ClockInv, ActiveTicks
<1> QED BY <1>1, FoundBegins, FoundSteps, PTL DEF FoundingSpec
=============================================================================
