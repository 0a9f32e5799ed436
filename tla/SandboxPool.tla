----------------------------- MODULE SandboxPool -----------------------------
(***************************************************************************)
(* runWorker's use of a sandbox: claim one from a pool with a concurrency  *)
(* ceiling, run the agent in it under the wall clock, release it. The      *)
(* three pools: "local" runs the agent loop in the host process,           *)
(* "subprocess" in a child process, "e2b" in a hosted sandbox.             *)
(*                                                                         *)
(* JavaScript runs one continuation at a time: a step is the code between  *)
(* two awaits. A waiter that release() resolves goes on only when its own  *)
(* continuation comes up, in the order of the microtask queue; code that   *)
(* was queued before it may claim first.                                   *)
(***************************************************************************)
EXTENDS Integers, Sequences, FiniteSets

CONSTANTS
  Workers,       \* calls of runWorker
  Capacity,      \* of the CapacityGate
  Kinds,         \* the kinds of pool considered
  MaxCost        \* bound: metered cost of one agent

ASSUME SandboxPoolAssumption ==
  /\ IsFiniteSet(Workers)
  /\ Capacity \in Nat \ {0}
  /\ Kinds \subseteq {"local", "subprocess", "e2b"}
  /\ MaxCost \in Nat

VARIABLES
  kind,      \* which pool this host runs (SANDBOX_KIND)
  inUse, waiters,   \* the CapacityGate
  woken,     \* waiters whose promise is resolved, in microtask order
  at,        \* where each runWorker is
  agent,     \* "off", "on" or "ended": the agent loop of the worker
  metered,   \* costMicroCents the loop has accrued
  emitted,   \* the terminal event it produced: "none", "result" or "error"
  lost,      \* hosted sandboxes whose kill failed
  timedOut,  \* the wall-clock timer has fired
  result,    \* what runWorker returns: "none", "ok" or "failed"
  reported   \* costMicroCents runWorker returns

gate    == <<inUse, waiters, woken>>
runtime == <<agent, metered, emitted, lost>>
outcome == <<result, reported>>
vars == <<kind, gate, at, runtime, timedOut, outcome>>

Init ==
  /\ kind \in Kinds
  /\ inUse = 0 /\ waiters = <<>> /\ woken = <<>>
  /\ at = [w \in Workers |-> "idle"]
  /\ agent = [w \in Workers |-> "off"] /\ metered = [w \in Workers |-> 0]
  /\ emitted = [w \in Workers |-> "none"] /\ lost = {}
  /\ timedOut = [w \in Workers |-> FALSE]
  /\ result = [w \in Workers |-> "none"] /\ reported = [w \in Workers |-> 0]

Move(w, p) == at' = [at EXCEPT ![w] = p]

----------------------------------------------------------------------------
(* CapacityGate. A claim of the e2b pool goes on to create the sandbox.    *)

Full == inUse >= Capacity

Acquire(w) ==
  /\ at[w] = "idle" /\ ~Full
  /\ inUse' = inUse + 1
  /\ Move(w, "claiming")
  /\ UNCHANGED <<kind, waiters, woken, runtime, timedOut, outcome>>

Wait(w) ==
  /\ at[w] = "idle" /\ Full
  /\ waiters' = Append(waiters, w)
  /\ Move(w, "waiting")
  /\ UNCHANGED <<kind, inUse, woken, runtime, timedOut, outcome>>

\* acquire() goes on past its await: it does not look at the capacity again.
WokenUncounted(w) ==
  /\ woken # <<>> /\ Head(woken) = w
  /\ woken' = Tail(woken)
  /\ Move(w, "claiming")
  /\ UNCHANGED <<kind, inUse, waiters, runtime, timedOut, outcome>>
AcquireWoken(w) ==
  /\ woken # <<>> /\ Head(woken) = w
  /\ woken' = Tail(woken)
  /\ inUse' = inUse + 1
  /\ Move(w, "claiming")
  /\ UNCHANGED <<kind, waiters, runtime, timedOut, outcome>>

ReleaseUnlessQueued ==
  /\ inUse' = inUse - 1
  /\ UNCHANGED <<waiters, woken>>
Release ==
  /\ inUse' = inUse - 1
  /\ IF waiters = <<>>
       THEN UNCHANGED <<waiters, woken>>
       ELSE waiters' = Tail(waiters) /\ woken' = Append(woken, Head(waiters))

----------------------------------------------------------------------------
(* claim and execAgent.                                                    *)

Claimed(w) ==
  /\ at[w] = "claiming"
  /\ Move(w, "running")
  /\ agent' = [agent EXCEPT ![w] = "on"]
  /\ UNCHANGED <<kind, gate, metered, emitted, lost, timedOut, outcome>>

\* createSandbox or the bundle fails: the slot goes back, the claim throws.
ClaimFailsAfterwards(w) ==
  /\ kind = "e2b" /\ at[w] = "claiming"
  /\ Release
  /\ Move(w, "releasing")
  /\ result' = [result EXCEPT ![w] = "failed"]
  /\ UNCHANGED <<kind, runtime, timedOut, reported>>
ClaimFails(w) ==
  /\ kind = "e2b" /\ at[w] = "claiming"
  /\ Release
  /\ Move(w, "done")
  /\ result' = [result EXCEPT ![w] = "failed"]
  /\ UNCHANGED <<kind, runtime, timedOut, reported>>

\* An LLM call of the agent loop.
Think(w) ==
  /\ agent[w] = "on" /\ metered[w] < MaxCost
  /\ metered' = [metered EXCEPT ![w] = @ + 1]
  /\ UNCHANGED <<kind, gate, at, agent, emitted, lost, timedOut, outcome>>

\* The loop returns or throws and says so in its terminal event, or dies.
AgentEnds(w) ==
  /\ agent[w] = "on"
  /\ agent' = [agent EXCEPT ![w] = "ended"]
  /\ \E e \in {"result", "error"} \cup (IF kind = "local" THEN {} ELSE {"none"}) :
       emitted' = [emitted EXCEPT ![w] = e]
  /\ UNCHANGED <<kind, gate, at, metered, lost, timedOut, outcome>>

\* The wall clock: an isolated agent is killed, a local one is left running.
Expire(w) ==
  /\ at[w] = "running" /\ ~timedOut[w]
  /\ kind = "local" => agent[w] = "on"
  /\ timedOut' = [timedOut EXCEPT ![w] = TRUE]
  /\ agent' = IF kind = "local" THEN agent ELSE [agent EXCEPT ![w] = "ended"]
  /\ UNCHANGED <<kind, gate, at, metered, emitted, lost, outcome>>

\* execAgent settles: Promise.race with the timer for a local sandbox, the end
\* of the event stream for the others, where a fired timer overrides a result.
SettlesAtTheEnd(w) == agent[w] = "ended"
Settles(w) ==
  IF kind = "local" THEN agent[w] = "ended" \/ timedOut[w] ELSE agent[w] = "ended"

Succeeded(w) == emitted[w] = "result" /\ ~timedOut[w]

\* The terminal result event of an isolated agent carries no cost.
ReportedCost(w) == IF kind = "local" /\ Succeeded(w) THEN metered[w] ELSE 0

Settle(w) ==
  /\ at[w] = "running" /\ Settles(w)
  /\ result' = [result EXCEPT ![w] = IF Succeeded(w) THEN "ok" ELSE "failed"]
  /\ reported' = [reported EXCEPT ![w] = ReportedCost(w)]
  /\ Move(w, "releasing")
  /\ UNCHANGED <<kind, gate, runtime, timedOut>>

\* The connection to a hosted sandbox breaks: execAgent throws, the agent goes on.
TransportFails(w) ==
  /\ kind = "e2b" /\ at[w] = "running"
  /\ result' = [result EXCEPT ![w] = "failed"]
  /\ Move(w, "releasing")
  /\ UNCHANGED <<kind, gate, runtime, timedOut, reported>>

\* runWorker's finally: release() kills what an isolated sandbox still runs and
\* frees the slot. A failed kill of a hosted sandbox is ignored.
FinallyWithoutKill(w) ==
  /\ at[w] = "releasing"
  /\ Release
  /\ Move(w, "done")
  /\ UNCHANGED <<kind, runtime, timedOut, outcome>>
Finally(w) ==
  /\ at[w] = "releasing"
  /\ Release
  /\ Move(w, "done")
  /\ \/ /\ agent' = IF kind = "local" THEN agent ELSE [agent EXCEPT ![w] = "ended"]
        /\ UNCHANGED lost
     \/ /\ kind = "e2b" /\ lost' = lost \cup {w}
        /\ UNCHANGED agent
  /\ UNCHANGED <<kind, metered, emitted, timedOut, outcome>>

\* E2B ends a sandbox when its lifetime is over.
Reap(w) ==
  /\ w \in lost /\ agent[w] = "on"
  /\ agent' = [agent EXCEPT ![w] = "ended"]
  /\ UNCHANGED <<kind, gate, at, metered, emitted, lost, timedOut, outcome>>

RunWorker(w) ==
  \/ Acquire(w)
  \/ Wait(w)
  \/ AcquireWoken(w)
  \/ Claimed(w)
  \/ ClaimFails(w)
  \/ Settle(w)
  \/ Finally(w)

Next ==
  \E w \in Workers :
    \/ RunWorker(w)
    \/ Think(w) \/ AgentEnds(w) \/ TransportFails(w) \/ Expire(w) \/ Reap(w)

Spec == Init /\ [][Next]_vars

\* The event loop runs every continuation and the timer fires: nothing is owed
\* by the agent.
FairSpec == Spec /\ \A w \in Workers : WF_vars(RunWorker(w)) /\ WF_vars(Expire(w))

----------------------------------------------------------------------------
Slots == {w \in Workers : at[w] \in {"claiming", "running", "releasing"}}

TypeOK ==
  /\ kind \in Kinds
  /\ inUse \in Nat /\ waiters \in Seq(Workers) /\ woken \in Seq(Workers)
  /\ at \in [Workers -> {"idle", "waiting", "claiming", "running", "releasing", "done"}]
  /\ agent \in [Workers -> {"off", "on", "ended"}]
  /\ metered \in [Workers -> 0..MaxCost]
  /\ emitted \in [Workers -> {"none", "result", "error"}]
  /\ lost \subseteq Workers
  /\ timedOut \in [Workers -> BOOLEAN]
  /\ result \in [Workers -> {"none", "ok", "failed"}]
  /\ reported \in [Workers -> Nat]

\* CapacityGate: the counter is the number of sandboxes claimed and not released, through
\* failed claims, timeouts and overtaken waiters.
SlotsCounted == inUse = Cardinality(Slots)

\* No lost wakeup: while anyone waits, every slot is held or promised.
NoIdleSlot == waiters # <<>> => inUse + Len(woken) >= Capacity

\* A finished worker leaves no agent behind to spend: the wall clock and the
\* release end what an isolated sandbox runs, or else E2B was told and failed.
NoOrphan ==
  kind # "local" => \A w \in Workers : at[w] = "done" /\ agent[w] = "on" => w \in lost

\* What a pool leaves behind, whichever kind it is.
PoolKept == TypeOK /\ NoOrphan

\* Every claim gets its turn, however many are ahead of it.
EveryoneServed == \A w \in Workers : at[w] = "waiting" ~> at[w] = "done"
=============================================================================
