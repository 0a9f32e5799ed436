---------------------------- MODULE TaskBilling ----------------------------
(***************************************************************************)
(* What TaskRun promises of the bill of one task: the estimate is held     *)
(* before the worker runs, then the bill settles once at the metered cost, *)
(* or everything is given back. A settled bill may still be given back     *)
(* (the run failed after the reconcile), and nothing is billed after that. *)
(***************************************************************************)
EXTENDS Integers

CONSTANTS Tasks, Estimate, Costs

VARIABLES
  phase,  \* "none", "held", "settled" or "refunded"
  net     \* what the wallet has paid for the task

vars == <<phase, net>>

Init == phase = [t \in Tasks |-> "none"] /\ net = [t \in Tasks |-> 0]

Becomes(t, p, n) ==
  /\ phase' = [phase EXCEPT ![t] = p]
  /\ net' = [net EXCEPT ![t] = n]

\* A charge whose acknowledgement is lost is made again.
Hold(t) == phase[t] \in {"none", "held"} /\ Becomes(t, "held", net[t] + Estimate)
Settle(t) == phase[t] = "held" /\ \E c \in Costs : Becomes(t, "settled", c)
Refund(t) == phase[t] \in {"held", "settled"} /\ Becomes(t, "refunded", 0)

Next == \E t \in Tasks : Hold(t) \/ Settle(t) \/ Refund(t)

Spec == Init /\ [][Next]_vars
=============================================================================
