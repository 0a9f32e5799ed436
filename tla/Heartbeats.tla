----------------------------- MODULE Heartbeats -----------------------------
(***************************************************************************)
(* The two halves of a heartbeat's planning, which share no state: what it *)
(* queues and dispatches (CeoPlan) and what it learns (Lessons). A         *)
(* behaviour is one of the first or one of the second, beside the initial  *)
(* state of the other.                                                     *)
(***************************************************************************)
EXTENDS CeoPlan, Lessons

VARIABLE half

All == <<half, planVars, learnVars>>
Planning(A) == half = "planning" /\ A /\ UNCHANGED <<half, learnVars>>
Learning(A) == half = "learning" /\ A /\ UNCHANGED <<half, planVars>>

InitHalf ==
  /\ half \in {"planning", "learning"} /\ PlanInit /\ LearnInit
  /\ half = "learning" => ~reported /\ ~funded /\ mission = Idle.mission   \* one of them
NextHalf == Planning(PlanNext) \/ Learning(LearnNext)
Halves == InitHalf /\ [][NextHalf]_All
FairHalves ==
  /\ Halves
  /\ WF_All(Planning(StartAttempt \/ GatherContext)) /\ WF_All(Planning(Step(Heartbeat)))
  /\ WF_All(Planning(Dispatch)) /\ WF_All(Planning(NextDay))

\* Lessons' properties, of the learning half: a lesson is there once, leaves the sheets only
\* by fading, and the shared sheet ages with the days.
LearningKept == [](LearnedOnce /\ OnlyTheFadedGo) /\ SharedAgesByDays

\* CeoPlan's liveness, of the planning half.
PlanningNeverBlocksHere == half = "planning" => PlanningNeverBlocks
=============================================================================
