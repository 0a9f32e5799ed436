----------------------------- MODULE LedgerCalls -----------------------------
(***************************************************************************)
(* The public ledger (LedgerChain), and the model calls that write the     *)
(* plans it shows (ModelCalls), of companies set up in several ways. The   *)
(* parts share no state: a behaviour is of the ledger, or of the calls of  *)
(* one such company.                                                       *)
(***************************************************************************)
EXTENDS LedgerChain

CONSTANTS
  Setups,                   \* the ways to set up a company, by name
  Setup,                    \* per name: [departments, contexts, wallets, proposals, dailyTaskCap,
                            \*            classifier, tries, faults, chats]
  Estimate, StandardMin, FrontierMin, MaxAttempts   \* ModelCalls', for all of them

VARIABLES part, scene, flow, cur, attempt, caller, plans, chat, outages, chats
cvars == <<scene, flow, cur, attempt, caller, plans, chat, outages, chats>>
All == <<part, vars, cvars>>

Calls(n) == INSTANCE ModelCalls WITH
  Departments <- Setup[n].departments, Contexts <- Setup[n].contexts, Wallets <- Setup[n].wallets,
  Proposals <- Setup[n].proposals, DailyTaskCap <- Setup[n].dailyTaskCap,
  Classifier <- Setup[n].classifier, MaxTries <- Setup[n].tries, MaxFaults <- Setup[n].faults,
  MaxChats <- Setup[n].chats, events <- plans, faults <- outages

ASSUME LedgerCallsAssumption ==
  Setups # {} /\ "ledger" \notin Setups /\ \A n \in Setups : Calls(n)!ModelCallsAssumption

Recording(A) == part = "ledger" /\ A /\ UNCHANGED <<part, cvars>>
Asking(n, A) == part = n /\ A /\ UNCHANGED <<part, vars>>
Resting == CHOOSE n \in Setups : TRUE     \* whose calls stay at their start beside the ledger

InitParts ==
  /\ Init
  /\ \E n \in Setups :
       /\ Calls(n)!Init
       /\ \/ part = n
          \/ part = "ledger" /\ n = Resting /\ scene = "chat"     \* one of them
\* The calls may come to an end, the ledger may not.
NextPart ==
  \/ Recording(Next)
  \/ \E n \in Setups : Asking(n, Calls(n)!Next) \/ Asking(n, UNCHANGED cvars)
Parts == InitParts /\ [][NextPart]_All

Planning(i) == \E n \in Setups : Asking(n, Calls(n)!Planning(i))
Chatting == \E n \in Setups : Asking(n, Calls(n)!Chatting)
FairParts ==
  /\ Parts
  /\ \A w \in Writers : SF_All(Recording(AcquireLock(w))) /\ WF_All(Recording(AppendStep(w)))
  /\ \A i \in 1..MaxAttempts : WF_All(Planning(i))
  /\ WF_All(Chatting)

\* ModelCalls' properties, of its parts: the right model and an informed plan, in the end
\* (the last says nothing of a setup).
CallsKept == \A n \in Setups : part = n => Calls(n)!CallsKept
CallsEnd == Calls(Resting)!CallsEnd
=============================================================================
