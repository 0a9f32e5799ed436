-------------------------- MODULE CustomerAccounts --------------------------
(***************************************************************************)
(* The credits of the conglomerates' wallets (CreditGrants) and their      *)
(* owners at the door (Owners), which share no state: a behaviour is of    *)
(* the one or of the other, beside the initial state of the other.         *)
(***************************************************************************)
EXTENDS CreditGrants

CONSTANTS Users, Requests, Companies, Limit, Accounts, MaxHits   \* the door's

VARIABLES part, user, congs, members, trial, owns, hits, request, account, made, links, past
Door == INSTANCE Owners WITH owner <- owns, story <- past
ASSUME CustomerAccountsAssumption == Door!OwnersAssumption

ovars == <<user, congs, members, trial, owns, hits, request, account, made, links, past>>
All == <<part, vars, ovars>>
Granting(A) == part = "grants" /\ A /\ UNCHANGED <<part, ovars>>
Entering == part = "door" /\ Door!Next /\ UNCHANGED <<part, vars>>

InitParts == part \in {"grants", "door"} /\ Init /\ Door!Init
Parts == InitParts /\ [][Granting(Next) \/ Entering]_All
FairParts ==
  /\ Parts
  /\ \A d \in Deliveries : WF_All(Granting(Webhook(d)))
  /\ \A s \in Sessions : SF_All(Granting(session[s].status = "paid" /\ \E d \in Deliveries : Deliver(d, s)))

\* CreditGrants' and Owners' properties: one grant per period, periods covered; an owner's
\* home, spend guard and bank account.
AccountsKept == GrantsKept /\ Door!OwnersKept
=============================================================================
