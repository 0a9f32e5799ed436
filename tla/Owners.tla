------------------------------- MODULE Owners -------------------------------
(***************************************************************************)
(* The owners at the door: signing up, who may act for which company, the  *)
(* spend guard on the calls that cost the platform models, and the bank    *)
(* account of a conglomerate at Stripe.                                    *)
(*                                                                         *)
(* A step is a statement or a call outside. A conglomerate is named by the *)
(* user it was made for. The model covers one hour: no hit leaves a window *)
(* (module ToolGateway has windows that pass).                             *)
(***************************************************************************)
EXTENDS Integers, FiniteSets

CONSTANTS
  Users, Requests,       \* requests that may be open at once
  Companies,             \* companies there may be, of all owners together
  Limit,                 \* API_LLM_LIMITS, by tool: create_company, heartbeat, ceo_chat
  Accounts,              \* bound: accounts Stripe may be asked for
  MaxHits, MaxFaults     \* bounds: requests of one kind and owner, failures

OwnersAssumption ==
  /\ IsFiniteSet(Requests)
  /\ Limit \in [DOMAIN Limit -> Nat] /\ "create_company" \in DOMAIN Limit
  /\ Accounts \subseteq Nat \ {0} /\ MaxHits \in Nat /\ MaxFaults \in Nat

VARIABLES
  user,     \* per user: how far the first sign-in came, or "broken" when its hook threw
  congs,    \* conglomerates
  members,  \* users with a membership (of their own conglomerate)
  trial,    \* conglomerates with the onboarding grant
  owner,    \* per company: its conglomerate, or "none"
  hits,     \* rate_limit_hits per conglomerate and tool
  request,  \* per request: [at, tool, of, account]
  account,  \* conglomerates.stripe_connect_account_id, 0 when NULL
  made,     \* per conglomerate: the accounts it has at Stripe
  links,    \* per conglomerate: accounts its owner was sent to for verification
  story     \* history: guarded calls that went through, failed sign-ups, conglomerates whose
            \* onboardings met, accounts lost before they were stored, faults

vars == <<user, congs, members, trial, owner, hits, request, account, made, links, story>>
signing == <<user, congs, members, trial>>
banking == <<account, made, links>>

Tools == DOMAIN Limit
NoAccount == 0
Idle == [at |-> "idle", tool |-> "none", of |-> "none", account |-> NoAccount]

Init ==
  /\ user = [u \in Users |-> "new"]
  /\ congs = {} /\ members = {} /\ trial = {}
  /\ owner = [k \in Companies |-> "none"]
  /\ hits = [u \in Users |-> [t \in Tools |-> 0]]
  /\ request = [r \in Requests |-> Idle]
  /\ account = [u \in Users |-> NoAccount]
  /\ made = [u \in Users |-> {}] /\ links = [u \in Users |-> {}]
  /\ story = [through |-> [u \in Users |-> [t \in Tools |-> 0]], broken |-> {}, met |-> {}, lost |-> {}, faults |-> 0]

AFault == story.faults < MaxFaults
Faulty(s) == [s EXCEPT !.faults = @ + 1]
Goto(r, at) == request' = [request EXCEPT ![r].at = at]
Quit(r) == request' = [request EXCEPT ![r] = Idle]

----------------------------------------------------------------------------
(* The first sign-in: the user's row, then the hook's three statements.    *)

SignUp(u) ==
  /\ user[u] = "new" /\ user' = [user EXCEPT ![u] = "row"]
  /\ UNCHANGED <<congs, members, trial, story>>

HookConglomerate(u) ==
  /\ user[u] = "row" /\ user' = [user EXCEPT ![u] = "conglomerate"]
  /\ congs' = congs \cup {u} /\ UNCHANGED <<members, trial, story>>

HookMembership(u) ==
  /\ user[u] = "conglomerate" /\ user' = [user EXCEPT ![u] = "membership"]
  /\ members' = members \cup {u} /\ UNCHANGED <<congs, trial, story>>

\* What the hook throws answers "unable_to_create_user"; what it wrote stays.
HookThrows(u) ==
  /\ user[u] \in {"row", "conglomerate"} /\ AFault
  /\ user' = [user EXCEPT ![u] = "broken"]
  /\ story' = [Faulty(story) EXCEPT !.broken = @ \cup {u}]
  /\ UNCHANGED <<congs, members, trial>>

\* The trial allowance is best effort: its failure is caught.
HookGrant(u) ==
  /\ user[u] = "membership" /\ user' = [user EXCEPT ![u] = "in"]
  /\ \/ trial' = trial \cup {u} /\ UNCHANGED story
     \/ AFault /\ story' = Faulty(story) /\ UNCHANGED trial
  /\ UNCHANGED <<congs, members>>

\* The row is there: if the library lets the user in, the hook does not run again.
SignInAgain(u) ==
  /\ user[u] = "broken" /\ user' = [user EXCEPT ![u] = "in"]
  /\ UNCHANGED <<congs, members, trial, story>>

Signs(u) ==
  /\ SignUp(u) \/ HookConglomerate(u) \/ HookMembership(u) \/ HookThrows(u) \/ HookGrant(u) \/ SignInAgain(u)
  /\ UNCHANGED <<owner, hits, request, banking>>

----------------------------------------------------------------------------
(* requireAuth and the membership behind every route of an owner.          *)

getSessionUser(u) == user[u] = "in"
userIsMemberOfConglomerate(u, c) == u = c /\ u \in members
userCanAccessCompany(u, k) == owner[k] # "none" /\ userIsMemberOfConglomerate(u, owner[k])

\* A new company in one's own conglomerate, a heartbeat or a chat of a company: counted first.
PostCompany(u, r) ==
  /\ request[r].at = "idle" /\ getSessionUser(u)
  /\ \E c \in congs :
       /\ userIsMemberOfConglomerate(u, c)
       /\ request' = [request EXCEPT ![r] = [Idle EXCEPT !.at = "hit", !.tool = "create_company", !.of = c]]
PostCall(u, r) ==
  /\ request[r].at = "idle" /\ getSessionUser(u)
  /\ \E k \in Companies, t \in Tools \ {"create_company"} :
       /\ userCanAccessCompany(u, k)
       /\ request' = [request EXCEPT ![r] = [Idle EXCEPT !.at = "hit", !.tool = t, !.of = owner[k]]]

\* llmSpendLimit: the row, then the count, of the conglomerate whichever its company.
RecordHit(r) ==
  /\ request[r].at = "hit" /\ hits[request[r].of][request[r].tool] < MaxHits
  /\ hits' = [hits EXCEPT ![request[r].of][request[r].tool] = @ + 1]
  /\ Goto(r, "count") /\ UNCHANGED <<owner, story>>

UnderLimitBefore(n, limit) == n - 1 <= limit
UnderLimit(n, limit) == n <= limit

Founded(c) ==
  \/ \E k \in Companies : owner[k] = "none" /\ owner' = [owner EXCEPT ![k] = c]
  \/ UNCHANGED owner
Admit(r) ==
  /\ request[r].at = "count"
  /\ UnderLimit(hits[request[r].of][request[r].tool], Limit[request[r].tool])
  /\ story' = [story EXCEPT !.through[request[r].of][request[r].tool] = @ + 1]
  /\ IF request[r].tool = "create_company" THEN Founded(request[r].of) ELSE UNCHANGED owner
  /\ Quit(r) /\ UNCHANGED hits
TooMany(r) ==
  /\ request[r].at = "count"
  /\ ~UnderLimit(hits[request[r].of][request[r].tool], Limit[request[r].tool])
  /\ Quit(r) /\ UNCHANGED <<owner, hits, story>>

Guarded(r) ==
  /\ \/ \E u \in Users : (PostCompany(u, r) \/ PostCall(u, r)) /\ UNCHANGED <<owner, hits, story>>
     \/ RecordHit(r) \/ Admit(r) \/ TooMany(r)
  /\ UNCHANGED <<signing, banking>>

----------------------------------------------------------------------------
(* ensureConnectOnboarding.                                                *)

Onboarding(c) == {r \in Requests : request[r].of = c /\ request[r].at \in {"create", "store"}}

\* The owner's call; the gateway reads what account the conglomerate has.
KeepsNothing(c) == NoAccount
StoredAccount(c) == account[c]
LookUpAccount(u, r) ==
  /\ request[r].at = "idle" /\ getSessionUser(u) /\ userIsMemberOfConglomerate(u, u)
  /\ request' = [request EXCEPT ![r] = [Idle EXCEPT
       !.at = IF StoredAccount(u) = NoAccount THEN "create" ELSE "link", !.of = u, !.account = StoredAccount(u)]]
  /\ story' = [story EXCEPT !.met = IF StoredAccount(u) = NoAccount /\ Onboarding(u) # {} THEN @ \cup {u} ELSE @]
  /\ UNCHANGED banking

\* Stripe makes an account; no key tells it that this is the same request.
CreateAccount(r) ==
  /\ request[r].at = "create"
  /\ \E a \in Accounts \ UNION {made[u] : u \in Users} :
       /\ made' = [made EXCEPT ![request[r].of] = @ \cup {a}]
       /\ request' = [request EXCEPT ![r].at = "store", ![r].account = a]
  /\ UNCHANGED <<account, links, story>>

StoreAccount(r) ==
  /\ request[r].at = "store" /\ account' = [account EXCEPT ![request[r].of] = request[r].account]
  /\ Goto(r, "link") /\ UNCHANGED <<made, links, story>>

SendLink(r) ==
  /\ request[r].at = "link" /\ links' = [links EXCEPT ![request[r].of] = @ \cup {request[r].account}]
  /\ Quit(r) /\ UNCHANGED <<account, made, story>>

\* Stripe or the database refuses: onboard_failed, whatever was made before.
OnboardFails(r) ==
  /\ request[r].at \in {"create", "store", "link"} /\ AFault /\ Quit(r)
  /\ story' = [Faulty(story) EXCEPT !.lost = IF request[r].at = "store" THEN @ \cup {request[r].account} ELSE @]
  /\ UNCHANGED banking

Onboards(r) ==
  /\ (\E u \in Users : LookUpAccount(u, r)) \/ CreateAccount(r) \/ StoreAccount(r) \/ SendLink(r) \/ OnboardFails(r)
  /\ UNCHANGED <<signing, owner, hits>>

----------------------------------------------------------------------------
Next == (\E u \in Users : Signs(u)) \/ (\E r \in Requests : Guarded(r) \/ Onboards(r))
Spec == Init /\ [][Next]_vars

----------------------------------------------------------------------------
\* Whoever is signed in has a conglomerate and may found in it (auth.ts:10-12), unless the
\* hook of the first sign-in threw; the trial is given to no conglomerate without an owner.
HomeKept ==
  /\ \A u \in Users : user[u] = "in" => u \in members \cup story.broken
  /\ members \subseteq congs /\ trial \subseteq members

\* The guarded calls of an account stay under their ceiling together, however many companies it
\* spreads them over and however many arrive at once (index.ts:43-52).
SpendGuarded == \A u \in Users, t \in Tools : story.through[u][t] <= Limit[t]

\* A conglomerate has one account at Stripe, besides those a failure lost, and the account its
\* owner is sent to is the one withdrawals pay (connect.ts:4-12), unless onboardings met.
OneAccount ==
  \A u \in Users \ story.met :
    /\ Cardinality(made[u] \ story.lost) <= 1
    /\ links[u] \subseteq {account[u]}

OwnersKept == HomeKept /\ SpendGuarded /\ OneAccount
=============================================================================
