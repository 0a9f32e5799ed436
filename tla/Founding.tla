------------------------------- MODULE Founding -------------------------------
(***************************************************************************)
(* CreateCompany: one prompt becomes a company with a database, a mailbox, *)
(* a storefront, first tasks and a daily clock. Each activity is retried   *)
(* on its own from its start, whatever its last attempt had done; deployd  *)
(* finishes a deploy whose caller is gone; two prompts may name the same   *)
(* slug. Beside it the owner pauses and resumes the clock, and a backfill  *)
(* gives old companies theirs.                                             *)
(*                                                                         *)
(* A step is one statement or request. Something is made or not; which     *)
(* checkout link a page carries is a number, its content is otherwise      *)
(* whole or torn.                                                          *)
(***************************************************************************)
EXTENDS Integers, Sequences, FiniteSets, Functions

CONSTANTS
  Prompts, Conglomerate,   \* founding requests, the conglomerate each comes from
  Slugs, SlugsOf,          \* the slugs extractSpec may answer for a prompt
  Configured,              \* optional services of this deployment
  Jobs,                    \* deployd's requests open at a time (bound)
  MaxAttempts,             \* retry.maximumAttempts
  MaxEvents                \* bound: prompts, owner's calls and failures together

ASSUME FoundingAssumption ==
  /\ \A p \in Prompts : SlugsOf[p] # {} /\ SlugsOf[p] \subseteq Slugs /\ Conglomerate[p] # "nobody"
  /\ "none" \notin Slugs /\ "nobody" \notin Prompts
  /\ Configured \subseteq {"repo", "site", "mailbox", "secrets"}
  /\ MaxAttempts \in Nat \ {0} /\ MaxEvents \in Nat

VARIABLES
  company,    \* per slug: [owner, active, made], what exists of it and on the ledger
  starters,   \* per slug: checkout links of its starter products
  schedule,   \* per slug: none, running, paused
  page, tmp,  \* per slug: link on index.html and in its temporary file, None or Torn
  job,        \* deployd's open requests: [at, by, slug, link, fd]
  flow,       \* per prompt: the workflow, its running activities and their results
  minted,     \* links minted by the payment provider
  call,       \* the owner's open request: [at, kind, slug]
  fill,       \* the backfill: [at, slug, active]
  events,
  raced,      \* history: slugs two attempts seeded together
  overlaid,   \* history: slugs two deploys wrote together
  muted       \* history: slugs whose resume Temporal did not hear, or the backfill undid

foundingVars == <<company, starters, schedule, page, tmp, job, flow, minted, call, fill, events, raced, overlaid, muted>>
world == <<company, starters, schedule, minted>>
site == <<page, tmp, job, overlaid>>
clock == <<call, fill, muted>>

None == 0
Torn == -1
NoOwner == "nobody"
Optional(names) == Configured \cap names

Stages == <<"spec", "company", "provision", "record", "starter", "deploy", "playbook", "schedule", "announce", "done">>
After(at) == Stages[(CHOOSE i \in 1..9 : Stages[i] = at) + 1]
Activities(at) == IF at = "provision" THEN {"database"} \cup Optional({"repo", "site", "mailbox", "secrets"}) ELSE {at}

\* The effects of each activity, in order.
Effects ==
  [spec |-> <<>>, company |-> <<"row", "ceo">>, database |-> <<"database">>, repo |-> <<"repo">>,
   site |-> <<"site">>, mailbox |-> <<"mailbox", "address", "mailbox_event">>,
   secrets |-> <<"folder", "secrets_event">>, record |-> <<"recorded">>,
   starter |-> <<"look", "mint", "check", "rows", "starter_event">>, deploy |-> <<"ask", "wait">>,
   playbook |-> <<"tasks">>, schedule |-> <<"schedule", "schedule_event">>, announce |-> <<"created_event">>]
\* Each of these finds what an earlier attempt left, or only appends to the ledger.
Repeatable == {"ceo", "database", "repo", "site", "mailbox", "address", "mailbox_event", "folder",
               "secrets_event", "recorded", "starter_event", "tasks", "schedule_event", "created_event"}

Fresh == [step |-> 1, tries |-> 1]
Idle == [at |-> "idle", slug |-> "none", acts |-> <<>>, link |-> None, job |-> None]
NoJob == [at |-> "free", by |-> "nobody", slug |-> "none", link |-> None, fd |-> "none"]
NoCall == [at |-> "idle", kind |-> "none", slug |-> "none"]
NoFill == [at |-> "idle", slug |-> "none", active |-> TRUE]

FoundingInit ==
  /\ company = [s \in Slugs |-> [owner |-> NoOwner, active |-> TRUE, made |-> {}]]
  /\ starters = [s \in Slugs |-> {}] /\ schedule = [s \in Slugs |-> "none"]
  /\ page = [s \in Slugs |-> None] /\ tmp = [s \in Slugs |-> None]
  /\ job = [j \in Jobs |-> NoJob] /\ flow = [p \in Prompts |-> Idle]
  /\ minted = 0 /\ call = NoCall /\ fill = NoFill
  /\ events = 0
  /\ raced = {} /\ overlaid = {} /\ muted = {}

----------------------------------------------------------------------------
(* The workflow and its retries.                                           *)

Becomes(p, f) == flow' = [flow EXCEPT ![p] = f]
Enter(f, at) == [f EXCEPT !.at = at, !.acts = IF at = "done" THEN <<>> ELSE [a \in Activities(at) |-> Fresh]]
Runs(p, a, effect) ==
  /\ a \in DOMAIN flow[p].acts
  /\ flow[p].acts[a].step <= Len(Effects[a]) /\ Effects[a][flow[p].acts[a].step] = effect
Onward(p, a) == Becomes(p, [flow[p] EXCEPT !.acts[a].step = @ + 1])
SkipTo(p, a, n) == Becomes(p, [flow[p] EXCEPT !.acts[a].step = n])

\* The workflow id holds off a second start only while the first one runs.
StartCreateCompany(p) ==
  /\ flow[p].at \in {"idle", "done", "failed"} /\ events < MaxEvents /\ events' = events + 1
  /\ \E s \in SlugsOf[p] : Becomes(p, Enter([Idle EXCEPT !.slug = s], "spec"))
  /\ UNCHANGED <<world, site, clock, raced>>

ActivityEnds(p, a) ==
  /\ a \in DOMAIN flow[p].acts /\ flow[p].acts[a].step > Len(Effects[a])
  /\ Becomes(p, IF DOMAIN flow[p].acts = {a}
                THEN IF flow[p].at = "failed" THEN [flow[p] EXCEPT !.acts = <<>>] ELSE Enter(flow[p], After(flow[p].at))
                ELSE [flow[p] EXCEPT !.acts = Restrict(@, DOMAIN @ \ {a})])
  /\ UNCHANGED <<world, site, clock, events, raced>>

\* An attempt throws, times out or loses its worker; what it did stays. The last one fails
\* the workflow, whose other activities are not retried any more.
GivesUpQuietly(f, a) == IF DOMAIN f.acts = {a} THEN Enter(f, After(f.at)) ELSE [f EXCEPT !.acts = Restrict(@, DOMAIN @ \ {a})]
GivesUpUnnoticed(f, a) == [f EXCEPT !.acts = Restrict(@, DOMAIN @ \ {a})]
GivesUp(f, a) == [f EXCEPT !.at = "failed", !.acts = Restrict(@, DOMAIN @ \ {a})]
Retried(f, a) ==
  IF f.at = "failed" \/ f.acts[a].tries = MaxAttempts THEN GivesUp(f, a)
  ELSE [f EXCEPT !.acts[a] = [step |-> 1, tries |-> @.tries + 1]]
AttemptFails(p, a) ==
  /\ a \in DOMAIN flow[p].acts /\ events < MaxEvents
  /\ events' = events + 1
  /\ Becomes(p, Retried(flow[p], a))
  /\ UNCHANGED <<world, site, clock, raced>>

----------------------------------------------------------------------------
(* upsertCompany, the provisioning activities, seedLaunchPlaybook,         *)
(* scheduleHeartbeat, appendLedger.                                        *)

\* ON CONFLICT (slug) DO UPDATE: whoever holds the slug keeps it, and its id is returned.
UpsertRow(p) ==
  /\ Runs(p, "company", "row")
  /\ company' = [company EXCEPT ![flow[p].slug].owner = IF @ = NoOwner THEN Conglomerate[p] ELSE @]
  /\ Onward(p, "company")
  /\ UNCHANGED <<starters, schedule, minted, site, clock, events, raced>>

Make(p, a) ==
  /\ \E effect \in Repeatable : /\ Runs(p, a, effect)
                                /\ company' = [company EXCEPT ![flow[p].slug].made = @ \cup {effect}]
  /\ Onward(p, a)
  /\ UNCHANGED <<starters, schedule, minted, site, clock, events, raced>>

\* Only the attempt that created the schedule says so.
CreateSchedule(p) ==
  /\ Runs(p, "schedule", "schedule")
  /\ IF schedule[flow[p].slug] = "none"
     THEN schedule' = [schedule EXCEPT ![flow[p].slug] = "running"] /\ Onward(p, "schedule")
     ELSE schedule' = schedule /\ SkipTo(p, "schedule", 3)
  /\ UNCHANGED <<company, starters, minted, site, clock, events, raced>>

----------------------------------------------------------------------------
(* seedStarterCommerce.                                                    *)

Found(p) == \E l \in starters[flow[p].slug] : Becomes(p, [flow[p] EXCEPT !.acts["starter"].step = 6, !.link = l])
LookForStarter(p) ==
  /\ Runs(p, "starter", "look")
  /\ IF starters[flow[p].slug] # {} THEN Found(p) ELSE Onward(p, "starter")
  /\ UNCHANGED <<world, site, clock, events, raced>>

\* At the provider, or a local link when the gateway does not answer.
MintProduct(p) ==
  /\ Runs(p, "starter", "mint")
  /\ minted' = minted + 1
  /\ Becomes(p, [flow[p] EXCEPT !.acts["starter"].step = @ + 1, !.link = minted + 1])
  /\ UNCHANGED <<company, starters, schedule, site, clock, events, raced>>

\* The transaction looks again; a lost race answers with what the winner stored.
Seeded(p) == starters[flow[p].slug] # {}
KeepOwnLink(p) == SkipTo(p, "starter", 6)
AnswerStored(p) == Found(p)
CheckStarter(p) ==
  /\ Runs(p, "starter", "check")
  /\ IF Seeded(p) THEN AnswerStored(p) ELSE Onward(p, "starter")
  /\ UNCHANGED <<world, site, clock, events, raced>>

InsertStarter(p) ==
  /\ Runs(p, "starter", "rows")
  /\ LET s == flow[p].slug
     IN /\ starters' = [starters EXCEPT ![s] = @ \cup {flow[p].link}]
        /\ raced' = IF \E q \in Prompts \ {p} : flow[q].slug = s /\ Runs(q, "starter", "rows") THEN raced \cup {s} ELSE raced
  /\ Onward(p, "starter")
  /\ UNCHANGED <<company, schedule, minted, site, clock, events>>

----------------------------------------------------------------------------
(* deployLanding; publishSite in deployd, whose temporary file is named by *)
(* the process and so the same for every request of a slug.                *)

AskDeployd(p) ==
  /\ Runs(p, "deploy", "ask")
  /\ \E j \in Jobs :
       /\ job[j] = NoJob
       /\ job' = [job EXCEPT ![j] = [at |-> "open", by |-> p, slug |-> flow[p].slug, link |-> flow[p].link, fd |-> "none"]]
       /\ Becomes(p, [flow[p] EXCEPT !.acts["deploy"].step = @ + 1, !.job = j])
  /\ overlaid' = IF \E j \in Jobs : job[j].slug = flow[p].slug THEN overlaid \cup {flow[p].slug} ELSE overlaid
  /\ UNCHANGED <<world, page, tmp, clock, events, raced>>

\* The deploy this attempt asked for was answered.
Waits(p, j) == Runs(p, "deploy", "wait") /\ flow[p].job = j /\ job[j].by = p
HearDeployd(p) ==
  /\ Runs(p, "deploy", "wait")
  /\ ~Waits(p, flow[p].job)
  /\ Onward(p, "deploy")
  /\ UNCHANGED <<world, site, clock, events, raced>>

JobStep(j, at, fd) == job' = [job EXCEPT ![j].at = at, ![j].fd = fd]
OpenTmp(j) ==
  /\ job[j].at = "open"
  /\ tmp' = [tmp EXCEPT ![job[j].slug] = Torn]
  /\ JobStep(j, "write", "tmp")
  /\ UNCHANGED <<world, page, flow, clock, events, raced, overlaid>>

\* Through the file it opened, wherever a rename has put that file meanwhile.
WriteTmp(j) ==
  /\ job[j].at = "write"
  /\ LET s == job[j].slug
     IN IF job[j].fd = "tmp" THEN tmp' = [tmp EXCEPT ![s] = job[j].link] /\ page' = page
                             ELSE page' = [page EXCEPT ![s] = job[j].link] /\ tmp' = tmp
  /\ JobStep(j, "rename", job[j].fd)
  /\ UNCHANGED <<world, flow, clock, events, raced, overlaid>>

\* The rename takes the file with every handle on it; with no file left it fails, and the
\* attempt that waits for it.
RenameTmp(j) ==
  /\ job[j].at = "rename"
  /\ LET s == job[j].slug
     IN /\ page' = IF tmp[s] = None THEN page ELSE [page EXCEPT ![s] = tmp[s]]
        /\ tmp' = [tmp EXCEPT ![s] = None]
        /\ job' = [i \in Jobs |-> IF i = j THEN NoJob
                                  ELSE IF job[i].slug = s /\ job[i].fd = "tmp" THEN [job[i] EXCEPT !.fd = "page"] ELSE job[i]]
        /\ flow' = [p \in Prompts |-> IF tmp[s] = None /\ Waits(p, j) THEN Retried(flow[p], "deploy") ELSE flow[p]]
  /\ UNCHANGED <<world, clock, events, raced, overlaid>>

----------------------------------------------------------------------------
(* The owner's pause, resume and schedule; the backfill.                   *)

FillOvertaken(s) == fill.slug = s /\ ~fill.active /\ (fill.at = "pause" \/ schedule[s] = "none")
Click(kind, s) ==
  /\ call = NoCall /\ events < MaxEvents /\ company[s].owner # NoOwner
  /\ events' = events + 1
  /\ call' = [at |-> "clock", kind |-> kind, slug |-> s]
  /\ company' = [company EXCEPT ![s].active = IF kind = "schedule" THEN @ ELSE kind = "resume"]
  /\ muted' = IF kind = "resume" /\ FillOvertaken(s) THEN muted \cup {s} ELSE muted
  /\ UNCHANGED <<starters, schedule, minted, site, flow, fill, raced>>

SetRunningClock(s, to) == schedule' = [schedule EXCEPT ![s] = IF @ = "running" THEN to ELSE @]
SetClock(s, to) == schedule' = [schedule EXCEPT ![s] = IF @ = "none" THEN @ ELSE to]
Clock ==
  /\ call.at = "clock"
  /\ LET s == call.slug
     IN \/ call.kind = "pause" /\ SetClock(s, "paused")
        \/ call.kind = "resume" /\ SetClock(s, "running")
        \/ call.kind = "schedule" /\ schedule[s] = "none" /\ schedule' = [schedule EXCEPT ![s] = "running"]
        \/ call.kind = "schedule" /\ schedule[s] # "none" /\ schedule' = schedule
  /\ call' = NoCall
  /\ UNCHANGED <<company, starters, minted, site, flow, fill, events, raced, muted>>

\* Temporal is out of reach: the request is answered all the same.
ClockUnreachable ==
  /\ call.at = "clock" /\ events < MaxEvents /\ events' = events + 1
  /\ call' = NoCall
  /\ muted' = IF call.kind = "resume" THEN muted \cup {call.slug} ELSE muted
  /\ UNCHANGED <<world, site, flow, fill, raced>>

Backfill(s) ==
  /\ fill = NoFill /\ company[s].owner # NoOwner /\ events < MaxEvents /\ events' = events + 1
  /\ fill' = [at |-> "create", slug |-> s, active |-> company[s].active]
  /\ UNCHANGED <<world, site, flow, call, raced, muted>>
FillSchedule ==
  /\ fill.at = "create"
  /\ IF schedule[fill.slug] = "none"
     THEN /\ schedule' = [schedule EXCEPT ![fill.slug] = "running"]
          /\ fill' = IF fill.active THEN NoFill ELSE [fill EXCEPT !.at = "pause"]
     ELSE schedule' = schedule /\ fill' = NoFill
  /\ UNCHANGED <<company, starters, minted, site, flow, call, events, raced, muted>>
FillPause ==
  /\ fill.at = "pause"
  /\ SetClock(fill.slug, "paused") /\ fill' = NoFill
  /\ UNCHANGED <<company, starters, minted, site, flow, call, events, raced, muted>>

----------------------------------------------------------------------------
Activity(p, a) == Make(p, a) \/ ActivityEnds(p, a)
Starter(p) == LookForStarter(p) \/ MintProduct(p) \/ CheckStarter(p) \/ InsertStarter(p)
Founds(p) ==
  \/ UpsertRow(p) \/ Starter(p) \/ CreateSchedule(p) \/ AskDeployd(p) \/ HearDeployd(p)
  \/ \E a \in DOMAIN flow[p].acts : Activity(p, a)
Deployd(j) == OpenTmp(j) \/ WriteTmp(j) \/ RenameTmp(j)
Controls ==
  \/ \E s \in Slugs : (\E kind \in {"pause", "resume", "schedule"} : Click(kind, s)) \/ Backfill(s)
  \/ Clock \/ ClockUnreachable \/ FillSchedule \/ FillPause

FoundingNext ==
  \/ \E p \in Prompts : StartCreateCompany(p) \/ Founds(p) \/ \E a \in DOMAIN flow[p].acts : AttemptFails(p, a)
  \/ \E j \in Jobs : Deployd(j)
  \/ Controls

FoundingSpec == FoundingInit /\ [][FoundingNext]_foundingVars

\* Temporal and deployd go on with what they began; clicks and new prompts may never come.
Progress == (\E p \in Prompts : Founds(p)) \/ (\E j \in Jobs : Deployd(j))
FairFounding == FoundingSpec /\ WF_foundingVars(Progress)

----------------------------------------------------------------------------
(* Properties.                                                             *)

Needed == UNION {{Effects[a][i] : i \in 1..Len(Effects[a])} : a \in UNION {Activities(at) : at \in {"company", "provision", "record", "playbook"}}}

\* A company the ledger announces has everything CreateCompany promises, whatever was
\* retried on the way (workflows.ts:29-78): its parts, a clock and a page that is up.
AnnouncedIsWhole ==
  \A s \in Slugs : "created_event" \in company[s].made =>
    Needed \ {"row"} \subseteq company[s].made /\ company[s].owner # NoOwner /\ schedule[s] # "none" /\ page[s] # None

\* The page sells the product the catalogue has (activities.ts:286-345), and there is one
\* starter product, unless two attempts of one slug seeded or deployed together.
StorefrontSells ==
  \A s \in Slugs : /\ page[s] \in {None} \cup starters[s] \cup (IF s \in overlaid THEN {Torn} ELSE {})
                   /\ Cardinality(starters[s]) <= 1 \/ s \in raced

\* What is announced is whole, and its page sells what its catalogue has.
FoundedWhole == AnnouncedIsWhole /\ StorefrontSells

\* A company its owner left active has a clock that ticks, unless Temporal did not hear the
\* resume or the backfill had read the company as paused (index.ts:546-596, schedule.ts:120-133).
ActiveTicks ==
  \A s \in Slugs : company[s].active /\ schedule[s] = "paused" => call.slug = s \/ s \in muted

\* When no new prompt comes, every founding ends, with a company or an error.
FoundingEnds == <>[](\A p \in Prompts : flow[p].at \in {"idle", "done", "failed"})
=============================================================================
