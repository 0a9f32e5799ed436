# OpenCorp: specifications and proofs

TLA+ models of the parts of OpenCorp where money, authority and concurrency
meet, the TLC runs that check them on small instances, and TLAPS proofs of what
matters most for every instance. Source paths are relative to the repository,
line numbers are those of the modelled commit. `PROJECT.json` maps every
definition to its lines, and lists every run, mutant, hazard, finding and theorem.

To check a run: `tlc -config X.cfg M` with the configuration and module of the
table in section 3. To check the proofs of a module: `tlapm M.tla`.

## 1. The system

OpenCorp runs companies by themselves. A Temporal workflow wakes each company
once a day, an LLM "CEO" plans tasks, each task is run by a worker agent in a
sandbox, the worker acts on the world only through the tool gateway, and every
step is written to a public hash-chained ledger. Credits (an internal wallet per
conglomerate) pay for LLM calls; revenue (real money per company) comes in by
Stripe webhooks, refills the wallet, and goes out by withdrawals.

### Inventory

| Component (source) | State | Operations | Modelled in |
|---|---|---|---|
| Task runs (`workflows/src/taskWorkflows.ts`, `taskActivities.ts`) | `tasks`, `credit_entries`, open workflows | `TaskRun`: chargeTask, setTaskState, runWorker, reconcileTask, refundTask | `TaskRun` |
| Heartbeat and dispatch (same files) | caps, company status | runCeoPlanning, pickNextTask, executeChild, brief | `TaskRun`; planning in `CeoPlan`, `ModelCalls` |
| CEO planning, chat, lessons (`workflows/src/ceo.ts`) | task queue, mission, `lessons` | plan, chat, expire, reinforce, distil, promote, decay | `CeoPlan`, `Lessons` |
| Model calls (`packages/llm`) | none but the calls under way | route, retry, repair, degrade, department fan-out | `ModelCalls` |
| Treasury (`apps/gateway/src/payout.ts`, `revenue.ts`, `workflows/src/reinvest.ts`, `withdrawal*.ts`) | `payments`, `withdrawals`, `companies.real_balance_cents` | recordPayment, processWithdrawal and its workflow, reinvestRevenue | `Treasury` |
| Products and checkout (`apps/gateway/src/tools.ts`, `app.ts`, `providers/payments.ts`) | `products`, payment links, orders | create, delete, local checkout, webhook, Stripe key | `Shop` |
| Advertising (`apps/gateway/src/ads.ts`, `providers/ads.ts`, `tools.ts`) | `ad_campaigns`, `ad_spend`, monthly cap | budget gate, launch, set budget, sync, backstop, reallocation | `AdBudgets` |
| Subscriptions and grants (`apps/api/src/billing.ts`, `apps/gateway/src/billing-checkout.ts`) | `subscriptions`, keyed `credit_entries`, Stripe sessions | subscribe, grant cycle, checkout, webhook | `CreditGrants` |
| Owners (`apps/api/src/auth.ts`, `index.ts`, `apps/gateway/src/connect.ts`) | users, memberships, spend-guard hits, Connect account | sign-up hook, ownership, spend guard, onboarding | `Owners` |
| Tool gateway (`apps/gateway/src/app.ts`, `approvals.ts`, `packages/ratelimit`) | `rate_limit_hits`, `approvals`, autonomy, pause | tool call, park, resolve, expire | `ToolGateway` |
| Sandbox pools (`services/sandboxd`, `services/agentd/src/runtime.ts`) | CapacityGate, sandboxes | claim, execAgent under the wall clock, release | `SandboxPool` |
| Worker loop and its tools (`services/agentd/src/loop.ts`, `packages/mcp-client`, `apps/gateway/src/tools.ts`, `providers/browser.ts`) | the loop's context, mail rows, browser contexts | turn, call with retry, mail, mirror, browser, code | `WorkerLoop` |
| Deploy service (`services/deployd`) | files of a site | publish, deploy, status, read | `Sites`; its descriptors in `Founding` |
| Provisioning (`workflows/src/workflows.ts`, `activities.ts`, `schedule.ts`) | company row, repository, mailbox, site, schedule | CreateCompany, pause, resume, backfill | `Founding` |
| Ledger (`services/ledgerd`, live routes of `apps/api/src/index.ts`) | `ledger_events`: one hash chain | append, range, verify, redact, notify, page | `LedgerChain` |
| Web dashboard (`apps/web`) | rows on open pages | public ledger and live feed | readers in `LedgerChain` |
| Insights, traces | none | reports | not modelled (section 8) |

### How they interact, and what is hard

* The wallet is `SUM(delta)` of rows. Holds, reconciles, refunds, refills and
  grants only insert rows, from many processes and in several statements: a
  check of the balance is stale when the row it allows is inserted.
* An activity is a sequence of awaited statements that Temporal runs again from
  its beginning when any of them throws. "Idempotent under retries" is a claim
  about every prefix of it. One that timed out goes on beside its retry.
* The ledger append is on a connection of its own, after the row it announces
  or inside a transaction that may still roll back.
* Withdrawals talk to Stripe with idempotency keys; an attempt can outlive its
  timeout and run beside its successor; the account's capability can change in between.
* Stripe's webhooks are repeated until one is answered with 2xx, and copies overlap.
* One gateway process serves worker calls and owner clicks with an await
  between reading a status and acting on it. Most of its handlers are
  check-then-act: send caps, budget gates, browser sessions, mirrored mail.
* The capacity gate is an in-process semaphore whose waiters resume in a later
  microtask; the wall clock races the agent's own result.
* deployd writes several files per deploy, by rename, but under a temporary name
  that all deploys of one process share.
* The companies of one conglomerate learn into one lesson sheet, at the same
  hour, without transactions.

What makes each component correct is stated in section 4; `PROJECT.json`
"hazards" lists what is hard to test, each at its line.

## 2. Modules

| Module | Models | Instance | Proofs |
|---|---|---|---|
| `TaskRun` | task runs, wallet, heartbeat, owner | `MCTaskRun` | `TaskRunProofs` |
| `TaskBilling` | abstract: what one task is billed; `TaskRun` implements it | `MCTaskRun` | `TaskRunProofs` |
| `Treasury` | sales, refills, withdrawals | `MCTreasury` | `TreasuryAndPlansProofs` |
| `SandboxPool` | gate, three kinds of pool, runWorker's use of them | `MCSandboxPool` | `FoundingAndPoolProofs` |
| `ToolGateway` | rate limit, pause, autonomy gate, approvals | `MCToolGateway` | `GatewayAndToolsProofs` |
| `AdBudgets` | ad budgets, spend sync, backstop, reallocation | `MCCommerce` | `CommerceProofs` |
| `Shop` | products, payment links, orders, the Stripe key | `MCCommerce` | `CommerceProofs` |
| `Commerce` | composes the two above | `MCCommerce` | `CommerceProofs` |
| `CreditGrants` | plans, grant cycle, checkouts | `MCCreditGrants` | `CustomerAccountsProofs` |
| `Owners` | sign-up, spend guard, bank onboarding | `MCCreditGrants` | `CustomerAccountsProofs` |
| `CustomerAccounts` | composes the two above | `MCCreditGrants` | `CustomerAccountsProofs` |
| `LedgerChain` | appends, verification, readers | `MCLedgerCalls` | `LedgerCallsProofs` |
| `AppendLog` | abstract: a log that only grows; `LedgerChain` implements it | `MCLedgerCalls` | `LedgerCallsProofs` |
| `ModelCalls` | planning's and chat's calls of models | `MCLedgerCalls` | `LedgerCallsProofs` |
| `LedgerCalls` | composes the two above, the second for several setups | `MCLedgerCalls` | `LedgerCallsProofs` |
| `CeoPlan` | plans, chat, the queue, daily dispatch | `MCHeartbeat` | `TreasuryAndPlansProofs` |
| `Lessons` | the lesson sheets | `MCHeartbeat` | `TreasuryAndPlansProofs` |
| `Heartbeats` | composes the two above | `MCHeartbeat` | `TreasuryAndPlansProofs` |
| `Founding` | CreateCompany, clock, backfill | `MCFounding` | `FoundingAndPoolProofs` |
| `WorkerLoop` | agentd's loop, the client's retry, mail, browser | `MCWorkerLoop` | `GatewayAndToolsProofs` |
| `Sites` | deploys, visitors, what agents are told | `MCWorkerLoop` | `GatewayAndToolsProofs` |
| `WorkerTools` | composes the two above, the second for several slugs | `MCWorkerLoop` | `GatewayAndToolsProofs` |
| `Sums` | lemmas: finite sums, used by three of the proof modules | | itself |

The grain of a step is the code between two awaits that matter: a database
statement, a transaction, a ledger append, a call of a provider or of a handler.
Some definitions come with a neighbour that differs the way a slip in the code
would (`CanCharge` and `CanChargeAny`): no specification uses the neighbour. It
is substituted to see that the property named in "mutants" then fails.

Where a module composes two or three, these share no state, and the composition
is a choice at the start: a behaviour is of one part, and the others stay at
their initial state. `half` or `part` says which. `LedgerCalls` takes the setups
of `ModelCalls` as a parameter: its instance `Calls(n)` is the company set up as
`n` says, and what is proved of it holds for every way to set one up. The slugs of
`WorkerTools` are instances `Site(slug)` of `Sites` in the same manner.

**TaskRun.** `pc[t]` is the point TaskRun(t) has reached in the activity it
awaits, `attempt[t]` that activity's attempt. A fault restarts the activity at
its beginning, until `MaxAttempts`; then the failure goes to the catch block if
the activity is inside the `try`, else it ends the workflow (`Caught`). The
wallet is the sum of the rows, `charged`/`refunded` the sums per task that the
queries compute, `marker` the reconcile row; `events` sums the deltas announced
on the ledger. A manual Run starts the same workflow id and is refused while it
is open. `EditTask` is the owner's PATCH and the agents' task tools.
`ChargeRefused` is retried like any error, as in the code.

**Treasury.** `at[w][i]` is where attempt `i` of withdrawal `w` is in
processWithdrawal; `current[w]` is the attempt Temporal waits for. A timeout
starts the next attempt and leaves the old one running. `transfer[w]` is
Stripe's decision, replayed to every request with the key. A transaction is one
step (its row locks are held to the commit); `RecordAborts` and `ReinvestAborts`
are its rollbacks, which leave behind events already appended.

**SandboxPool.** `woken` holds the waiters whose promise is resolved and whose
continuation has yet to run. `emitted` is the terminal event of the agent, and
`Settles` what execAgent waits for: a race with the timer in process, the end of
the stream otherwise. `Finally` is the release in runWorker's `finally`; killing
a hosted sandbox may fail and is then left to E2B (`Reap`).

**ToolGateway.** One company. `hits` are rows with a time and `clock` the
database's. The prune after the insert is a random sample in the code and a
choice in the model. `executed`, `cut`, `sincePause` and `admitted` are history
variables. `Crash` loses every open request of the gateway.

**AdBudgets.** One company's campaigns over numbered days. `call[w]` is where a
gated tool call is between the budget gate's read, the provider and the row;
`sync[s]` where a heartbeat's sync is, and the month-to-date sum, the active
campaigns and the cap it read. Two syncs may overlap (a scheduled and a manual
heartbeat). The provider is LocalAds, whose spend is a function of budget and
day; MetaAds throws on every call, which is a fault.

**Shop.** `product[p]` follows create_product over its three calls at Stripe,
the row and the event, and delete_product from the deactivated link to the
deleted row. `key` is the account the company's secret opens when it is looked
up, at every step anew. `order[o]` is a customer who opened a link and may pay;
`handler[o]` the request that confirms it, repeated by Stripe until it succeeds.

**CreditGrants.** Days are numbered through the months of a small calendar, and
`addMonth` rolls over as `Date` does. A grant is keyed by plan and period start,
a top-up by Stripe's session. `cycle`, `owner` and `delivery` are the calls that
are open, each between its lookup and its insert.

**Owners.** `user[u]` is how far the first sign-in came through the hook
(conglomerate, membership, trial). `request[r]` is a guarded call (record the
hit, count, go through) or an onboarding (read the account, create one at
Stripe, store it, make the link). A conglomerate is named by the user it was made
for. One hour: no hit leaves a window.

**LedgerChain.** `writer[w]` is an append: take the advisory lock, read the head
and insert, notify and commit. A hash is the list of what was hashed, so equal
hashes have equal origins. A page takes a snapshot of rows, then looks up each
row it is notified of, in any order; `pager` follows `next`. Redaction replaces
a third party's address before hashing.

**ModelCalls.** `caller[i][n]` is the call planner `n` makes in attempt `i` of
the planning activity: tier, tries, repair, stand-in. An attempt that timed out
goes on beside its retry. Routing is the code's table over signals and wallet.

**CeoPlan.** `queue` is the open tasks in order of creation, each with priority
and age; near-duplicate titles are a constant. The heartbeat's planner and the
owner's chats go through the same steps: read, write tasks one by one, update
the mission, announce it. `Dispatch` takes the highest effective priority.

**Lessons.** `lessons` are rows with score, wins and the day of the last decay;
`learner[c]` is the company's heartbeat among reinforce, distil, promote, age;
`recorder[c]` a worker between its lookup and its insert. No transactions.

**Founding.** `flow[p]` is the workflow with its activities under way, each
retried from its start; `job` the requests deployd works on, which end whether
or not their caller is still there, with the descriptors they write through.
`raced`, `overlaid` and `muted` are history.

**WorkerLoop.** `worker[w]` is the loop's locals: the call awaited, the tries,
the results in context, the steps left. `copies[w]` are the copies of a call the
gateway works on: a reset after the request arrived leaves one behind the retry.
The model may ask for any call; without a model a script decides.

**Sites.** `job` is the request of each deployer (the founding and the workers);
a step opens or renames one file. `page.of` is the deploy a page comes from. The
slugs `acme` and `api` of `MCWorkerLoop` are a usual one and one of the control
plane's (`ControlPlanes`).

## 3. Runs

| Run | Expect | What it shows |
|---|---|---|
| `task_once` (`MCTaskRun`, `TaskRun_once.cfg`) | pass | tasks dispatched once each by the schedule, with two faults, patches, pause, a grant, midnight: billed at cost or made whole, limits held, refinement of `TaskBilling`, every run and heartbeat ends |
| `task_races` (`TaskRun_races.cfg`) | pass | owner's Run beside the heartbeat, re-runs, a fault: overdraft bounded, no task left running without a run |
| `task_lost_hold` (`TaskRun_lost_hold.cfg`) | violation | a hold whose ledger append fails is neither refunded nor used |
| `treasury_money` (`MCTreasury`) | pass | sales, two heartbeats, a withdrawal with a fault and a timeout: no cent lost or made up |
| `pool_slots` (`MCSandboxPool`) | pass | three workers share one slot of each kind of pool |
| `gateway_gate` (`MCToolGateway`) | pass | two concurrent calls of a gated, budgeted tool, a click, expiry, pause, a crash |
| `commerce` (`MCCommerce`) | pass | agents, owner and sync move ad budgets across a month's end; products are minted, sold and deleted while the Stripe key changes |
| `credit_grants` (`MCCreditGrants`) | pass | repeated and overlapping webhooks, lapsing plans, racing cycles; owners who sign up, spend and onboard |
| `ledger_public` (`MCLedgerCalls`) | pass | two processes append and abort while pages follow: one chain, an append-only log; planning and chat over failing models |
| `founding_whole` (`MCFounding`) | pass | two prompts found under one slug with retries, a slow deploy and the owner's clock |
| `heartbeat_plans` (`MCHeartbeat`) | pass | planning retried beside a chat; two companies learning into one sheet |
| `worker_tools` (`MCWorkerLoop`) | pass | two workers, resets and shared tools; deploys, a visitor and readers at one site |

The instances of `pool_slots`, `gateway_gate`, `commerce`, `credit_grants`,
`founding_whole`, `heartbeat_plans` and `worker_tools` stop by themselves when
their bounds are used up, so these runs do not check deadlock.

### Bounds and why they are enough

* `task_once`: two tasks of one company compete for one daily start and a wallet
  that funds two holds, so a cap, a refusal and a requeue all happen. Two faults
  over three attempts put a failure before, between and after the two writes of
  an activity. With fewer faults than attempts no activity fails for good by
  faults alone; the refused charge, which needs no fault, exhausts its attempts.
* `task_races`: two attempts and one fault, two runs per task: the owner's run
  overlaps the heartbeat's, and a second run follows a first one's reconcile.
  The wallet funds one hold: two runs that check together overdraw it by exactly
  the bound.
* `treasury_money`: two sellers, so that a refill drains two companies; a
  withdrawal that its company can only afford before a refill; two heartbeats
  that may read the same empty wallet; one fault and one timeout over two
  attempts. `ConcurrentDeliveries = FALSE` says that copies of one webhook are
  handled one after the other (they may still be repeated after an abort or a
  lost answer); section 5 says what happens otherwise.
* `pool_slots`: three workers on one slot: one holds it, one is woken, one waits
  or overtakes. Capacity 1 is where a lost wakeup shows.
* `gateway_gate`: limits of 1 per short and 2 per long window, three hits, and a
  clock that lets the short window pass and the long one fill; two calls so that
  both look for an open request before either inserts; one owner's click.
* `commerce`: three days over months of two. The model begins on the second
  (`FirstDay`), with a campaign launched on the first, so the month's sum spans
  several days and the month ends while a campaign runs; one campaign active and one that may be launched behind the
  sync's snapshot; caps of zero and of two days' spend. One product, two
  customers and two keys: one may hold a link of an account the next key has left.
* `credit_grants`: the second month is shorter than the first, so a period
  start rolls over; a session, a cycle, a subscribe and a delivery overlap. At the
  door two requests over two companies of one owner reach every ceiling.
* `ledger_public`: two writers and two appends with one fault: an abort between
  insert and commit, a lost answer, a retry; a page of two rows overflows. Calls:
  "wide" has two departments and two attempts that overlap, "deep" one department
  whose call is tried twice.
* `founding_whole`: one slug, two prompts of two conglomerates, two deploys at a
  time, three events in all (failures and owner's calls).
* `heartbeat_plans`: two titles that reword each other, a queue of two, one chat,
  two faults over two attempts. Learning: one insight, three rows (one per company
  and the shared one), two days, so that decay happens once and would show twice.
* `worker_tools`: two steps each, one reset, a cap of one message and one browser
  session, which two workers contend for. Sites: two deploys, three kinds of page
  (with a path that escapes, without an index), one visitor, one failure.

Counters and pools of model values (`MaxRuns`, `MaxFaults`, `MaxCalls`, `MaxHits`,
`MaxDay` and the others named "bounds" in the modules) appear only in guards, and
bound the environment or history. `MaxRuns` also appears in `PickTask`,
`HeartbeatEnd` and `ChildRefused`: a task that has used up its runs no longer
counts as queued, so that the loop may end.

## 4. What is checked

* **Bill** (`task_once`). `Billed`: a done task has paid what it cost
  (`NetChargeIsCost`), a failed one nothing, lost holds of its retries included
  (`MadeWhole`), and without faults the announced deltas add up to the rows
  (`LedgerMatchesWallet`). `BillsOnce` is the refinement of `TaskBilling`: held,
  settled once, or given back.
* **Dispatch.** `LimitsHold`: one task at a time per company and the daily cap,
  for scheduled heartbeats (the owner's Run is documented to bypass them).
  `DoneIsFinal`: no patch or late run takes a finished task back to the queue.
  `RunningHasRun` (`task_races`): a task is never `running` without a run, which
  would block its company for good. It relies on fewer faults than attempts:
  `setTaskState("failed")` that fails three times does leave the task running,
  and nothing repairs that.
* **Wallet.** `OverdraftBound`: chargeTask's check-then-insert can overdraw the
  wallet, by at most one hold for every other task.
* **Money.** `MoneyKept`: no balance is negative; every cent sold for is in a
  balance, in the wallet or in a withdrawal, as long as no attempt outlives its
  timeout (`ConservedInTurn`); each sale is credited once (`CreditedOnce`); no
  refund of a transfer that happened, even with timed-out attempts
  (`RefundedOrPaid`); refills from one stale reading stay bounded
  (`WalletBound`); no money moves unannounced (`EventsCover`).
* **Sandboxes.** `SlotsCounted`, `NoIdleSlot` (no lost wakeup), `PoolKept`: no
  isolated agent goes on after its worker is done unless its kill failed.
* **Gateway.** `RateBound`, over every window of the past and not just now;
  `PendingBound`: requests do not pile up beyond the calls that raced;
  `PauseHalts`: after a pause each open call runs at most the handler it was on
  its way to; `ResolvedOnce`: executed once, up to a crash between handler and
  record, and what was executed is approved, against expiries and rejects that
  come in between.
* **Advertising.** `AdSpendKept`: when the backstop has gone through its
  campaigns, what is active was launched after it looked; and what a sync added
  to the spend is announced, unless it failed or met another. `AdSpendStops`: a
  campaign that runs at the cap is paused in the end.
* **Sales.** `ShopKept`: a link a customer can open is of a product the books
  know; a listed product is for sale, outside the deletions section 5 describes;
  the balance is the paid orders' net, each once. `SalesArrive`: what was paid at
  Stripe reaches the balance, unless the product was deleted first.
* **Accounts.** `AccountsKept`: one grant per period and one top-up per session
  unless two calls looked before either inserted; no subscription stands in a
  period nobody paid out, except one cut between storing and granting; whoever is
  signed in has a conglomerate unless the hook threw; the ceilings of the spend
  guard hold over all companies together; one Stripe account per conglomerate,
  and the one its owner verifies is paid. `PaidIsCredited`.
* **Ledger.** `ChainVerifies`: every slice of the chain verifies and holds no
  third party's address. `ReadersSeeTheChain`: an answered append is stored, and
  twice only if an answer was lost; a live page has what was committed while it
  listened; paging reads each event once, in order. `LedgerIsALog` is the
  refinement of `AppendLog`. `AppendsEnd`: no lock outlives its transaction.
* **Model calls.** `CallsKept`: tiers within what the wallet and the cap allow;
  a frozen or freshly founded company makes no calls; the CEO decides over its
  own attempt's reports, all public; failing models cost no day. `CallsEnd`.
* **Planning.** `PlansApplyOnce`: no planner's retry or later plan queues what is
  open already; the mission is the one on the ledger. `PlanningNeverBlocksHere`:
  whatever planning does, a funded company keeps running its open tasks.
* **Learning.** `LearningKept`: a lesson is there once and leaves only by fading,
  unless writers crossed between lookup and write; the shared sheet ages by days,
  not by heartbeats.
* **Founding.** `FoundedWhole`: what the ledger announces has all its parts, a
  clock and a page that sells a product of the catalogue; one starter product
  unless attempts raced. `ActiveTicks`: a company its owner left active ticks.
  `FoundingEnds`.
* **Workers.** `ToolsKept`: the daily cap on mail, carried out as the model decided
  even over resets, every browser context a session's, every message mirrored
  once; `LoopsEnd`. `SiteKept`: no half page and no unstyled one after an answered
  deploy, an honest status, and the page that is served is one somebody was told of.
* `EverythingEnds`, `WithdrawalsEnd`, `EveryoneServed`, `ApprovalsEnd`: every run,
  heartbeat, withdrawal, worker and request ends.

Several properties leave out a case that a history variable tracks (`raced`,
`crossed`, `clashed`, `met`, `overlapped`, `muted`): two handlers between the same
check and act. The property says that nothing else breaks it, for instance no
retry, crash or repetition. Section 5 says what the race itself does.

### Fairness

Only what the program, or a service it relies on, schedules itself:

* weak fairness of the steps of a workflow Temporal has started (`RunTask`,
  `HeartbeatStep`, `ProcessWithdrawal`, `SyncStep`, `Planning`, `Chatting`,
  CeoPlan's `StartAttempt \/ GatherContext`, `Step(Heartbeat)`, `Dispatch` and
  its `NextDay`, Founding's `Progress`), of the event loop's continuations and timers
  (`RunWorker`, `Expire` of `SandboxPool`, `Loop`, `Handle`) and of an append past
  its lock (`AppendStep`);
* weak fairness of the passing of an approval's time to live and the heartbeat of
  some company, which expires every company's stale requests (`ToolGateway`);
* Stripe redelivers until it hears 2xx: weak fairness of `DeliverEvent` and of its
  handler, strong fairness of `Deliver` for a paid session, because one delivery
  at a time is open and others may take the place;
* strong fairness of `AcquireLock`: Postgres queues waiters of an advisory lock,
  while the lock is taken and given back by others again and again.

Owners, customers, sales, faults, models' choices and cron times owe nothing. The
grant cycle has no fairness: nothing in the repository calls it. The agent of a
sandbox is not fair: a hung agent is ended by the wall clock. `Lessons`, `Sites`
and `Owners` are checked for safety only.

## 5. Where the code disagrees with its comments

`task_lost_hold` is a run and a finding. taskWorkflows.ts:5 promises a "full
refund on any failure"; when the ledger append after the hold fails
(taskActivities.ts:121), the retry is refused for lack of the credits its own
hold took, outside the `try`, with nothing refunded (`FullRefund`).

The others are not runs: a model's guard, history variable or bound leaves the
case out of the property, as said in section 4.

**Tasks and money**
* The reconcile marker is per task: a second run is never reconciled
  (taskActivities.ts:139). A task created with org.create_task has priority 0 and
  skips the dedupe, which `llm/ceo.ts:39-41` says was the cause of stuck tasks.
* A retried withdrawal whose account lost its capability is reported failed while
  its reserve stays debited, and a paid one can be: the pre-flight comes before the
  lookup of the row (payout.ts:54). startWithdrawal mints an id per call, so its
  workflow id dedupes nothing; a 429 or 409 from Stripe counts as final (payments.ts:48).
* recordPayment's duplicate check is a SELECT with no unique index behind it
  (revenue.ts:31): two copies handled at once both credit.
* The result event of an isolated agent carries no cost (runtime.ts:29): in
  subprocess and hosted sandboxes every task reconciles to 0.
* A manual heartbeat is not covered by the schedule's overlap policy.

**Gateway and sandboxes**
* Two overlapping approvals of one request both execute it (approvals.ts:130). A
  refused call counts towards the limit, so the reset time it is told holds only
  if it stays away.
* A claim that overtakes a woken waiter takes the pool past its capacity. A hosted
  sandbox whose bundle fails is left running until its lifetime ends; the failed
  bundle's promise is cached for good (e2b.ts:176-187).

**Advertising and sales**
* A cap of 0 is "ads off" in tables.ts:186, index.ts:413 and providers/ads.ts:64;
  the backstop reads it as no cap (ads.ts:111, `capCents > 0 &&`).
* app.ts:555 and taskActivities.ts:565 call retries of the sync safe; the spend a
  failed sync has stored is never announced, overlapping syncs announce the same
  increase twice (ads.ts:67), and syncing again after a change re-prices past
  days (ads.ts:73-74). Pausing the company stops cap enforcement.
* Deleting a product that was sold or advertised deactivates its link at Stripe
  and then fails on the foreign key (tables.ts:384, 406): it stays listed and dead.
  An order that is paid around a deletion is never recorded: the insert fails on
  every redelivery, while payments.ts:99-102 counts on metadata as a backup.
* app.ts:263 says Stripe mode never hits the local checkout; products minted before
  the key keep selling through it, and cannot be deleted once a key is set.
* Sales by webhook carry no campaign, so reallocation sees no revenue for them.

**Accounts**
* billing.ts:98-100 calls overlapping grant cycles no-ops; both look for the grant
  before either inserts it (115-116), and 127 writes back a row that may be stale.
  addMonth rolls a 31st into the month after next. subscribe stores the plan before
  it grants (87, 91): when the grant fails, a repeated call sees an active plan.
  Nothing calls the cycle that would make up for it.
* auth.ts:9-11: "every authenticated user can immediately create companies"; the
  hook is three statements without a transaction, and does not run again.
* connect.ts:11: "Onboarding is idempotent"; two calls at once, or a failure between
  Stripe's answer and the store, make two accounts (103-113).

**Planning, models, lessons**
* "Nothing can starve" (taskActivities.ts:537-538), but the age boost stops at +10:
  work planned daily ten levels above an old task stays above it.
* A chat beside a heartbeat may queue near-duplicates; an attempt that dies between
  the mission's update and its event leaves the mission off the ledger for good.
* A planning attempt that is retried re-applies score and win (ceo.ts:312, 406);
  two companies that promote at once duplicate a shared lesson (418-420); merging
  into a shared row that fades meanwhile loses the lesson.
* router.ts:10-12 says routing composes with the company's tier shift; only workers
  pass one (taskActivities.ts:257). The budget cap reads the balance gathered before
  the refill.

**Founding and sites**
* index.ts:379 founds "in the session user's conglomerate"; ON CONFLICT (slug)
  (activities.ts:53) hands the prompt an existing company of any conglomerate. A
  retry between minting and storing mints a second Stripe product (activities.ts:294-296).
  A resume Temporal does not hear is swallowed (index.ts:570-574), and the backfill
  may pause what was resumed meanwhile.
* publish.ts:10 "never serves a torn page": the temporary name is per process, so two
  deploys of one site write through it together. `/exists` is true from the first
  mkdir on, and for every control-plane name (server.ts:70-80), which
  tools.ts:351-353 takes for "deployed". A path that escapes stops a deploy after
  the files before it. A retried founding overwrites a worker's page.

**Workers**
* client.ts:20-23: "A reset never hit the server, so retrying it is safe and
  idempotent"; a reset after the request arrived runs the call twice.
* loop.ts:188 looks for `_meter` in what client.ts:43 has wrapped into `result`:
  a server-side metered tool never adds to the task's cost.
* The send cap is check-then-act, replies have none, and a message that was sent but
  not recorded does not count. Two calls of one task that open a browser session
  together leak a context. The mirror's INSERT ... WHERE NOT EXISTS can race.

**Ledger**
* live/page.tsx:26: "Every move ... as it happens"; the global page starts with the first
  50 events (data.ts:727), not the last; frames may be out of order, and nothing is
  replayed after a reconnect. The hash does not cover actor, type and company.
  ledger-feed.tsx:48 compares a company id with a slug. The checkpoints of
  OPENCORP_SPEC.md:369 do not exist.

## 6. What is proved

For every value of the constants that satisfies the module's assumption, and the
extra hypotheses named here. Each proof goes by an inductive invariant.

| Theorem | Says | Under |
|---|---|---|
| `TaskRunProofs!TypeCorrect` | `TypeOK` | |
| `TaskRunProofs!OverdraftBounded` | `OverdraftBound` | |
| `TaskRunProofs!BilledOnce` | `Billed` | `OnceAssumed`: one run per task, fewer faults than attempts |
| `TaskRunProofs!BillingImplemented` | `BillsOnce` | `OnceAssumed`, a hold that is not zero |
| `TaskRunProofs!LimitsAreHeld` | `LimitsHold` | `ScheduleOnly`: one scheduled heartbeat per company, no manual Run |
| `TaskRunProofs!RunningIsDriven` | `RunningHasRun` | `FewFaults`: fewer faults than attempts |
| `TaskRunProofs!DoneStaysDone` | `DoneIsFinal` | both |
| `TreasuryAndPlansProofs!MoneySafe` | `MoneyKept` but for `CreditedOnce` and `ConservedInTurn` | |
| `TreasuryAndPlansProofs!MoneyIsKept` | `MoneyKept` | deliveries of one payment take turns |
| `TreasuryAndPlansProofs!PlansAreAppliedOnce`, `LearningStaysKept` | `PlansApplyOnce`, `LearningKept` | |
| `FoundingAndPoolProofs!SlotsAreCounted`, `NoLostWakeup`, `PoolStaysKept` | `SlotsCounted`, `NoIdleSlot`, `PoolKept` | |
| `FoundingAndPoolProofs!FoundedIsWhole`, `ActiveKeepsTicking` | `FoundedWhole`, `ActiveTicks` | |
| `GatewayAndToolsProofs!RateHolds`, `PauseHolds`, `RequestsAreBounded` | `RateBound`, `PauseHalts`, `PendingBound` | |
| `GatewayAndToolsProofs!ResolvesOnce` | `ResolvedOnce` | `OneClick`: clicks do not overlap |
| `GatewayAndToolsProofs!ToolsStayKept`, `SiteStaysKept` | `ToolsKept`, `SiteKept` | |
| `CommerceProofs!AdSpendStaysKept`, `ShopStaysKept`, `CommerceIsKept` | `AdSpendKept`, `ShopKept`, and both of the composition | |
| `CustomerAccountsProofs!AccountsStayKept` | `AccountsKept` | |
| `CustomerAccountsProofs!GrantsStayKept`, `SpendStaysGuarded`, `OneAccountEach`, `HomeStays` | its parts, each of its own module's specification | |
| `LedgerCallsProofs!ChainIsLinked`, `EveryVerifyPasses` | `ChainLinked`, `ChainVerifies` | |
| `LedgerCallsProofs!ReadersSeeOneChain` | `ReadersSeeTheChain` | |
| `LedgerCallsProofs!LedgerImplementsLog` | `LedgerIsALog` | |
| `LedgerCallsProofs!CallsStay` | `CallsKept` | |

The hypotheses are the ones the runs' instances have too; without them the
property fails as section 5 says, or as for `FewFaults` in section 4.

* **Overdraft.** The bound alone is not inductive. `Covered` counts the runs that
  have passed the check and have not inserted yet (`Pending`): with `k` tasks at
  `hold`, the wallet plus the overruns is at least `-(N - 1) * Estimate` plus `k`
  holds still to come; a check that passes has `wallet >= Estimate`, and at most
  `N - 1` others are at `hold`. It uses `FiniteSetTheorems`.
* **Bill.** Where a run is tells what it has billed so far (`Bill`), an attempt
  above 1 was paid for by a failure (`Attempted`), and until the first failure what
  is not on the ledger yet is what is about to be appended (`Traced`). For the
  refinement, `PhaseInv` relates `pc` to the abstract phase; every step maps to a
  `Hold`, `Settle`, `Refund` or a stutter.
* **Dispatch.** The limits are checked long before the task is marked running.
  An open run is the child some heartbeat waits for (`Driven`), so that heartbeat
  picks nothing else; while it has picked or waits, no other task of its company
  runs (`Alone`) and there is room for the one it picked (`RoomLeft`).
* **Pool.** `GateInv` adds to the two properties that whoever is queued is waiting
  (`QueuedWait`) and is queued once, in one of the two queues (`QueuedOnce`):
  without that, a woken waiter might hold a slot already and be counted twice.
  `AgentInv` says whose agent may be alive.
* **Founding.** `FoundInv`: what an activity has behind it lasts. Each effect of an
  activity before the step its attempt is at has happened to the company
  (`Effected`), and so have all effects of the activities that returned and of the
  stages before (`Kept`); nothing takes them back, so a retry, which begins at the
  first step again, and an attempt that outlived its timeout only repeat them.
  That is why an announced company is whole. For the page, a request of deployd
  carries a link of the catalogue (`JobsKept`), an attempt that waits for one has it
  or a page is up (`Waited`), and while a slug's deploys do not overlap one request
  alone writes its temporary file (`FilesKept`); `Seeds` says that who is about to
  insert the starter product found none. `ClockInv` says what a call of the owner and
  the backfill have read and not yet told Temporal. The first attempt at it showed an
  assumption to be missing that every instance satisfies: no id is the word that
  stands for having none (`FoundingAssumption`).
* **Gateway.** `RateInv`: a call that counts has its own hit among the rows, made
  now (`OwnHitCounted`), and no admitted hit that a window can reach has been
  pruned (`AdmittedKept`). `PauseInv`: who is past the pause check. `PendingInv`:
  a look that passes found none open, and each insert uses up one call that is
  about to insert. `ClickInv`: a click about to execute finds nothing unrecorded.
* **Sites.** `SiteInv`: while a request is open its last file is the stylesheet, and
  once no file is left the stylesheet is there (`RequestKept`), so whoever comes
  after an answer finds it; two requests at one file are remembered as having
  clashed, which alone can leave half a page; and the page is of a deploy whose
  call runs, or that the ledger, its failure or a lost event tells of (`Origins`):
  an end of a call never takes its deploy out of these without putting it into
  another.
* **Workers' tools.** `ToolInv`: copies of calls at work are counted by what they
  are and where they stand, and a waiting worker has one copy at most that it still
  awaits, of the very call it waits for; the others are what resets left behind.
  What the story owes covers the mail that copies have not delivered. Unless two
  handlers crossed, one send at most is between the cap's check and its row
  (`MailInTurn`), one message is about to be mirrored and not there yet
  (`InboxInTurn`), and one context is about to be opened for a task without a
  session and with room for one (`BrowserInTurn`).
* **Plans.** A planner that is inserting has among the titles it holds open all it
  queued that is open still, whatever was taken off the queue since it looked
  (`OpenSeen`), so a retry, which looks again, adds nothing near to them. The
  mission a heartbeat is about to announce is the one it set (`PatchIsMission`):
  chats leave the mission alone.
* **Lessons.** `LearnInv`: what a learner or a worker is about to insert is on none
  of its company's rows; a candidate is an active row of the company, the one in
  hand no longer among the rest; what a learner merges into is a shared row of the
  same text, active, and what it promotes is not shared (`Placed`, `Recorder`), all
  unless another wrote after the same lookup (`crossed`). So a retired row has
  faded or lives on in the shared row it was merged into. The decay by days is a
  recursion, whose table is shown to exist by induction; for zero days it leaves
  the score as it is, which is why two companies on one day age the sheet once.
* **Money.** A withdrawal's row and Stripe's decision say how far any attempt of
  it may still go, the ones that timed out included (`AttemptInv`, `RowInv`); a
  webhook past its duplicate check is the only one of its payment while deliveries
  take turns (`CreditInv`); a heartbeat that saw the wallet low may still add what
  it then lacked, so that room counts against the wallet's limit from its reading
  on (`RefillInv`). Revenue is a sum over sales less a sum over withdrawals, and
  every step moves one summand (`ConservedInductive`).
* **Advertising.** `BackInv` follows each sync past its reading: what is active is
  what it found and has not paused yet, or was launched since. For the audit, the
  one sync that mirrors the spend has added at most what the month has grown by
  since its first read, and a sync that began last month adds nothing to this one.
  The attempt at this proof found the history variable too forgiving: a sync that
  failed anywhere reset it, so that the failure of one hid what another owed.
  `SyncFails` now resets it only for a sync that fails while it mirrors the spend.
* **Shop.** Keys are replaced and never taken away (`Keyed`), so a deletion that
  reaches the row was carried out by an account of Stripe (`ProductInv`). The till:
  what is recorded as paid is of a listed product and of a visit that paid, and
  what was sold is never deleted; the balance is a sum in which a confirmation
  adds one summand.
* **Grants.** The calendar is a recursion over the months. It is shown to exist by
  a sum, so that a month on is later and a period advances. Of a period that no two
  calls raced for, at most one call is about to insert its only grant; a run that
  has passed a period has found or inserted its grant, and an event that was
  answered is credited. That last part is what makes the covered periods inductive.
* **Owners.** `SpendInv`: calls through and calls counting are at most the hits;
  a call that counts has its own hit among them. `BankInv`: who holds which
  account between creation and store; while one onboarding is open nothing is
  stored, and once something is stored none is open.
* **Ledger.** `ChainInv`: only the holder of the lock is between reading the head
  and its commit (`LockHeld`), so the row it is about to commit still fits the head
  it was made from (`RowFits`). The rows of a linked chain are numbered by their
  places, so a range is a slice of it and verifies chunk by chunk, each chunk
  anchored at the last hash of the one before. `CallsInv` follows an append through
  its retries, `PagerInv` a client from page to page, `WatchInv` what an open page
  has heard. For the refinement, each commit appends one entry to the abstract log
  and every other step stutters.
* **Model calls.** `PlanningInv`, of one setup: a planner that was asked was asked
  on a tier within what its attempt read of the wallet, for an attempt that was
  free to plan (`Routed`); a department that is done has its report among the
  public ones, the CEO is asked only when all of its attempt's are, and attempts
  after the one awaited have not begun (`AheadUnplanned`). Attempts share only the
  public events, which grow, so a step of one leaves the others' parts alone.

Sums. `Treasury`, `Shop`, `AdBudgets` and the calendar fold functions, and the laws
of a fold need induction over the size of a set. The library's induction theorems
take an operator as a parameter, which the provers cannot instantiate; its
statement that `<` is well founded on the naturals does not, and `Sums` derives
from it what is needed: the fold's CHOOSE has a witness, every order of summands
gives the same sum, and one summand changes, is added or is bounded. What a
particular recursion computes is proved in the same way, one lemma each.

Only model-checked:

* liveness under fairness, and what needs `ENABLED`, which the prover does not do.
  The safety and action properties of the passing runs are all proved.

No module has a RECURSIVE operator; what is recursive is a recursive function.

## 7. Abstractions

* pickNextTask's SELECTs are one step in `TaskRun`: within one heartbeat nothing
  depends on the order of the answers. Which queued task comes first is left open
  there and decided in `CeoPlan`.
* `TaskRun` sees of planning that the heartbeat goes on when it ends or fails; what
  it queues is `CeoPlan`'s, what it calls `ModelCalls`'. `ToolGateway` sees of a
  handler that it ran, and its budget gate may answer either way; `AdBudgets`,
  `Shop`, `Sites` and `WorkerLoop` model the handlers.
* TaskRun has no attempt that outlives its timeout: its activities are short
  statements with a five-minute limit. Withdrawals, planning and founding, which
  wait for outside services, have them.
* Amounts, scores and priorities are small integers; rounding of costs is left out,
  cents are exact.
* Stripe decides a transfer once per key. A 429 or 409 for a request it has not
  decided is not modelled.
* The rate limiter's clock does not tick between the insert of a hit and the
  count that follows. Windows are hours, the gap is one round trip.
* An approved action runs whatever the pause says by then: it is the owner's own
  decision, and the code does not look.
* Two lessons are the same when their texts are (embeddings off); two titles are
  near-duplicates when the constant says so; a hash stands for what was hashed.
* Time passes where a property needs it: days in `AdBudgets`, `CreditGrants`,
  `CeoPlan` and `Lessons`, ticks in `ToolGateway`. Elsewhere it does not.

## 8. Not modelled

* Insights and traces: read-only reports, and tracing that is best effort.
* Prompts, provider bundles and the models' words: what a CEO plans and a worker
  does are choices from a set.
* Adapters without state of their own: Forgejo, Umami, Caddy, MinIO, OAuth and
  sessions (better-auth's), the vault's encryption, MCP transport beyond the retry.
* The documents, company database, domain and research tools: one statement or one
  outside call each. deployd's card rendering, page templates, custom domains and
  the linter beyond the stylesheet's link: pure functions of text.
* The dashboard's pages other than the ledger's: each shows what one query answers.
  Its writes are the owner's actions of the other modules.
* The in-memory rate limiter (used without a database) and the mail that tells an
  owner of an approval.
* Migrations are generated from the schema; of the tables, those the modules name.

## 9. What is left

In this order, for whoever goes on:

1. A Stripe that answers 409 and 429 in `Treasury`.
2. `AdBudgets` and `ToolGateway` in one instance, with the budget gate of the former
   in place of the latter's free choice.
