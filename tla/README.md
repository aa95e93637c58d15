# A verification project for jobifai

jobifai is a Go server (SQLite, Stripe, LLM providers, a headless browser) that
finds jobs, evaluates them with a language model, prepares documents and submits
applications for its users, and charges credits for what it does.  This directory
holds TLA+ modules that model its concurrent core, TLC configurations that check
them on small instances, and proofs that TLAPS checks for all values of the
constants.  `PROJECT.json` lists components, runs, mutants, theorems, hazards and
the source lines every definition stands for.

## How to read the modules

* One module per component, named for it: the state is its `VARIABLES`, each
  operation is an action, and a step is the longest piece of code no other
  goroutine can interrupt: one SQL statement outside a transaction, one SQL
  transaction, or one critical section of a mutex.
* `X_proofs.tla` proves theorems about `X.tla`; `MCX.tla` gives its constants
  values for TLC; each `.cfg` is one run.
* A definition that starts with the comment "Mutant of" is not part of the model:
  it is the definition it names with a plausible bug, and the property listed
  with it in `PROJECT.json` fails when it takes that definition's place.

## The system and its parts

| part | state it keeps | operations | modelled in |
|---|---|---|---|
| quota (`internal/quota`) | one `user_quota` row per user; automation sessions in memory (`Service.sessions`) | preflight checks, transactional burns, top-ups, session begin and settlement, subscription updates, repair, an administrator's overrides | `QuotaRow`, `QuotaService` |
| billing (`internal/billing`) | `stripe_webhook_events` (a claim with a lease), `stripe_credit_grants` | claim, process and finish an event; admin reconcile | `StripeWebhook`, `ExactlyOnce` |
| retention (`internal/retention`) | in memory: per user a count of work guards and an eviction flag; on disk: exported files and rendered blobs | `BeginWork` and its end, `WithEviction`, passes over exports and artifacts | `ActivityCoordinator`, `Retention` |
| documents (`internal/documents`) | content versions, links to rendered artifacts, defaults, blobs | save, render, charge, link, choose, delete; materialise for an application; select and prepare for a review | `DocumentLibrary`, `ReviewDocuments`, `ApplicationDocuments`, `Retention` |
| bot manager (`bot/manager.go`, `bot/bot.go`) | one entry per user and platform: running, paused, cancel, run id, log | start, pause, resume, stop, a run from login to end, submissions beside it | `BotManager` |
| browser meter (`bot/browser_meter.go`) | a ticker, a bucket index, a failure | activate, tick, deactivate, stop | `BrowserMeter` |
| applications (`bot/*.go`, `handler/jobs.go`) | `jobs_applied`, `jobs_pending_review`, `jobs_blocked`, evaluation failures, `application_attempts` | search, evaluate, retry, approve, apply from an address, recover at start | `JobTables`, `Applications` |
| application forms (`bot/form.go`, `easyApply`, `seekApply`, the scans for a review) | loop counters; the documents chosen so far | open, fill a page, move on, submit, confirm; or only prepare | `ApplyForm`, `ApplicationDocuments` |
| resource metering, usage ledger (`internal/resource`, `internal/usage`) | event tables with unique idempotency keys | record a charge in the transaction that burns it | `QuotaService`, `BrowserMeter` |
| LLM calls and reuse (`internal/llm`, `internal/llmreuse`) | a request ledger with leases | claim, heartbeat, take over, wait, call, charge, publish | `LLMReuse`, `OneCall` |
| evaluation and model policy (`internal/eval`, `internal/llmpolicy`) | runs, candidate rows, approved policies with an audit | run candidates under a budget, recommend, approve, roll back, resolve | `EvaluationRun`, `ModelPolicy` |
| accounts (`internal/auth`) | users, refresh tokens, tokens that are mailed | register, sign in, refresh, reset, verify, change the address, delete | `Accounts`, `MailedLinks` |
| other handlers, database access, configuration, browser sessions, résumé text, email, live log, server process, web client | settings, catalogues, Chrome profiles, text | lookups, transformations, wiring | - |

All durable state is one SQLite database in WAL mode with four connections and a
busy timeout (`internal/db/db.go`), plus files under one root.  SQLite serialises
writers, so a statement or a transaction is one step; what the code reads in one
statement and writes in another is two.

How they meet: handlers call the bot manager, documents, billing and accounts, each
request on a goroutine of its own.  The manager runs one bot goroutine per user and
platform; it shares the meter and the job tables with submissions.  Runs, submissions
and previews charge through resource metering and the usage ledger, which burn the
quota row in the transaction that records the charge.  Document work takes the
retention guard; clean-up takes the eviction flag.

### Where it is hard, and what makes each part correct

* **Quota.**  Burns run in one transaction, but settlement, subscription updates,
  enforcement, the customer id and repairs read the whole row and write it back, and
  charges and writers alike apply to it the user's overrides, read at another time.
  Correct means: a charge takes exactly its credits, beyond the balance only in a
  session; it never takes a month past the grace allowance.
* **Billing.**  Stripe delivers events late, twice, concurrently and in any order;
  the server can die between claim, effect and finish; a lease can run out under a
  slow handler.  Correct means: no acknowledged event without its effect, every paid
  pack credited once, the row in the end saying what Stripe says.
* **Retention.**  Clean-up deletes files and blobs while submissions make them and
  handlers edit the lists that protect them.  Correct means: exclusion at every
  nesting without deadlock, no document a row names lost, work in flight kept.
* **Documents and reviews.**  A version's row, PDF, charge, link and default are five
  statements; a preparation takes minutes and ends in an unconditional update.
  Correct means: nothing readable that nobody paid, what can be approved is complete,
  the preview says what the preparation does.
* **Bot and meter.**  One run per user, with requests that race with its start and
  end, and charges taken ahead by a ticker.  Correct means: one run at a time, work
  is metered, each increment billed under a key of its own, a stop ends the run.
* **Applications.**  The run, approvals and pasted addresses reach one posting under
  different ids; click and record are separate steps, and the server can die between
  them; a tab is read minutes after it was loaded.  Correct means: no second click
  beside one that may still go out, no click forgotten, no posting in no list.
* **Forms.**  Pages arrive late, take no answer or never move on; five counters tell
  slow from stuck.  Correct means: preparing never sends, "failed" means unsent, the
  chosen documents go out, a form that behaves gets through, none keeps the bot.
* **LLM calls.**  A claim is a lease that lapses under a call in progress.  Correct
  means: one content is charged and published once and every call returns.
* **Evaluation.**  Workers share a budget through reservations; calls may have no price
  yet, or take several requests.  Correct means: what is reckoned with stays within the
  budget, what is approved answered every case it was asked, a rollback undoes the newest
  decision, every run ends.
* **Accounts.**  Links are opened late, twice, concurrently and after newer ones.
  Correct means: a link has its effect once and only while it is good, an address
  counts as verified only when somebody confirmed it, who keeps asking gets in.

`PROJECT.json` lists the concrete hazards at their lines, with the properties that
cover them or the reason none does.

## The modules

```
QuotaRow --- QuotaService --- MCQuotaService                    Quota, DebtSettledTwice
   |             \-- SharedState_proofs
   \-------- StripeWebhook --- MCStripeWebhook                  Webhook
                 |- implements ExactlyOnce
                 \-- StripeWebhook_proofs
ActivityCoordinator --- Retention --- MCRetention               Retention
                           \-- SharedState_proofs
LLMReuse --- MCLLMReuse                                         LLMReuse
   |- implements OneCall
   \-- LLMReuse_proofs
BrowserMeter --- BotManager --- MCBotManager                    BotRun
                    \-- BotManager_proofs
JobTables --- Applications --- MCApplications                   Applications
                   \-- Applications_proofs
ApplicationDocuments --- ApplyForm --- MCApplyForm              ApplyForm
                             \-- ApplicationDocuments_proofs
DocumentLibrary --- ReviewDocuments --- MCReviewDocuments       ReviewDocuments, PrepareOverwritesSelection
                             \-- ApplicationDocuments_proofs
EvaluationRun --- ModelPolicy --- MCModelPolicy                 ModelPolicy
                    \-- ModelPolicy_proofs
Accounts --- MCAccounts                                         Accounts
   |- implements MailedLinks
   \-- Accounts_proofs
```

A line is `EXTENDS`; `ReviewDocuments` also extends `ApplicationDocuments`.  The
`TypeOK` definitions document the types of the state.

**QuotaRow** is the credit row as a record and everything the quota service computes
from one: `TotalRemaining`, `ApplyBurn`, `StrictBurnAllowed`, `AppliedUpdate`.  No
behaviour, so that the modules that write rows share one translation.

**QuotaService** is one user's row under concurrent goroutines.  `pc` says where a
goroutine is between two statements and `loc` what it read.  `PrepareBurn` and
`CommitBurn` are the two halves of a charge (`PrepareTransactionalBurnStrict`, and
the transaction of `resource.RecordOnce` or `usage.Ledger.Record`);
`BurnRollback` is a transaction that fails after the in-memory session was told.
`GetRow` reads the row and `Effective` applies to it the overrides that hold at the next
statement; what an operation computes from both is written back whole by `WriteRow`.  A
charge applies the overrides of its `PrepareBurn` to the row of its transaction and writes
them with it (`BurnRow`).  `SaveUserOverrides ... SetEnforcement` is the administrator's
`PUT /api/admin/users/{id}`, statement by statement.  `RowWriters` says which whole-row
writers a run contains; `peak` and `overridden` are history variables: the highest allowance the
row ever had, and whether an override of it was ever saved.

**StripeWebhook** is the webhook processor.  A worker is one delivery in progress, or
one admin reconcile.  `status` and `lapsed` are the event's row and whether its
lease has run out, a step of its own.  A history, chosen in `Init`, says what
happens at Stripe and when, which events it sends, and how many deliveries, failures,
crashes and reconciles may occur; an invoice handler fetches the subscription and
may see a later state than its event.  The user has no overrides here.  **ExactlyOnce** is the promise about paid
packs: credited once, acknowledged only after that.

**ActivityCoordinator** is the lock of the retention package.  The polling loop of
`waitWhileLocked` is an action that is not enabled yet; an expired context is an
action of its own.  **Retention** uses its actions inside its own: a task is one
submission, preparation or document write, an evictor one clean-up with the index it
read (which may be stale when it is used), `HandlerStep` the handlers that edit lists
and policy and take no guard.  Statements and file operations may fail.

**LLMReuse** is `llm.Client` through `llmreuse.Store` for one content: `Begin` with
its rounds of read, insert and takeover, the heartbeat that renews the lease, the
wait for another holder, and charge, publication or failure at the end.  A call with
an image takes no part in reuse.  **OneCall** is the abstract content: charged,
then published, then told.

**BrowserMeter** charges active minutes ahead, one bucket at activation and one at
each tick, with the charge itself outside the mutex (`orphans` are charges whose loop
was cancelled).  **BotManager** adds the manager's entry, the channels of pause and
stop, the bot goroutine from one job to the next, logins, reconnects and submissions.
Requests are two steps: the handler looks at the status, then acts.

**JobTables** is the tables of one posting and their statements; **Applications** puts
the run, an approval and pasted addresses side by side over them, with the log of
attempts, the mark before the click, and the recovery when the server starts.  `openTabs`
are the goroutines whose tab was loaded while the posting was open (`Loads`): what the site
comes to show afterwards need not appear on it.
`overtaken` is a history variable: a request took a Cannot Apply entry back while a
statement that was about to run relied on it.

**ApplicationDocuments** holds pure operators: the capabilities a form shows, the choice of
documents from selection, policy and defaults, the making of files, and the stored
pack.  **ApplyForm** is one pass through a form.  The site, a script of pages in
`scenario`, decides what a page asks, how long it takes to give way and whether
its button can be clicked; `disturbed` counts what goes wrong.  A file found in an input
with a label leaves open whose it is, one without (`unnamed`) does not (`OriginClear`).

**DocumentLibrary** is saving, uploading, choosing and deleting documents, statement by
statement.  **ReviewDocuments** adds one application in review: select, prepare,
preview, approve and reject, each reading the row once and writing it at its end.
A row rejected while it is being submitted comes back when the form cannot be automated
(`Reinserted`) or turns out to be the employer's own (`External`).  `merged` is a history
variable: a failed approval wrote into a row that was no longer the one it had read.

**EvaluationRun** is one run: candidates, workers that set a budget aside and settle it,
models that vanish, cancellation, and how the run ends.  **ModelPolicy** adds approval,
rollback and the resolution of a task's model.  Two history variables say where the
budget does not bind: `chat` makes up to three requests for one reservation, of which
`RunCase` keeps the last usage (`unseen`); and a request may cost more than its
reservation (`over`), which reckons with 8192 tokens for a spec without a limit of its own
while the request carries the settings' limit, or none, and prices what the billing
catalog lacks at a fallback.  `BudgetHeld` says that these are the only two ways past the
budget.  A fake runner's cases are charged without a reservation.  The candidates are
taken to be distinct: a spec listed twice is not refused by the code, and its two workers
would then count under one entry of the registry.  A run whose row cannot be read when its
goroutine begins stays pending: `RunSettles` excepts it.

**Accounts** is the handlers of `internal/auth` over their tables, with mail in flight
(`mail`), links that were opened, and the daily sweep.  **MailedLinks** is what a link
promises: at most one effect, only while it is good, no session left behind.

## The runs

| run | properties | states |
|---|---|---|
| Quota | `OverageWithinGrace`: whatever whole-row writers and overrides race charges, no charge takes the month past grace; `ChargeIsExact`: a charge takes exactly its credits | 1.0 million |
| DebtSettledTwice | `DebtIsGenuine`: violated, see the findings | |
| Webhook | `AckedMeansEffected`; `CheckoutsCreditedOnce` (implements ExactlyOnce); `ConvergesToStripe`; `EveryEventAcked` | 49 thousand |
| Retention | `Exclusive`, `NestedNeverBlocked`, `DocumentsSurvive`, `InFlightKept`, `BeginReturns` | 0.5 million |
| LLMReuse | `ContentChargedOnce` (implements OneCall); `FreshLeaseKept`: a lease is not taken before it ends; `EveryCallReturns` | 0.4 million |
| BotRun | `RunHeld`, `WorkIsMetered`, `EveryIncrementBilled`, `NoJobAfterStop`, `StopEndsRun` | 1.3 million |
| Applications | `SecondClickIsStale`: none but after confirmed ones, from a tab loaded before; `ClickIsKnown` afterwards; `AttemptsSettle`; `NothingForgotten`: a posting stays in some list | 2.7 million |
| ApplyForm | `PreparingNeverSubmits`, `FailureIsUnsent`, `DocumentsAsChosen`, `TailoredOnce`, `FineFormGoesOut`, `Ends` | 0.1 million |
| ReviewDocuments | `ReadyIsComplete`, `PreviewIsHonest`, `RenderIsPaid` | 2.0 million |
| PrepareOverwritesSelection | `SelectionHolds`: violated, see the findings | |
| ModelPolicy | `BudgetHeld`: nothing but unseen and underestimated requests goes past the budget; `ServedIsProven`, `RollbackUndoesLast`, `RunSettles` | 0.2 million |
| Accounts | `AddressIsProven`; `LinksKeepTheirPromise` (implements MailedLinks); `WhoAsksGetsIn` | 40 thousand |

The two violated runs are disagreements with documents of the repository, quoted under
`findings`.  A preparation that began before the user changed the selection writes its
documents over the new one and marks the row prepared.  And the end of a session books
its overage as debt but leaves the month overdrawn, so that a renewal books the same
overage again: twelve steps, with one charge and no race at all.

### What else the models show

The properties above are stated so that they hold of the code; these are the conditions
that had to be put in, each a place where a stronger statement fails.

* A whole-row write (customer id, settlement, repair, subscription update, enforcement)
  that read before a top-up or a burn writes the credits away.  No property says that
  credits are conserved, because with these writers they are not: `ChargeIsExact` is about
  the charge alone, and `OverageWithinGrace` about what no such write can break.
* An override that lowers the allowance leaves a month overdrawn that was not, and the
  next charge, paid by a top-up, writes that row.  `OverageWithinGrace` therefore
  measures by the highest allowance the row ever had, and by the present one only
  as long as no allowance was overridden.  A removed override stays in the row, since
  every whole-row write and every charge has made it the row's own allowance.
* `ConvergesToStripe` needs one goroutine and no reconcile: with two, an older event
  can be read before and written after a newer one; a reconcile stamps what it listed
  earlier with a later time; of two subscriptions, the end of either ends the plan.
* A handler whose lease ran out overwrites the outcome another has settled, so an
  event may be handled again after it was acknowledged.
* An approval reads the review's row before it is admitted.  If the row is dropped while
  it waits, a clean-up removes the file, and the submission that then fails inserts the
  row again with a path that has no file.  `DocumentsSurvive` is therefore about versions,
  which stay readable, and not about paths.
* An approval that fails ends with an UPDATE that replaces the stored pack but keeps a
  path for which it has none (`manager.go:700`).  If the selection was changed while it
  ran, the row then holds the pack of one selection and a path of the other; the next
  preparation takes the path as an override and marks the row prepared with a file that
  belongs to another version.  `ReadyIsComplete` excepts rows that were `merged` so.
  The attempted proof showed it: without the exception the invariant is not inductive.  A
  trace takes six requests, more than the run's bounds allow.
* `processEvaluationRetry` reads whether a durable record exists and then deletes the
  queue's row (`evaluation_retry.go:33-38`).  If the user retries the Cannot Apply entry in
  between, that request renews the row and removes the record
  (`enqueueCannotApplyRetryTx`), and the deletion then takes the new request: the posting
  is in no list, against the comment at `evaluation_retry.go:30`.  A rejection has the same
  gap: its record is an older Cannot Apply entry, a retry takes that back, and the review
  is dropped.  `NothingForgotten` excepts behaviours that were `overtaken` so.  The
  attempted proof and a run with two disturbances showed it.
* LinkedIn's queue drops a posting whose page already says that the user applied,
  without recording the application: `NothingForgotten` excepts that (`AlreadyApplied`), and
  what the search or a pasted address begins for a posting no list had (`Dropped`).
* Pausing cancels a charge that is under way, which the run takes for a refused one and
  ends with `quota_stop`.
* On Seek an application that was clicked and not confirmed may be tried again, where
  LinkedIn's postings are barred: `SecondClickIsStale` is about LinkedIn.
* On LinkedIn two clicks are possible too.  `easyApply` inspects the tab as it was loaded
  (`manager.go:1395`), a pasted address is evaluated in between, and only attempts in
  progress or unknown bar another (`attempt.go:24-54`).  When an attempt of the queue is
  submitted and confirmed meanwhile, the stale tab still shows the button.
  `SecondClickIsStale` says that this is the only way.
* An evaluation run that was under way when the server stops stays running; a baseline
  that answered fewer cases than the candidates is still compared with.
* `ConsumeRefreshToken` reads and then deletes: two refreshes with one token may both
  succeed.  `UpsertGoogle` only logs a failing update, so for an address already taken
  the access token names an address the row does not have.

### Bounds, and why they are enough

* **Quota**: two goroutines, two keys, charges of one credit and of more than a month
  holds, one top-up, one session, and three operations beside the charges, an override that
  lowers the allowance or turns the enforcement off among them.  A lost update needs two actors, a race on the
  grace allowance two charges in one session.
* **Webhook**: two goroutines suffice for a take-over.  Four histories: checkouts of both kinds
  and an event with an unknown price; a pack for a customer the row does not know;
  an admin who finds no subscription; an end and a new start within a second of each
  other.  Each says how many failures and crashes it has.  In a history with a top-up
  no event ends the period, since the end of a period settles debt with top-ups.
* **Retention**: one task that may nest, two clean-ups, two jobs, two versions with equal
  bytes (they share one artifact, so removing a blob could hurt another version),
  two passes, one failure, one restart.  The proofs cover any number of tasks.
* **LLMReuse**: two callers of one content and one with an image, two attempts and two
  rounds of contention each, one failing statement, one lapse, one crash: a lapse under a
  working holder, a take-over and the late publication of the first.
* **BotRun**: two runs, two requests, one submission, two rounds of the ticker in each run; Seek, whose
  runs can pause in the middle of a page.  The quota session's calls are QuotaService's.
* **Applications**: two attempts and one disturbance or one and two on LinkedIn, two and
  none or one and one on Seek; two pasted addresses of the same posting (symmetric).  The
  stale second click takes two attempts: one confirmed while the other is evaluated.  Outcomes
  that lead to the same rows are one.
* **ApplyForm**: the code's real limits (40, 12 and 10 pages, 6, 8 and 5 pages without
  progress) over 1368 combinations of site, mode, stored documents, settings and a
  form: eight forms that can be filled and nine that cannot, with two disturbances.
* **ReviewDocuments**: two requests at a time, three or four in all, in four mixes
  of documents and review, one failing statement or restart.  Two of the settings
  (use the defaults, tailor) and one form reach every way a pack can be composed.
* **ModelPolicy**: two candidates and a baseline, two cases, two workers, three decisions
  and thirteen plans (prices, bounds, three requests a call, a cancellation, missing
  models).  One of the three specs costs more than is set aside for it.
* **Accounts**: seven histories of at most two accounts, three addresses, six links and
  two goroutines, each of a hazard's cast: a forgotten password asked for too
  often, two changes of an address, a registration for an address somebody moves to, and so
  on.  At most two failures, at most one lapse.

Counters are bounded by the named constants, in the guards.  Deadlock checking is off
because bounded requests, events and clocks let each system come to rest.

### Fairness

* **Webhook**: Stripe sends an event again until it gets a 200, so a delivery that is
  possible again and again happens (strong fairness: the goroutines may be busy in
  between); a lease runs out with time; handlers, being plain code, go on.
* **Retention**: a goroutine inside its guarded section goes on, a polling `BeginWork`
  that finds the flag clear goes in, and a clean-up goes on or gives up when its
  ten minutes end.  None for failures, restarts and handlers, or for a clean-up getting
  its turn: overlapping work may starve it until it gives up.
* **LLMReuse**: a goroutine goes on, since calls and polls have deadlines; nothing is
  asked of the heartbeat, of cancellations or of leases.
* **BotRun**: the bot's goroutine goes on (`BotStep`).  No request, ticker or site need
  ever act.
* **ApplyForm**: the code and the page go on (`WF_vars(Next)`): each wait has a deadline.
* **ModelPolicy**: the executor and the workers go on; calls have time limits.
* **Accounts**: goroutines go on, mail goes out, five minutes pass, and (strong fairness)
  the owner asks again whenever that is possible again and again and opens the link
  that arrives.  Nothing makes mail arrive: `WhoAsksGetsIn` bounds the losses instead.
* QuotaService, Applications and ReviewDocuments state no liveness and assume none.

## The proofs

TLAPS checks them for all values of the constants.  Assumptions are the named
`ASSUME`s of the modules, which TLC evaluates in the runs.

* `SharedState_proofs!OverageStaysWithinPeak` and `OverageStaysWithinGrace`: no
  interleaving takes a month past the highest allowance it had, nor, before the first
  override, past the one it has, plus grace.  The invariant is that the row *and every row
  a goroutine has fetched or is about to write back* are within it (`PeakInv`, `Plain`): a
  whole-row write may restore an older row, and the burn transaction checks the row it
  finds under the overrides it brings.  For the second part `RepairSafe` leaves one combination out,
  repairs meeting updates that end a plan: `RepairReconcileAllowance` does not look at
  the plan, so an ended plan could get and spend a large allowance that a later update
  to a smaller plan lowers.
* `SharedState_proofs` also holds `QuotaTypeCorrect` (no bucket becomes negative),
  `ChargesAreExact` and `OverageComesFromSessions`, with any writers and overrides beside
  the charges.  The last needs that before the first session no charge was prepared
  in one (`SessionInv`).
* `SharedState_proofs`, of the coordinator: `EvictionExclusive` and `NestedGuardsAreFree`.  The
  invariant is that the counter equals the number of guards held (the cardinality of
  a set of pairs) and the flag is set exactly while an eviction runs.  Without the
  equality an inner guard's end could clear the counter under an outer one.
* `SharedState_proofs`, of the clean-ups: `RetentionUsesCoordinator` shows that the component implements
  the coordinator's specification, step by step; `CleanUpExclusive` and
  `MaterializeNotBlocked` follow from it.  `InFlightIsKept` needs an invariant that
  ties each stage of a task to the guards it holds and to what it has made by then,
  and each stage of a pass to a running eviction: what could remove a task's file
  or blob never runs while the task holds a guard.  `NoDocumentIsLost` adds that every
  version a row names, or a task is about to write into one, is linked; that a linked
  version has its blob unless it is reconstructible; and that no clean-up has that blob
  among its keys: it reads them with the eviction flag set, when nothing is linked.
  `LockIsNeverOrphaned` says exactly how many guards each stage of a task holds and
  what each stage of a pass has of the eviction flag (`FollowInv`), on every way out, failed
  and abandoned ones included.  So who waits in `BeginReturns` waits for somebody at work.
* `StripeWebhook_proofs`: `AcknowledgedIsEffected` for every history.  The invariant is
  about the worker before it finishes: one that will report success has its effect in
  the database already, whoever holds the claim by then.  `NoPackIsLost` draws the
  conclusion for top-ups.  `CreditedExactlyOnce` is the refinement of `ExactlyOnce`,
  under `Undisturbed(history)`: no reconcile, only checkouts and events that change no
  plan, and one goroutine if a checkout names a customer.  The end of a period settles
  debt with top-ups, and the whole-row write of a customer id can lose a grant that
  runs beside it (see above); in the histories left a credited pack stays credited.
  `RowConverges` states `ConvergesToStripe` for the histories of `LastWordIsTrue`: one
  goroutine serves the events, and those with the last time of creation tell the state of
  the subscription that counts in the end, or one of them ends the plan if that
  subscription grants nothing.  The invariant (`ConvergeInv`) relates the row to the events
  that had their effect, in whatever order: the row's stamp never passes the last time; at
  that time it says what the newest events say, or has expired and stays so; and the row
  that a goroutine is about to write already satisfies this with its event added
  (`Written`).  That nothing else writes in between is where one goroutine is needed.  The
  MC module has TLC check that the history of subscriptions is one of those.
  `WebhookTypeCorrect` says what each goroutine carries at each place (`Holding`), from
  which the row that any of them writes is well formed, in every history.
* `LLMReuse_proofs`: `OneContentOneCharge` (the refinement of `OneCall`) and
  `LeaseIsKept`.  The invariant: the first insert chooses the row's operation, and
  whoever got past `Begin` carries it, so every charge of the content meets the same
  unique key; a completed row has an answer and a charge and is never written again.
  `CallsTypeCorrect` adds that the rounds of `Begin` and the attempts at the provider stay
  within their limits (`RetriesInv`), which each of the retrying branches checks by itself.
  `EveryCallIsBounded` follows: what a caller can still do, `CallLeft`, is a number that its
  own steps lower and nobody else's raise, so no race for the row, lapsed lease or crash
  makes it begin anew.  A loss of the race costs a round; a caller with the lease
  never returns to `Begin`.
* `ModelPolicy_proofs`: `BudgetIsHeld`, `ServedWasProven`, `RollbackUndoesNewest`.  The
  budget is about two sums over the workers, which would need induction; instead the
  ledger says that there *are* functions of partial sums along the run's order of
  specs: the last value of one, with what was paid, is covered by what was spent and set
  aside and was not seen; that of the other is what the budget has still to count
  beyond the reservations; and each step shifts those functions from one spec onwards.  `ServedWasProven`
  carries the proof of coverage from the recommendation through an approval that read
  it earlier and through the policies that a rollback restores.
  `EvaluationTypeCorrect` needs that a worker which saves a case has not saved all of
  them, and that a decision under way was counted.  `RunStaysOver`: the code writes the
  status of a run without looking at it, and the phases of its goroutine are what keeps
  a run that is over from being opened again.  `EveryRunIsBounded` counts three steps for
  each case that a worker has not completed, and the phases that the run's goroutine has
  left.  The sum over the workers is that of the ledger; that it exists, is unique and goes
  down when a summand does is proved by induction along the order of specs, as a fact
  about an inductive set (the theorems on induction take an operator).
* `BotManager_proofs`: `RunStaysHeld`, `WorkStaysMetered`, `IncrementsAreBilled`,
  `StopStartsNoJob`.  One invariant in three parts: the registered id was given out
  and pending unregistrations are of other ids; where the bot may be while its meter
  rests, and that a stop that was asked for has cancelled the context; and that the
  buckets billed or left to cancelled loops are numbered below the one in flight and
  those to come.  It is assumed that a run's id is new (`uuid.NewString`).
* `Applications_proofs`: `SecondClicksAreStale` and `NoClickIsForgotten`, for LinkedIn.  An
  attempt whose row could not be written never clicks; one that has its row is seen by
  every other's check until it is finished.  So the invariant is that of the attempts
  past the check at most one has a row, and that every click before it is recorded as
  confirmed, which the site has shown by then; a second invariant (`Loaded`) says that whoever
  is about to click has a tab loaded while the posting was open.  After a click every
  branch of all five callers ends the attempt as unknown or confirmed (`PlansEnd`), and
  what a goroutine has still to write is carried by the invariant, so that a statement
  that fails or a crash leaves a row that stops the next attempt.  `EveryAttemptSettles`
  is for both sites: every branch of every caller records a result that holds the end of
  the attempt, with only statements on the tables before it (`EveryPlanEnds`), and a
  goroutine from its `beginAttempt` to that statement is `Busy`.  The invariant
  (`SettleInv`) gives every attempt in progress a busy goroutine, until a statement fails
  or the server crashes.
* `Applications_proofs`, of the lists: `NoPostingIsForgotten`, for both sites.  A
  statement that takes the posting out of a list, or ends its attempt, needs it to be
  recorded elsewhere, and how firmly depends on who runs it: a rejection needs a record,
  the end of a queued application only some list (`Wants`).  The invariant (`NoteInv`) says
  that each result under way is `Backed`: what a statement needs is in the tables already
  or is written by a statement before it.  Since others write in between, it must also be
  that they leave it: a statement whose need is met takes away nothing that anyone
  but the run counts on (`Firm`; `Loose` for the run, which may empty the queue), and an
  attempt bars a retry of its own id.  The rows of the run's snapshots are part of it: they
  name listed postings only because an id has one row and the queued application under
  way has none.  The exceptions of the property are conditions of the invariant (`Orderly`).
* `Accounts_proofs`: `VerifiedAddressIsProven` and `LinksAreKeptAsPromised`, the refinement
  of `MailedLinks`.  What is in flight names an account and an address, and either may have
  moved on since: so the invariant says of each request, link and sign-in that is about
  to confirm an address that it is the account's, or that the account has changed to one
  that was confirmed (`Settles`); that an account's pending link is the newest of its
  changes; that a link which had its effect is used up; and that a link that can be used
  has a living owner.  Every action is shown to keep it and to be one of the promised
  steps (`Proceeds`): it makes a link, follows a good one, or leaves the good ones be.  The
  scenarios' accounts are assumed to begin with no change of address under way.
  `MaxUsers` and `MaxLinks` only number what the abstract specification talks about, so
  the theorem is about behaviours with no more accounts and links (`WithinBounds`).
* `ApplicationDocuments_proofs`, of forms: `NoPreparationSubmits`, `FailedIsUnsent`, `ApplicationIsTailoredOnce`
  and `SentAsChosen`, for forms of any length and any documents.  The first two follow from
  `SendInv`, which says where the code may be once the button was pressed.  For the third,
  a résumé that was made is what `applicationDocumentOverrides` hands to every later
  resolution, also after one that failed half way (`ResumeReused`, `MaterializedKeeps`).
  For the fourth, `Documents` relates what is used to what was selected, and `After` says
  how a look at the form or the making of documents may change that: a version that is
  used is never replaced once the form takes it, and a file that is not wanted after the
  form was scanned is not wanted later, unless a letter becomes required.  That does
  happen, on a page that is then filled: so `FilledInv` goes over the pages left behind.
  `ScenariosAssumption` says what forms and stored packs are: the button that sends is on
  the last page, and a frozen pack holds the files of the versions selected for it.  The
  run PrepareOverwritesSelection shows a race that can store another pack; what is then
  sent is what was stored.
* `ApplicationDocuments_proofs`, of forms that behave: `FineFormIsSent`.  The invariant
  (`OnCourse`) says that a pass which nothing disturbs is at one of the steps of the way
  there; that a page is filled before it gives way and the next one is new (`PageInv`); that
  the loop has not looked at a page again, or clicked with nothing filled, more often than
  the pages so far explain (`PaceInv`, `StuckInv`); and that what it knows of the form is what these pages
  add up to, so that its resolutions agree with the ones `Fine` speaks of (`DocsInv`, `ChoosesAlike`).
  `Totals` is a recursive function, and that it does what its definition says for forms of
  every length is itself proved (`TotalsAddUp`, `TotalsGrow`), by induction: since the
  theorems on induction take an operator as a parameter, it goes by the least number
  outside of a set (`InductiveSet`).

  The proof found four kinds of forms that `Fine` had called fine and that do not go out; no
  scenario of the run had one: a frozen pack that is held back; a frozen pack without a
  résumé on a page whose file input says nothing of what it takes; on Seek, a pack whose
  earlier findings hold the documents back at the look at the whole form; and on Seek, a page
  with a question and a letter that the policy skips, which shows a second time and has
  nothing left to fill.  `Fine` excludes these now, and no longer asks of a preparation
  what only applying needs.  Like the code, it takes it that more than one page that cannot be
  filled is let pass (`MaxUnfillable > 1`; it is 6), and that a pack stored ready to go is
  not held back.
* `ApplicationDocuments_proofs`, of every form: `FormTypeCorrect` and `EveryPassIsBounded`.  `FormInv` adds to the
  invariants above which steps belong to which way through a form (`WayInv`) and that the
  counters are below their limits as long as the loop goes on (`CountInv`).  From it every
  step lowers a natural number, `Remaining`: four for each iteration left, one for each page
  left, the stage within an iteration, and three for the login that may still come in
  between.  So there is no behaviour with more steps than that, with or without fairness;
  what `Ends` adds is that the code takes its next step as long as it has one.

* `ApplicationDocuments_proofs`, of the library: `NoRenderIsFree`.  A version gets its file,
  or becomes reproducible, in a statement of the save that made it, after the charge.  So the
  invariant says of each save under way what it has done to its version by now, and that
  no two have the same one (`SavesInv`): then what one save does, and the removal of a
  version by a save that failed, leaves the claims of the others alone.
* `ApplicationDocuments_proofs`, of reviews: `ApprovedIsComplete` and `PreparesWhatWasShown`,
  for any number of requests and every form and policy.  Since each request writes
  what it has read minutes before, the invariant speaks of the row (`RowPart`) and of what each
  request holds and is about to write (`WorkPart`): a pack that is ready has its versions,
  paths and files together (`Whole`), one that is not scanned has nothing that a scan would
  have made, and one that is not prepared names the versions that the columns name.  Files
  once readable stay so (`ReadableStays`).  `ReviewAssumption` leaves out letters
  that are written for the application, which go the way of tailored résumés.

Two modules hold the theorems of two components that have no variable in common:
`SharedState_proofs`, and `ApplicationDocuments_proofs`, whose components have the operators of
`ApplicationDocuments` in common.

Every invariant and every action property that a passing run checks is stated by a theorem.  Only
model-checked: all liveness (`EveryEventAcked`, `BeginReturns`, `EveryCallReturns`,
`StopEndsRun`, `Ends`, `RunSettles`, `WhoAsksGetsIn`), since fairness and `ENABLED` are
beyond the prover.  A part of it is safety, and proved: no call, pass through a form or run goes on for ever
(`EveryCallIsBounded`, `EveryPassIsBounded`, `EveryRunIsBounded`), no run is reopened
(`RunStaysOver`), and the lock that `BeginReturns` is about is never held by nobody
(`LockIsNeverOrphaned`).  That whoever is not done can always take a step, and does, stays with TLC.
`SelectionHolds` and `DebtIsGenuine` are violated, which their runs show.

## What is not modelled

`PROJECT.json` says it for each component.  In short: text (prompts, parsing,
rendering, email), wiring, catalogues and settings, single-statement handlers, how pages
are read and filled, and what Stripe, the providers, the sites and Chrome do beyond
what the code reacts to.  Inside modelled components:

* quota: the seed of a trial, the default settings, conversion of tokens to credits;
* billing: checkout and portal sessions, signatures;
* retention: temporary files, previews, batch limits, the loop over all users;
* documents: the metadata that says a default looks outdated, the onboarding flag,
  regional defaults, what a preview is charged, the deprecated reference lists;
* LLM: retries inside one call, the removal of old rows;
* evaluation: crashes, failing reads, runs that are not started asynchronously, the
  fallback of `ExecuteRun` that no path reaches;
* accounts: hashing, the checks of access tokens, roles, data that goes with an account.
