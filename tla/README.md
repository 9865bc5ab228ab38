# A verification project for the compliance platform

This directory holds TLA+ models of the compliance and identity platform - its
backend under `src/backend/app` and its console under `src/frontend/src` - the
TLC configurations that check them on small instances, and TLAPS proofs of the
main properties for every instance. All lines quoted here are of the same commit
as the source.

On the backend, read `CustomerHandlers` and `CustomerLifecycle` first; on the
console, `Console` and then `CasePages`. The other models follow the same
patterns.

## 1. The system

A FastAPI process serves the console and the tenants' API. Celery workers run
long jobs against the same PostgreSQL database; Redis is broker and cache.
External services: NADRA and Shufti (identity), liveness and face matching,
watch-list sources, object storage, mail, the tenants' webhooks. The console is
a Next.js application of client pages.

What decides about concurrency in the backend is `database.py:60-69`. `get_db`
gives each request one session and one transaction, under PostgreSQL's READ
COMMITTED: a handler reads rows, awaits adapters and storage, changes attributes,
and at the end `commit` writes the *columns it changed*, by primary key. No row
of the workflows has a version column, and none is read with `FOR UPDATE`. So
between the read that a guard looks at and the write that follows it, other
requests commit; what they wrote to other columns survives, and the same column
is overwritten.

What decides about it in the console is React. A page is a set of state hooks and
of handlers that await `apiRequest` (`lib/api.ts`). Between two awaits a handler
runs alone; while it waits, other handlers, effects, timers and answers run, and
answers arrive in any order. What a handler remembers across an await may be old,
what disables a control is a hook that some handler raised and must lower, and
what a page shows is what the last answer said. The pages of a browser share one
session in `localStorage`, which other tabs write too.

| Component | State | Operations | Hard parts | What makes it correct |
|---|---|---|---|---|
| Customer life cycle (`modules/identity`) | `kyc_status`, `risk_tier`, documents, verification results, EDD case, freeze records | create, PATCH, verify, upload, score, pipeline, start/fund/approve/reject EDD, freeze, report, unfreeze | order of calls; PATCH goes around every check; overlapping requests | status, documents, EDD case and freeze records never contradict each other; decisions last |
| Identity verification (`identity/service.py`, `webhooks/shufti_router.py`, `adapters/`) | verification results, `shufti_pending_verifications`, routing settings | `verify_nadra` with primary, fallback and four triggers; the Shufti callback | asynchronous answers, duplicates, timeouts, crashes, events that are not final | a customer is verified by a passing result, of a provider or of OCR, or by PATCH; an answer is recorded, once, and is Shufti's |
| Batch screening (`workers/tasks/batch.py`, `screening/service.py`) | `BatchJob`, results, report file, usage events | submit, run, download | enqueue before commit, redelivery, commit per chunk, failure handler | complete means every named row has a result; progress never lies; a job ends |
| ISAR and STR (`compliance/service.py`) | `Isar`, `StrReport` | update, submit, approve, reject, revise, file, generate | several officers on one report | nothing is reported or filed without the MLRO's approval, and what is reported is what was approved |
| Cases (`compliance/service.py`, `compliance/router.py`) | `Case.status`, `closed_at` | create, PATCH, reopen | two ways to reopen; overlap | a closed case says when |
| Console: API client, session, header (`lib/api.ts`, `lib/auth`, layouts, `header.tsx`) | tokens, user, notifications, search | login, refresh and retry, sign-out, poll, mark read, search | refresh against sign-out and other tabs; poll against marks; debounce | one person's session; what is shown is what was asked for last |
| Console: one record (case, customer, incident, ISAR pages) | the loaded row, dialogs, busy hooks | the workflow operations of the row, each with the loads after it | stale answers, chains of calls, shared hooks, several users | no operation twice at once; no control stays disabled; nothing is taken back by a stale page |
| Console: tables (cases, customers, alerts, wallets, incidents, ISARs, tenants, audit) | rows, total, filter, page | load, filter, turn the page, create | answers out of order, page past the last row | the rows shown are of the filter shown |
| Console: forms and editors (settings, billing, rules, team, keys, tenant) | form, rows, dialog, new key | load, edit, save, create, delete, rotate | defaults after a failed load, read-modify-write of one JSON column, a key shown once | no default overwrites what was kept; a rotated key is seen |
| Console: screening, reports, applications | results, panel, jobs, wizard steps | disposition, upload and poll, review, generate, preview, apply, approve | polling that must go on, several requests of one panel | decided once; jobs followed to their end |
| Screening check (`screening/service.py`, `matching.py`) | results | check | swallowed alert failure | every confirmed match is followed up |
| Watch lists (`workers/tasks/ingesters.py`, `screening/watchlist_cache.py`, `ongoing_monitoring.py`) | entries, Redis copy, health rows | ingest per source, refresh, daily monitoring | replace while read, stale cache, commit per tenant | no source is ever seen empty; monitoring misses no tenant |
| Alerts and monitoring rules (`alerts/`, `monitoring/`) | alerts, rules | evaluate, create, PATCH | duplicate check then insert; mail before commit | one open alert per cause |
| Billing (`billing/`) | plans, subscriptions, usage summaries, invoices, coupons | subscribe, count, invoice, redeem | read then write on counters; numbers | one active subscription; no lost usage; coupon limits |
| Outbound webhooks (`core/webhooks.py`) | none that survives the process | schedule, deliver with three attempts | scheduled before the commit; unordered | the tenant hears of changes that happened |
| Wallet risk and its cache (`analytics/`) | scores, Redis cache | score, sanctions check | high scores are not cached | a stale low score never hides a severe one |
| Rate limit (`core/rate_limit.py`) | Redis counters | one per request | window edge, fails open | at most the limit per window |
| Storage, backup, health, forms as documents | I/O, layout | - | none of the above | - |

How they interact: the customer endpoints call the verification providers,
screening (for beneficial owners) and outbound webhooks; the Shufti callback
writes results and `kyc_status` for the first; a confirmed disposition and a
batch run with a match raise alerts; alerts and customers are linked to cases,
cases to ISARs; Form A6 counts the STR rows; billing reads the usage events
that screening and identity write. The console reaches all of them through
`lib/api.ts` only, with one bearer token, and refreshes it once on a 401; the
pages share nothing but that session.

The hazards of this code, each at its line, are in `PROJECT.json`.

## 2. Plan

1. *(done)* customer life cycle, atomically: `CustomerHandlers`,
   `CustomerLifecycle`, proofs; then the same handlers as overlapping
   transactions: `CustomerRequests`, proved to implement the first.
2. *(done)* verification and callbacks: `IdentityVerification`, proofs of all its
   safety properties, liveness.
3. *(done)* batch jobs: the abstract `BatchPromise`, and `BatchScreening`, which
   implements it, checked and proved.
4. *(done)* ISAR and STR: `SuspicionReports`, `SuspicionHistory`, proofs; cases:
   `CaseWorkflow`, proofs.
5. *(done)* the console: `Console`, one module per group of pages, their
   composition `ConsolePages`; proofs of the properties all pages share, of
   those of single pages, and of the freshness of every page.
6. `Watchlist`: ingestion, cache, ongoing monitoring, and the promise that a
   reader sees a whole list; the alert of a confirmed match.
7. `Billing`: subscriptions, usage, invoice numbers, coupons under overlap.
8. `WebhookDelivery`: deliveries against commits and rollbacks, composed with
   the customer requests; `ScoreCache`, `RateLimit`.
9. *(done)* Proofs: every invariant and action property of a passing run,
   `LivenessHasBothDocs` and `ApprovalHasDecision` for any number of overlapping
   requests and `PageIsFresh` page by page included. Next, with the modules of 6
   to 8, their theorems.

Each module has its parameters as CONSTANTS with named assumptions, one action
per handler or transaction step, and no RECURSIVE operator.

## 3. The modules and the code

### Customer life cycle: `CustomerHandlers`, `CustomerLifecycle`

`CustomerHandlers` says what each endpoint does to a *view*: status, tier, kinds
of documents stored, whether a verification result exists, EDD cases and freeze
records. A handler `h(v, ...)` is a function of the view, `Can_h(v, ...)` its
guard - the transition table of `identity/workflows.py` is `KycTransitions` -
and the whole of a handler is one operator, the calls it makes to
other services included: an upload stores the document, looks for its
counterpart, runs liveness and face match on it and moves the status; the
pipeline runs its steps in order and stops where the code stops.
`CustomerLifecycle` applies one handler per step to the database.

Left to nondeterminism: the answers of NADRA, liveness and face matching, the
risk score's inputs (scores become tiers through the code's thresholds), the
actor's role where a guard asks for it. `patched` is a history field: PATCH
moves a customer along the transition table without the checks of the other
endpoints, so the two promises about onboarding are made for customers that
it has not moved, and all others for every customer.

### Overlapping requests: `CustomerRequests`

A request reads the customer row (`ReadRow`), reads the rows that hang off it
(`ReadRelated`; READ COMMITTED gives these the values of *that* moment), runs
the handler of `CustomerHandlers` on what it has read, and commits (`Finish`,
which merges column by column with `Write`). An upload flushes its document
early and keeps the row lock until it ends (`StoreDocument`); a request that
raises is rolled back. `Serial == INSTANCE CustomerLifecycle` is the abstract
specification and `OneAtATime == Serial!Spec` the refinement: with one request
open at a time, the transactions are the atomic endpoints.

### Verification: `IdentityVerification`

A call of `verify_nadra` goes through the places in which a provider can run -
primary, fallback, exception handler - according to `After`, which is the
control flow of `identity/service.py:229-271` for each trigger. A Shufti run
asks Shufti (`created`) and flushes a pending row; the rows become visible, and
the URL is `offered`, with the commit. A timeout or an exception can leave Shufti
with a reference that has no row. A callback looks for the row
(`BeginCallback`), deletes it and reads the customer (`DeletePending`), commits
result, status and deletion together (`CommitCallback`), or crashes. Shufti is
the environment: it sends events on the references it knows, a final answer only
if its user had the URL, and again until it got a 200 (`acked`).

The status is also moved by the other endpoints, as transactions that overlap all
this (`CustomerMoves`): an upload stores a document, an OCR that passes leaves a
result (`ocrPass`) and may verify the customer, and a face match moves on
(`Upload`, by INSTANCE of `CustomerHandlers`; whether the document's counterpart
is on file is left open); PATCH asks for nothing but the transition table
(`PatchStatus`), so that a customer can be `identity_verified` without any result.
The history variable `byPatch` tells that PATCH gave that status. What comes after
the identity check is one status, `later`, from which no endpoint leads back; the
stale writes that do lead back are those modelled here.

### Batch screening: `BatchPromise`, `BatchScreening`

`BatchPromise` is what a tenant is told: accepted, taken up once, named rows
screened, at the end a result for each and a report that lists them; or
failed. `BatchScreening` is the code: the request that enqueues before it
commits, one run per delivery of the message, the transaction per chunk,
upload, completion with the usage event, the failure handler, crashes.
`KeepsPromise` is the refinement: every step taken while the message has been
delivered at most once is a step of the promise or a stutter.

### ISAR, STR and cases: `SuspicionReports`, `SuspicionHistory`, `CaseWorkflow`

A request loads the row, with the guards of its operation (`From`, `May`) on
what it reads, and commits the columns its handler changed (`Merge`). Filing
and generating append a report made of the text that was read.
`SuspicionHistory` adds a history variable that tells whether two requests on
the ISAR ever overlapped. `CaseWorkflow` is the case likewise; closing sets
`closed_at` to a new time, which is a change even if the column had a value
(`stamps`).

### The console: `Console`

`Console` has what pages share. `ui` are the hooks of the open page, `busy` those
that only say that something is under way, `srv` the rows of the backend that the
page works on, `calls` the calls under way. A handler that awaits is split at its
awaits: `Send` raises its hooks and makes its first call, `Chain` goes on to the
next, `End` is its `finally`, `EndThen` ends it and starts a load that it does not
await. `Replace` is an effect whose cleanup drops the call before; `SendShared` is
a hook that names one of several buttons, so that the end of any of them lowers
it; `Leave` unmounts the page. On the other side, `Serve` lets the backend do what
it may do with a call and answer it, or refuse; `Lose` loses the call or its
answer; `Others` is another user, or a worker, who writes the rows.

`smooth` is a history variable: no call was lost or overlapped another, and
nobody else wrote. Refusals leave it TRUE. It says when a page has had no reason
to be out of date, and it is what `PageIsFresh`, `RotatedKeyIsShown`,
`NothingIsUndone` and the second half of `TablesAnswerTheirFilter` rest on. All
other properties hold without it.

The pages:

| Module | Pages | What is particular to them |
|---|---|---|
| `CasePages` | `cases/[id]` | change of status through its confirmation, notes and the load after them; statuses and roles by INSTANCE of `CaseWorkflow`, and the console's own copy of the table (`lib/case-workflow.ts`) |
| `CustomerPages` | `kyc/customers/[id]` | uploads, NADRA, scoring, pipeline, EDD, with the chain of loads that follows each; the backend by INSTANCE of `CustomerHandlers` |
| `ListPages` | cases, customers, alerts, wallets, incidents, ISARs, tenants, audit log | one machine: a record says how the load effect of a page runs (`Effect`) and how its table is controlled (`Table`); the dialogs that make a case or a tenant |
| `IncidentPages` | `incidents/[id]` | notify, report, resolve, edit, and the endpoints of the incident |
| `ReportPages` | `reports/isars/[id]`, `isars/new`, `str-ctr`, Forms A5 and A6 | review, wizard, generation, previews; what each side reads of the other's JSON is a set of keys |
| `SettingsPages` | tabs of `admin/settings`, tenant settings | eight forms as one machine with a record each (`Form`): what a button saves, whether the form waits for its answer, whether the settings are rows or entries of `feature_flags`; switches; the list of raw settings |
| `EditorPages` | `admin/billing`, monitoring rules, team, API keys, `admin/tenants/[id]` | plans, coupons, subscriptions, rules and members as one machine with a record each (`Editor`); keys that are shown once |
| `ApplicationPages` | `apply`, `admin/applications`, `admin/onboarding` | form, review with its dialog, wizard |
| `ScreeningPages` | `screening/results` with its panel, `screening/batch` | loads without cancellation, disposition, polling |
| `SessionPages` | login, layouts and `lib/auth`, `lib/api`; the header | storage shared by tabs, refresh, retry; notifications, debounced search |

`ConsolePages` is their composition: one page is open, each with its own actions,
and the user may leave. It states the properties. The backend behind a page is
the endpoints it calls, applied atomically: what overlapping transactions do to
one another is the subject of the backend modules.

`OneInFlight` speaks of the hooks that disable a control, and `Overlapping` lists
those that do not keep what they promise: loads, which overlap on purpose; notes
and new cases, whose Enter key calls the handler past the disabled button
(`cases/[id]/page.tsx:346`, `cases/page.tsx:241`); the review of an application,
freed by Escape; the buttons of the platform's settings tabs and the downloads of
the STR list, which share one hook each.

The `MC...` modules give TLC the sets of requests, roles, countries and routings.
A definition whose comment calls it a mutant is a plausible bug in the definition
after it; with it, the named property of the named run fails. Which one belongs
to which is in `PROJECT.json`.

## 4. The runs

| Run | Instance | What it shows |
|---|---|---|
| `CustomerLifecycle` | 3 EDD cases and freeze records, 4 classes of nationality | all properties of the atomic life cycle |
| `CustomerRequestsSerial` | 1 request, all endpoints, 2 rows | the refinement `OneAtATime` |
| `CustomerRequests` | 2 requests, the way from first document to decision, 2 rows | documents before liveness and decision before approval survive overlap |
| `IdentityVerification` | every routing, 1 call, 2 callbacks, 1 upload or PATCH at a time, 1 kind of non-final event | results and status come from real answers, unless PATCH gave the status; an offered URL stays answerable until a non-final event; no acknowledged answer is lost; an answer is recorded at most once per handler open at once |
| `IdentityVerificationLive` | Shufti first, 1 callback at a time, no uploads or PATCHes, which touch neither results nor references | a final answer is recorded in the end |
| `BatchDeliveries` | 2 deliveries, 11 rows, 2 blank, commit every 4, all faults | a complete job has all its results; a started one ends; with one delivery so far, progress counts committed results and every step keeps the promise |
| `SuspicionReports` | 2 requests, 3 users, 2 texts, 2 reports | approval before report and filing under overlap; approved text and consistent review columns without overlap |
| `CaseWorkflow` | 2 requests | a closed case has its closing time |
| `Console` | every page, 2 calls under way, 2 rows per kind, 1 row to a page of a table | the properties of all pages and of single ones, below |
| `PipelineRejectsProhibited` | as the life cycle, 1 row | violated, see section 7 |
| `OfferedIsAnswerable` | 1 call, 1 callback, 1 non-final event | violated, see section 7 |
| `OnlyDraftsUpdated` | as `SuspicionReports` | violated, see section 7 |

The properties of `Console`:

* `BusyHasCall`: a hook that disables a control, or says "loading", is up only
  while a call whose handler will lower it is under way - through errors, early
  returns, chains of calls and shared hooks. It is the safety form of "no control
  stays disabled".
* `OneInFlight`: an operation whose control is disabled while it runs is not under
  way twice.
* `PageIsFresh`: once nothing is under way, a page that went undisturbed shows the
  rows of the backend: whatever an operation changes is loaded again, or the
  answer is shown.
* `SettingsKept`: a form that waits for its settings never writes a default over
  a setting it has not seen, and the console stores no retention period out of
  range.
* `RotatedKeyIsShown`: the key that a tenant has is one that was shown.
* `SessionIsOnePersons`: user and tokens in the storage are of one person, through
  refreshes, sign-outs and other tabs.
* `TablesAnswerTheirFilter`: the tables that cancel stale loads show rows of the
  filter and page that are set, however calls overlap; those that turn back to
  their first page are not left past their last row.
* `NothingIsUndone`: the console takes no incident back and decides no
  application twice.

Why the bounds are enough. Two requests are the least in which one can overtake
another, and since a request is one read and one merge, a third adds another
writer of the same kind; where more matters, the proofs cover any number. Rows:
with `MaxIds` 2 two requests can both create one, with 3 a customer is frozen,
released and frozen again with a record to spare. A chunk of 4 instead of 100,
twice per job, has rows before, on and after each commit; one blank row lies in
the first chunk and one right after the second commit, and the 9 named rows end
with a tail that only the last commit covers. Two reports show filing after
generating.

In the console, two calls under way are the least in which answers can change
places. With `Again = FALSE` calls overlap and others write after a smooth start
only (`MayOverlap`, `Others`): once the page is no longer smooth, its next call
waits until nothing is under way. With `Again = TRUE` there is no such bound; that
is too much for TLC, and the theorems about the console hold for both. A list has
two filter values, two rows per value and one row to a page, so that filters
change totals and the last page can become empty. Symmetry is used where requests,
approvers, texts, callback handlers or calls are interchangeable and no liveness is checked.

Deadlock is checked except in the verification and batch runs, which end when
the calls are made and the deliveries done. In the console nothing ends but the
visit of a page: where the user has left, the state stutters (`ConsoleDone`).

## 5. Fairness

`IdentityVerification.FairSpec`: Shufti sends a final answer again as long as it
has no 200 (strong fairness: the handlers may be busy in between), and a handler
that is started again and again is not killed each time (strong fairness of its
two steps). Shufti is outside the repository; that it repeats callbacks is what
the code's duplicate check (`shufti_router.py:52`) is written for.

`BatchScreening.FairSpec`: the API process ends its requests and a worker goes
on with the run it started - weak fairness of `EndRequest` and of each run's own
steps; there is none on faults. `StartedJobEnds` excepts a job whose worker died
or could not store the failure: the message was acknowledged before the run, so
nothing runs it again.

No other specification has fairness, and none but these two has liveness
properties: a request ends when its client or the server ends it, and nothing in
the workflows must happen without a user. For the console this is deliberate:
`apiRequest` sets no timeout, so nothing in the code makes an answer come, and a
page may be left at any time. That a control is freed is stated as `BusyHasCall`
instead, which needs no fairness.

## 6. What is proved

Each theorem is for every value of the constants, under the assumptions named
there (`MaxIdsAssumption`, `RowsAssumption`, `UserAssumption`,
`CallbackAssumption` and so on: that bounds are naturals, a chunk is not empty,
approvers are users, the handlers open at a time are finitely many).

* `CustomerLifecycleProofs`: all eight properties of the life cycle. The
  invariant is the conjunction of the five state properties: every handler that
  moves the status also writes the row that a conjunct relates it to, or checks
  that row first, so that with the types each conjunct is preserved. The action
  properties follow from the types and the handlers' cases.
* `IdentityVerificationProofs`: all six safety properties. A verified customer has
  a passing result, or was verified by PATCH: the commit that writes the status of a
  call, a callback or an upload adds the row it rests on, whatever it had read, and
  no step takes a row away (`RowsKept`). An
  offered URL stays answerable until a non-final event, from the invariant that a
  handler works on an event that was sent (`HandlersFit`). The rest needs to know
  where rows come from (`FInv`): the NADRA rows of a call are of places where
  NADRA runs, so no Shufti reference gets one; what is pending, offered or
  answered was asked for; a call that is not done has left nothing behind; Shufti
  decides a reference once. `RecordedOncePerHandler` is the sum of what is recorded
  and what is open (`RoomLeft`): once a reference has a result it is not pending,
  so no handler begins on it, and each commit closes one.
* `BatchScreeningProofs`: types; a complete job has all its results, however
  often its message is delivered. The invariant says of every run what it has
  made: the named rows before its next one (`RunFits`); without it `Complete`
  could not be known to store them all.
* `BatchScreeningProofs`, too: with one delivery so far, progress is the number of
  committed results, and `BatchScreening` implements `BatchPromise`: the initial
  state maps to its initial state, and every step to one of its steps or a
  stutter. The invariant adds where the job is while its only run is at each
  point (`Follows`), that a run counts what it has made (`Counts`), that results
  are of the run that made them (`OwnRows`), and that before the request commits
  nobody finds the job.
* `CustomerRequestsProofs`: types; what onboarding and approval promise, for any
  number of overlapping requests; and that requests one at a time are the atomic
  endpoints. What an open request has read may be stale, but not in every way
  (`Working`): documents are only added, so those it has seen are still on file;
  a status past the liveness check that it has seen had both documents; PATCH's
  mark is never taken back; and its session differs from what it has seen by its
  own document and the status its upload gave. Its commit therefore cannot write a
  status that the committed documents do not support. For the refinement, while
  one request is open the row is what it has read (`OneOpen`), so the merge of
  `Finish` gives what its handler made; rows it numbers are new. The hypothesis
  is that `Req` has at most one member, as in the run `CustomerRequestsSerial`.
* `SuspicionReportsProofs`: types; no report or filing without an approval, no
  filing without a report, for any number of overlapping requests. The
  strengthening is about what requests *remember*: its operation was allowed to
  its user and on the status seen, a seen approval had an approver, and a seen
  approver is still one on the committed row - `approved_by` is only ever
  replaced by another approver, and never cleared, not even by a revision. For
  `SuspicionHistory`, reports carry the approved text and the review fits the
  status until two requests have overlapped: until then the request under way has
  read the row as it is (`Alone`), so that its commit writes what its handler
  made of the current row.
* `CaseWorkflowProofs`: types; a closed case has its time. The invariant says
  that a session that closes also stamps, and only a reopening one clears.
* `ConsoleProofs`: `BusyHasCall` and `OneInFlight`, on every page, for any number
  of slots, and with `Again` TRUE for calls that overlap and others that write any
  number of times; the same holds of all theorems about the console. Those about
  the smooth time say nothing about overlap, whatever `Again` is. The invariant `CallsInv` adds to the two that a call carries
  its fields, that the hooks of a call under way are up, and that hooks shared by
  several buttons are all a call's or none; `CaseDialog` adds that the
  confirmation of a case is not open while its update runs. There is one lemma for
  each way of calling in `Console` and one for each page.
  Then single pages: `SessionIsOnePersons`, `SettingsKept`, `RotatedKeyIsShown` and
  `NothingIsUndone`. `FormInv` is about what the calls of a form carry: values that
  were loaded or typed; `TenantInv` says that a key that was not shown yet is
  carried by a call under way; `ApplicationsInv` and `IncidentInv` relate what the
  page offers to the rows: while the page is undisturbed, what it shows is behind
  them only as long as a load is under way.
* `ConsolePageProofs`: `PageIsFresh`, `TablesAnswerTheirFilter` and the types, on
  every page they speak of (`PageIsFresh` leaves out the coupons), for any number of
  slots, rows and notes. `FreshInv` has two kinds of
  parts. Those about types (`CaseTyped`, `CustomerTyped`, `HeaderTyped`, ...) hold
  however calls overlap and fail: a status on a page, or in an answer that is on
  its way to it, came from the backend. Those about freshness (`CaseKnown`,
  `ListKnown`, ...) are about the smooth time, in which at most one call is under
  way (`Alone`): what the page shows is what the backend has, unless that one call
  is the load, or the update followed by a load, that will bring it; and an answer
  that is in, but not handled, says what the backend has. One lemma per way of
  calling (`Smooth...`) reduces each handler to that one call. Alerts and wallets
  need no smooth time (`AskedInv`): their cleanup drops the load before, so at most
  one load can still be heard, and it asks for the filter that is set. That
  incidents and the audit log are not left past their last row uses that a page of
  a table has room for a row (`ListAssumption`).

Every invariant and action property of a passing run is thereby also a theorem.
Only model-checked: the liveness of `IdentityVerification` and `BatchScreening`,
since liveness under fairness and statements with ENABLED are beyond the proof
system, as is induction over data; and that the three violated statements of
section 7 are violated, which is a matter of one behaviour.

## 7. Where the code and its comments part

Checked as runs that TLC must find violated:

* `PipelineRejectsProhibited`: "Prohibited → reject (handled by score_risk)"
  (`identity/orchestrator.py:53`). The first scoring only moves to `risk_scored`
  (`identity/service.py:398`), and the pipeline scores once.
* `OfferedIsAnswerable`: "Final events only" (`webhooks/shufti_router.py:56`),
  but the pending row is deleted before the event is looked at (`:53`) and the
  early return commits that.
* `OnlyDraftsUpdated`: "Only drafts can be updated" (`compliance/service.py:317`):
  an update that read a draft overtakes the submission or the approval.

Met while modelling the backend, in the models' behaviours, without a run of
their own:

* Under overlap (all hold one request at a time, by `OneAtATime` and the proofs):
  two EDD cases for a customer; a decided EDD case decided again; a customer
  taken out of `approved` or `frozen` by a stale write; a frozen customer whose
  only record an earlier-started unfreeze releases; an approved ISAR rejected, or
  one with a report moved back; a case taken out of `closed_str_filed`.
* Two callbacks of one event that overlap record it twice (the bound of
  `RecordedOncePerHandler` is reached), and two runs that both read a job as
  queued screen and bill its rows twice.
* A batch message that a worker takes before the request commits is dropped, and
  the job stays queued (`screening/service.py:262`, `workers/tasks/batch.py:40`).
* `unfreeze` says "Revert to approved if previously approved" and sets
  `rejected` (`identity/router.py:728`); PATCH takes a customer with documents to
  `identity_verified` without any result (`identity/service.py:160`,
  `identity/workflows.py:8`); PATCH to `edd_in_progress` leaves a
  customer for whom `start_edd` can no longer make a case; PATCH reopens a closed
  case for any role (`compliance/workflows.py:21`); Form A6 counts generated
  reports as filed STRs (`compliance/service.py:706`).

Met while modelling the console. The models behave like this, and their
properties leave it out by name (`Overlapping`, the pages and hooks a property
names) or by `smooth`:

* Screening. The freeze warning of a sanctions match is set after a success has
  closed the panel, and cleared when it opens again: it is seen after a failed
  POST only (`disposition-panel.tsx:79`, `:177`). A late answer closes the panel
  of whichever result it shows by then. After a success the results are loaded
  twice, by the handler under the filter it was clicked under and by the effect on
  the panel (`screening/results/page.tsx:47-59`, `:249-254`). Dispositions raise no busy hook and do not
  ask for the rationale that is called required. In the batch page a stale answer
  can hide a queued job and stop the polling, and after a failed first load there
  is none.
* Reports. Bodies and answers use different keys: a new ISAR is refused
  (`isars/new/page.tsx:61`), a rejection sends `rationale`
  (`isars/[id]/page.tsx:141`) for `rejectionRationale`, and the status of an STR,
  the register of Form A5 and the sections of an ISAR are never shown. Form A6
  does not cancel the load of the period before.
* Incidents and cases. Editing an incident erases the fields that the answer names
  in camel case; its endpoints accept every status, so that an old reload can
  offer an operation that takes it back; the notes of a case are sent and never
  shown; Enter makes a note or a case twice.
* Customers. The timeline shows a rejected customer like an approved one, and
  offers nothing past `risk_scored` but scoring.
* Tables. Customers and alerts keep their page under a new filter; the lists that
  ask for 50 rows have no pager for more; cases, customers, incidents, ISARs,
  tenants and the audit log show whichever answer came last.
* Session. Nobody listens to `cip:auth-expired` (`api.ts:63`); a sign-out during a
  refresh is undone by its answer; a request is repeated with the tokens of
  whoever signed in meanwhile in another tab; the route guard reads `cip_user`,
  which nothing writes (`route-guard.tsx:17`). The poll of the header undoes marks
  whose request is under way, and an old search shows its results after the field
  was cleared (`header.tsx:136-143`).
* Billing and rules. Saving a plan does not change `pricing_rules` or `is_trial`,
  saving a coupon leaves several fields; the end of one dialog's operation closes
  another row's dialog; the toggles of rules have no busy hook. A delete is
  answered by 204, and `res.json()` throws on it (`api.ts:73`): the coupon is gone,
  the page says that it could not be deleted (`billing/page.tsx:672-685`), and the
  termination of a tenant likewise (`admin/tenants/[id]/page.tsx:139-151`).
* Settings. Forms outside the platform's tabs show defaults after a failed load,
  which a save then stores; two saves at once lose an entry of `feature_flags`
  (`tenants/router.py:179`); the triggers `failure` and `always` are offered
  (`admin/settings/page.tsx:234-237`) and the backend does not know them; the
  notification tab shows the text "false" as on (`:333`); the Advanced tab forgets
  what is typed while a save is under way; the range of a retention period is
  checked by the page only.
* Controls that call nothing: Test Webhook (`settings/webhooks/page.tsx:54-67`),
  Deactivate in the team page (`settings/team/page.tsx:207`), the onboarding
  wizard (`admin/onboarding/page.tsx:55-58`), the flags of a tenant's page. A new
  API key is shown empty, since the page reads another key of the answer
  (`settings/api-keys/page.tsx:85`).
* Applications. The public form sends snake case and the endpoint reads camel
  case; "Application approved and tenant created" is shown though the body has no
  `tenant_slug`, without which none is made (`admin/applications/page.tsx:97-100`);
  Escape closes the dialog and frees its buttons while the decision is under way.

## 8. What is not modelled, and why

Of the backend, planned in section 2: watch lists, ongoing monitoring, the alert
of a match, billing under overlap, outbound webhooks, score cache and rate limit.
No property of a modelled part rests on them; their hazards are listed with the
reason. Out of scope: the arithmetic of match and risk scores beyond the tier
thresholds, the evaluation of a rule on a transaction, prices, goAML XML and form
layout, e-mail texts, storage, encryption, backup and health checks: they
transform or transport data and hold no workflow state. Reads (GET) are left out
of the backend modules, as are columns that no guard reads; incidents, tenants,
applications, settings, notifications and billing are modelled as far as their
pages call them.

Of the console: overview, wallet detail, the API explorer, `kyc/customers/new`,
`incidents/new`, `admin/system`, `admin/pipelines`, `admin/usage` and
`settings/billing` load once or post one form and have nothing beyond `Console`;
chat assistant, documentation, blog, pricing, services and marketing pages,
sidebar, theme, UI primitives and mock data have no state that the backend or
another page depends on. Sorting, page size, labels and layout are left out
everywhere. SDKs, end-to-end tests, infrastructure and migrations keep no state of
the workflow.
