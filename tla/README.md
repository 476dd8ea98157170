# TokenOps cost auditor: a TLA+ verification project

The modules in this directory model the parts of the service that are hard to
test: database transactions of concurrent requests, background runs, webhooks
that come twice, sweeps that die halfway, threads of the SDK in a customer's
process, one-time codes and links, prices that change, and the figures that
findings, savings and statements are made of. This file lists the whole system,
says what each module stands for, what is checked and proved, where the code
departs from its own comments, and what is left.

Paths are relative to `src/tokenops_cost_auditor/` unless they begin with
`docs/`, `tests/`, `scripts/` or `ofelia`. `PROJECT.json` maps every definition to lines.

## 1. The system

A FastAPI process with one worker serves a web application and a JSON API over
PostgreSQL (SQLite in tests). Synchronous handlers run in a thread pool, each
with a session of its own, and interleave; webhook handlers are coroutines that
do not await between reading the body and the commit, so each is one step.
Background tasks run on the same pool after the response. Other processes are
started by a timetable (`ofelia.ini`): the hourly `scripts/scheduler_tick.py`
(no overlap with itself), the price refresh and cover runs, the monthly
statements. The SDK runs in the customers' processes. State is shared through
database rows and the upload and report directories, never through memory of
the server. Handlers assume READ COMMITTED. What keeps two of them apart is a
unique constraint, an `UPDATE ... WHERE` whose rowcount is read, a `SELECT ...
FOR UPDATE` of the user's row (connecting a source, capped mints), or nothing.

| component | state | operations | hard behaviour | what makes it correct |
|---|---|---|---|---|
| Upload, ingest, credits (`api/routes_upload.py`, `web/routes_ingest.py`, `services/payments/base.py`) | payments (user, audit paid for), audits, idempotency keys, raw files | payment gate, replay, create audit, claim credit, write file, commit; purge | requests that compete for a credit and for a key; a crash, a rejected file or a key conflict between statements | an audit costs one credit of its owner; a key stands for one audit; every request ends |
| Runner and purge (`services/runner.py`, `services/lifecycle/purge.py`, `web/routes_admin.py`) | audits.status, derived rows, report files, upload file | wait for a slot, run the pipeline, fail, mail, re-run, purge | overlapping runs, purge while a run reads, failures after the commit, crash | no audit waits for nobody; rows and files are of one run; purged means gone |
| Subscriptions and dunning (`services/payments/subscriptions.py`, `api/routes_webhooks.py`, `web/routes_settings.py`) | subscriptions.status, plan, failed_at; webhook_events | apply a provider's event once; close account; hourly sweep | events twice and out of order; sweep against webhook; a sweep that dies between commit and mail | dunned exactly while a charge fails; a rung mailed once; the ladder ends |
| Webhook ledger, purchases, plans (`api/routes_webhooks.py`, `services/payments/`, `web/routes_billing.py`) | payments, webhook_events, subscriptions, audit_log | open a purchase, pay at the provider, receive and answer webhooks, operator's grants | one payment reported as two events, redelivery, lost answers, tolerance window, launch cohort | money received is credited once; no plan that nobody bought |
| SDK batcher (`sdk/`) | `_batcher`, queue, `_closed`, shipped, dropped | record, background drain and post, flush, close, init again, exit | threads with and without the lock, full buffer, endpoint that fails | a record is shipped at most once and never falls between two threads; counters do not overstate |
| Connected sources and scheduler (`web/routes_sources.py`, `services/connectors/`) | sources (status, key, fingerprint, stamps), usage buckets, pull ledger | connect wizard and form, first pull, hourly tick, source audit, revoke | limit checked before a provider call and used after it; two pulls upsert at once; revoke during a pull; pulls across midnight; a tick that dies | plan limit; a key connected once; final figures for finished days; revoked stays revoked |
| Provider usage clients (`services/connectors/*_usage.py`, `pull.py`) | none of their own | log in, page, chunk, total, upsert | repeated tokens, a page cut inside a day, a refusal on a later page, names by region | every day and model ends with the totals that were used |
| Digests and alerts (`services/connectors/daily.py`, `services/alerts/`) | last digest, alert events | send then stamp; record then send | a failure between the two, midnight and the turn of the month | nothing twice; the stage reached is told |
| Workspaces and members (`web/routes_members.py`, `web/authz.py`, `persistence/repo.py`) | workspaces, members, invites, active workspace | invite, resend, cancel, accept, remove, set role | look-then-write requests side by side | a user acts where they are a member; an invite is honoured once |
| Sign-in, sessions, devices, API keys (`web/auth.py`, `web/routes_auth.py`, `web/routes_oauth.py`, `web/routes_devices.py`, `web/api_auth.py`) | last_login, session epoch, codes, credentials | magic link, federation, link code, token exchange, revoke | check-then-set of one-shot links and codes, deaths between steps | a code works once; revoked is out; one free credit |
| Ingest formats (`services/ingest/`, `sdk/extract.py`) | none | detect, parse, normalise | malformed rows, formats that count differently | the same call is read the same through every door |
| Pricing, detectors, findings (`services/pricing/`, `services/rules/`) | the price table | price lookup by date, detectors, overlap | boundaries of windows and runs, quantiles, rates | a claim stays within what was spent; noise hides nothing |
| Price refresh jobs (`scripts/pricing_sync.py`, `scripts/pricing_verify.py`) | overlay file, status file | refresh, cover, verify | a feed that glitches, jobs that share one status file | the past keeps its price; a swing waits for corroboration; gaps are closed |
| Dashboards, savings, statements (`services/dashboard/`, `services/statements/`) | statements, votes | queries, vote, monthly job, send | audits that overlap and finish out of order; the job beside a click | a verified saving is measured and counted once; surfaces agree; what was sent stays |
| Reports, mail (`services/report/`, `services/mail/`) | files | render, send | send fails | order against the commits (in the modules that mail) |
| Customer webhooks, flywheel, forecast, copilot, MCP, CLI | none | best-effort calls, read-only computations | none concurrent | not modelled |

How they interact: an upload's commit (Upload) schedules a run (Runner);
purge ends both an upload and the keys that answer with it (Upload) and races
the run that reads it (Runner). A payment webhook (Checkout) grants the credits
Upload spends and the subscription Dunning sweeps; the plan it leaves decides
whether an ingest is accepted, what a workspace's members may do (Members), how
many sources Connect admits and which of them Schedule's tick pulls. The tick
then mails (Delivery). The SDK's posts are ingests with a key of Access. What is
read (Ingest, UsageClients) is priced (Pricing) and analysed (Detectors);
findings are voted on and become savings (Savings) and statements (Statements).

## 2. Modules

| module | stands for |
|---|---|
| `PaidOnce.tla` | abstract: buying an audit is one step |
| `Upload.tla` | the handlers that create audits, statement by statement; implements `PaidOnce` |
| `CreditOnce.tla` | abstract: a completed payment is one credit |
| `Checkout.tla` | purchases, webhooks, launch cohort, grants; implements `CreditOnce` |
| `Dunning.tla` | webhooks, closures and the sweep over subscriptions |
| `Runner.tla` | pipeline runs, re-runs, purge, crash |
| `Batcher.tla` | the SDK's threads |
| `Connect.tla` | the two forms that connect a source, revoking, backfill |
| `Schedule.tla` | pulls and audits of sources by the hourly tick and the first-pull threads |
| `Members.tla` | workspaces, invites, roles, entitlements |
| `Access.tla` | sign-in, the free credit, credentials and one-time codes |
| `Delivery.tla` | digests and alerts of the tick |
| `Ingest.tla`, `UsageClients.tla`, `Detectors.tla` | operators: readers, provider clients, cost and findings |
| `Pricing.tla` | the price table and the jobs that keep it |
| `Audits.tla` | composes these four: a table at work, or one piece of reading or analysing |
| `Savings.tla`, `Statements.tla` | audits, votes, savings and surfaces; the statement job beside clicks |
| `UploadProofs.tla` | theorems about `Upload` |
| `PaymentProofs.tla` | theorems about `Checkout` and `Dunning` |
| `BackgroundProofs.tla` | theorems about `Runner` and `Delivery` |
| `BatcherProofs.tla` | theorems about `Batcher` |
| `AccountProofs.tla` | theorems about `Connect` and `Members` |
| `ScheduleProofs.tla` | theorems about `Schedule` |
| `AccessProofs.tla` | theorems about `Access` |
| `MoneyProofs.tla` | theorems about `Savings`, `Statements`, `Pricing` and `Audits` |
| `MC*.tla`, `MC*.cfg` | the instances TLC checks |

Definitions called "Mutant of X" are variants of X with a plausible bug. No
specification uses them; each names the property that is violated when it takes
X's place (`PROJECT.json`, "mutants").

### Upload

`owner`, `spent`, `idem`, `audit` are the committed tables; `disk` the upload
directories; `req` the handlers. A handler's uncommitted work is its `pc`: a row
it has inserted and not committed is visible to nobody, so there is nothing to
store. `Locking` are the steps in which it holds the row lock of the credit it
updated; `UpdateCredit` waits for the lock and then re-evaluates `audit_id IS
NULL`, as PostgreSQL does under READ COMMITTED (`claim_credit`). The gate runs in
a transaction of its own and remembers nothing: `seen` is a history variable
for `RefusedOnlyWhenSpent`. `Commit` writes credit, audit and key at once;
`KeyConflict` is the unique constraint's exception, which undoes the
transaction and leaves the raw file. `Crash` ends every handler in flight.
`Connects` are first audits of connected accounts, as far as they move a
credit: their row is committed first (`Kickoff`) and paid for last (`Settle`).

Left out: contents and sizes of files (a file is refused or not), the form of
the response, the scan of an ingest's JSON records.

### Checkout

`purchase` is what a provider holds: its kind (a Razorpay payment link or order,
a Stripe session, a subscription of either), its stage and its attempts. `post`
holds the webhooks it has not had acknowledged; a webhook is any of them at any
time (`Receive`), whose answer may be lost after the commit. `EventId` is the
dedup key the handler computes: an id a provider gives is the event's own, the
fallback is taken from the payload, and two events may share it: all events of a
Razorpay subscription do. Whether Razorpay's bodies of a purchase carry ids, and
whether the payments of a link name an order (`named`), is any when it is opened.
`payments`, `subs` and `log` are the tables, `linkOrders` the rows of payments under the
order of a link; the launch cohort counts `log`, which is never rolled back by a
cancellation. `PlansOf` is the plan an event names; a Stripe invoice may name none,
which reads as "pro". `byHand` and `late` are observations for the properties.

Left out: signatures, amounts, currencies apart from the market, the billing
page and the checkout modal's callback, which change nothing.

### Dunning

`failed_at` is kept as the rung it has reached (`clock`): the model has no days,
only the two boundaries the code compares with. `sweep.view` holds the rows as
`advance_dunning` read them, `fresh` those its session has not expired: after
each commit SQLAlchemy expires the loaded rows, and the next access reads again
(`Loaded`). `SweepWrite` writes only changed columns. `processed` is the table
that dedups event ids. The customer's mail for the first failure is sent inside
the webhook's transaction, and the rungs' mails after the sweep's commits;
`mails` counts them since the last event or closure. `torn` observes
subscriptions that an event changed between a sweep's read and its write.

Left out: plans other than free and paid (an event with an unknown price keeps
the plan), manual grants (Checkout), signatures, and the web process dying
between the first failure's mail and its commit.

### Runner

`run` holds the runs in flight, one per call of `AuditRunner.run`. The poll of
`wait_for_slot` and the commit that sets `processing` are two steps, so two runs
may pass at once, as in the code. `Render` rewrites the report files before
anything is committed; `DeleteRows` sees the rows committed when its statement
starts; `Complete` commits deletes, rows and status. An exception is `Break` (any
stage) or `MailFails` (after the commit); both lead to `_fail`. `PurgeFile` and
`PurgeCommit` are `purge_one`'s rmtree and commit; a crash may fall between.
Rows and files carry only the number of the run that made them; `crossed`
observes audits that were re-run while a run of theirs was in flight.

### Batcher

`call` holds the calls of `record`, `thread` the main thread and one thread per
batcher. `record` reads the module's batcher twice (`Call`, `Take`), and a close may
come between. `_lock` covers append, shed and drain; a caller that sheds reads and
writes `dropped` under it (`Shed`, `CountShed`), and `Locked` keeps others out
meanwhile. `_closed` is read without the lock (`CheckClosed`), and the counters
are read and written in two steps (`ReadCounter`, `StoreCounter`), as Python's
`+=` does. `Post` fails or is acknowledged; the server may have received a batch
whose answer was lost. `PostRaises` is an exception outside the `except` clause.
`Retire` is `close` from `init`, `close` or `atexit`, whose flush then competes
with the batcher's own thread. When main's `Exit` is over, daemon threads stop
where they are.

Left out: the wake event (it only shortens a wait), the order within a queue,
`init`, `flush` and `close` from other threads than main, and the
Idempotency-Key, which two batches with equal contents share. Calls of `record`
end before `atexit` runs, as those of non-daemon threads do.

### Connect

`source` is the sources table, `form` the posted forms. The wizard looks twice:
`Check` in its first transaction, then the provider's verdict (`Validate`), then
`Recheck` under the lock and `Insert` with the commit. The plain form reads the
plan (`PostPlain`) and shares `Recheck` and `Insert`. `lock` is the row lock of
`FOR UPDATE`; a form that waits has no step enabled. Under READ COMMITTED the
second look sees what was committed before the lock was granted. `limit` keeps
the limit a form read first, which the code does not read again. `RevokeSource`
and `BackfillFingerprint` take no lock. A key stands for the text that is
fingerprinted, the same in both forms.

Left out: more than one provider (the wizard counts labels per provider), the
audit log, and SQLite, where `FOR UPDATE` does nothing.

### Schedule

One step per commit, per read that is used later, and per answer of a provider.
`pull` holds the `run_pull` a process is in: the row as loaded (`active`, `last`),
the window asked for, and the buckets the SELECT did not find (`missing`). `Save`
commits figures, stamp and ledger row, `Collide` is the unique constraint. A
figure is represented by the day it was fetched on, which tells a final figure
from one that was fetched while its day ran. Of the source's row only changed
columns are written (`Stamped`). `worker` is the daemon thread that connecting
starts, `tick` the scheduler process: due sources, then due audits, decided by
the time the tick began. Its first source is pulled by the row `due_pulls`
loaded; after a commit or rollback SQLAlchemy expires the rows, so the next ones
are loaded again (`TickNext`). `Standing` sources exist from the start and have no
worker. Failures, deaths, revocations and changes of plan are mishaps, bounded
together by `MaxMishaps`. `Pass` keeps a pull and a tick shorter than a day:
clients have timeouts and the tick is hourly.

Left out: the figures themselves (UsageClients) and what an audit computes of
them (Detectors), other workspaces' plans, a failing database.

### Members

`row` is workspace_members, `active` the pointer of the workspace a user acts in,
`invite` the invites, `request` the handlers. Each looks first (`AskInvite`,
`AskAccept`, `AskRole` and so on) and writes later; `Claim` is the conditional UPDATE of
`used_at` with its row lock, `Add` and `AcceptCommits` the membership with its
unique constraint (`AcceptConflicts`). An invite's code is the row's number;
`mailed` says whether the code that works was mailed. `Acting` is the fallback of
`persistence/repo.py` for a pointer that outlived its membership, `ActingOfAll`
the batched query of the same. `EntitledTo` and `EntitledAll` are the plan a page
and a batch compute. `Billing` gives each user's own subscription.

Left out: names, rate limits, the audit log.

### Access

`login` is the user's row, `cookie` the issue times of session cookies, `link` the
issue times of links, `code` and `cred` the rows of one-time codes and credentials,
`request` the handlers at work; one that has answered makes room for the next. A login looks, waits for the user's row (`Flush`), commits and answers;
a mint counts under the user's lock (`AskMint`, `CommitMint`); a redemption looks,
claims by the conditional UPDATE (`Claim`), and commits the credential. A
program's call reads the row of what it presents (`AskUse`), then the app of an access
token (`LookApp`), and then writes its usage columns and is served (`Stamp`), each at
a time of its own. `Dies` may take any handler at any step. `gone` and a use's `barred`
are observations for `RevokedStaysOut`: what the owner has revoked, and whether that
was so when the program came.

Left out: hashes, scopes, redirect addresses, PKCE (each refuses before anything
is written), rate limits, the audit log.

### Delivery

`level` is the stage the month's spend has reached, `event` the rows of
alert_events (of both kinds, under one rule name as in the code), `tick` the
process with the day it began on. The digest is sent (`SendDigest`) and then
stamped (`StampDigest`, or `StampLost`); an alert is recorded (`Record`) and then
sent (`SendAlert`). `mailed` and `again` are history: what reached a mailbox, and
what reached it once more. `lost` counts stamps lost after their mail. Mails to
`Bouncing` users always fail; other failures share `MaxFaults`.

Left out: amounts, wording, plans (everybody is on a watching plan).

### Ingest, UsageClients, Detectors

Operators without state. `Load` reads a file (lines of one of three shapes) into
records, rejects and a verdict; `Extracted` and `Received` are the SDK and the ingest
door; `Transcript` is the collector, which ends with an exception, and no file, at a
count it cannot read. A value is absent or an int, a text, a null or
junk: what is unreadable must not become zero. `Pull` is one client's `fetch_usage`
and the upsert of its totals: credential, login, pages, query chunks, names.
`Findings` and `AccountFindings` are the detectors over the records of a log and
over the daily totals of an account, with costs as integers.

Left out: file names, encodings, latency; request signing, time zones, rounding
of sums sent as floats; texts, severities and evidence of findings.

### Pricing

`over` is the overlay of the machine's rows, `streak` the held-back counts in the
status file, `feed` what the public feed says, `usage` the models and days that
were used. `Sync(gaps)` is one run of `scripts/pricing_sync.py`: plan, gates, merge
(`Row`), the backdated row of a cover run (`Deepens`), the no-op guard, and the status
file. The timetable alternates refresh and cover runs; a run may fail to fetch.
`Verdict` is `scripts/pricing_verify.py`. `sightings` is a history variable.

Left out: a second provider, the decimals of a rate, the process that loaded the
table at its start, the re-audit of sources after a cover run.

### Audits

An audit writes nothing of what it reads: a behaviour of `AuditSpec` is either one of
the table (`PricingSpec`), or a single state with a call, a log or a pull and the
table it is read at. The logs and pulls are in `MCAudits.tla`: thousands of small
ones chosen around the boundaries of the detectors and of paging.

### Savings and Statements

`audits` are audits in the order of creation, finished in any order, of a log that
shows traffic per month and model and what was found. A finding is an audit and a
place among its findings; an audit may find a route many times, and a vote is on one
finding. `fb` holds the votes, `clock` orders creations, completions and votes.
`Compute(m)` is `services/dashboard/savings.py` (rules R1 to R3), with `Fixed`,
`Qualifying` and `Pending` its steps. Where the code builds a dictionary by route, the
last row stays: by the order in which the database returns rows in `Recomputed`, by
`findings.id` in `LastSeen`; a log fixes both orders, which may differ. `TopFindings`
(`metrics.py`) and `Explored` and `Displayed` (`explorer.py`) are the other surfaces,
with the limits of their lists. Statements
adds `stmt`, the archive, and `writer`: the job and the clicks, each a transaction
that looks, writes, mails and commits, with the row lock and the unique
constraint of the month.

Left out: an order of rows that changes from one query to the next, figures
customers report, rounding, unpriced rows, the filters by
tier, severity and detector, rendering, the hash chain.

## 3. Runs and bounds

| run | instance | what it shows |
|---|---|---|
| `upload` | 2 users, 1 upload, 1 ingest, 1 connect, 1 key, 2 credits, 1 crash | `PaidExactlyOnce`, `RefusedOnlyWhenSpent`, `OneAuditPerKey`; `BuysAtomically`: `PaidOnce` is implemented; `EveryRequestEnds` |
| `runner` | 2 audits, 3 runs, 1 slot, 1 crash | `DoneIsConsistent`: done audits hold rows and report of one run; `PurgeIsTruthful`; `EveryAuditSettles` |
| `dunning` | 2 subscriptions, 3 events, 1 closure, 1 death | `ClockRuns`: clock and status agree; `MailedOnce`; `LadderEnds`, even if one customer's mail always fails |
| `batcher` | 2 records, 2 batchers, buffer and batch of 1, bad answers | `NothingVanishes`, `CountersAreHonest`, `QueuedIsSent` |
| `schedule` | 2 sources, one of them `Standing` and `Broken`, 3 days, 1 mishap | `EveryDayIsFinal`, `RevokedIsForever`, `FirstAuditSettles` |
| `connect` | 1 user, 3 forms, 2 keys, 4 sources (1 legacy), limits 1, 1 and 3, 1 change of plan | `OneSourcePerKey` and `WithinLimit` hold against racing forms |
| `checkout` | 1 user, every pair of kinds of purchase, a cohort of 1, 1 grant, 2 attempts to pay | `CreditsArePaidFor`: `CreditOnce` is implemented, for purchases and for the orders of links; `PlanWasBought`, `LaunchStaysClosed`, `PaidIsCredited` |
| `members` | owner, admin, invitee with a free past-due row; 4 requests, 2 invites of a viewer | `ActsAsMember`, `InvitesAreHonoured` |
| `access` | 2 requests at a time, 3 credentials, 1 code, 1 link, 3 moments, a cap of 1 app | `MeterOnce`, `CodesWorkOnce`, `RevokedStaysOut` |
| `delivery` | 2 users (1 bouncing), 1 rule, stages 50 and 100, 3 days with a turn of the month, 1 audit, 1 fault | `ToldOnce`, `StageIsTold` |
| `audits` | 3 models (one a snapshot of another), 2 days of cover, refresh, cover, 3 moves of the feed, 1 usage, 1 failure; thousands of calls, logs and pulls | `HistoryIsFixed`, `GlitchesAreHeld`, `RunsDoTheirWork`; `ReadAlike`, `PullsCountOnce`, `ClaimsWithinRows`, `NoiseHidesNothing` |
| `statements` | 2 routes, 4 logs of which 2 find one route twice, 2 months, 2 audits that may overlap, 2 votes, lists of 2 and 1, the job and a click | `CreditIsEarned`, `SurfacesAgree`, `SentIsFinal` |

Why the bounds are enough for the cases meant.

- `upload`: an upload, an ingest and a connected account compete for each
  credit, two of them can carry one key, two credits let the loser of one find
  another, and one crash falls between any two statements.
- `runner`: with one slot two runs contend, and the third is a re-run after a run
  that ended or beside one in flight.
- `dunning`: three events give failure, recovery and a redelivered or late one in
  every order; two subscriptions let one's failing mail stand in the other's way.
- `batcher`: a buffer of one makes "full" happen with two records, two batchers
  let a closed one's thread work beside its successor.
- `schedule`: a day is one moment, so that a pull may end on the day after it
  began; with a backfill of two days and an audit every day, three days hold a
  lost pull, its repair by the next window and a second audit that is due. One
  mishap falls between any two steps.
- `connect`: three forms of one user meet a limit of one, raised to three by a
  change of plan, with two keys and room for each form's row. Symmetry over keys
  and forms is sound, since no liveness is checked there.
- `checkout`: two purchases are enough for one event to answer for the other's
  id, for a second purchase after a cancellation, and for the cohort to close.
- `members`: four requests are a race of two (two accepts, resend and accept,
  accept and removal) with what must come before it.
- `access`: two requests race, and a place that has become free takes the next one,
  so that any number come before and after; three credentials are an app, a token an
  exchange makes of it, and another. A link expires after one moment. Requests
  are interchangeable, which makes their symmetry sound.
- `delivery`: three days with months of two let a tick work past midnight and past
  the end of a month; the stage can be reached, left and reached again.
- `audits`: three moves of the feed are a swing, its return and another swing; six
  runs see a streak begin, be corroborated three times and expire. The logs have
  three calls of every kind, five calls in a burst with an odd one or a twin,
  and five days of spend; thresholds are small enough to lie inside them.
- `statements`: two audits are one that found and one that proves, that overlaps, or
  that was created later and finished earlier; a route found twice with unlike
  amounts, in either order of rows, can be fixed by either finding and proved by the
  other; two votes can be the same finding's, the same route's or two routes'. What
  three audits do to a route is left to the theorems. Writers move
  only while `clock` is at most `ShortHistory`, which leaves room for an audit, its
  end, and a vote before, between and after their steps.

Every bound is a constant that its module names as one. Deadlock is not checked:
in each system everything may have been done.

### Fairness

- Upload: `WF(Step(r))`: a handler that can take its next statement does. A
  waiting UPDATE is not enabled while another handler holds the lock, and every
  holder commits or rolls back, so weak fairness suffices.
- Runner: `WF(RunStep(w))`: the thread pool runs a started task.
  `EveryAuditSettles` excepts audits whose run was killed or timed out: nothing
  in the code takes them up again.
- Dunning: `WF(Sweep)`: the hourly tick comes round and goes on. No fairness
  between success and failure of a mail: it may fail every time.
- Batcher: `WF` for every record's steps, every batcher's thread and the main
  thread's flush. Nobody has to call, flush, close or exit.
- Schedule: `WF(WorkerStep(s))` of sources with a first-pull thread: it goes on
  unless it dies. Ticks may come or not.
- Checkout: `WF(HearsOf(p))`: a provider repeats a webhook until it hears 200.
- Delivery: `WF(NextDay)` and `WF(TickSteps)`: time passes, and ticks come and go on.

Beyond this, no run assumes that customers, providers, operators or crashes act.
The other runs check safety only.

## 4. Proofs

TLAPS proves these for every value of the constants, from the assumption each
module states of its constants (`UploadAssumption`, `CheckoutAssumption` and so
on): null values are none of the values they stand beside, bounds and limits are
natural numbers, and what the code gives a module as configuration has its form
(a family's family is itself, a cover run reaches back as far as a window of
usage) and what the readers and detectors are given is what it can be
(`AuditsAssumption`, `CallsAssumption`, `PullsAssumption`, below). Each theorem about a property of a run names that property, so that the
run shows on an instance what the theorem says in general. Of the properties of
the runs, the seven about liveness are only model-checked; every
other one, all safety invariants among them, is proved.

None of the properties is inductive as it stands. What each proof adds:

`UploadProofs` (`TypeCorrect`, `CreditsStayHome`, `KeysAreUnique`, `KeysAreFresh`,
`UploadsArePaidOnce`, `UploadBuysAtomically`, `RefusalsAreFair`). `IInv` says what a
handler in the middle of its work may rely on: a handler that holds a lock has a
candidate that is its user's and unspent (`Claims`), no two handlers hold one
credit (`Exclusion`), a request's audit exists exactly from its commit on
(`Progress`), and a bound key belongs to an audit whose upload is held (`Bound`).
From these each commit moves one credit, and each step maps to a step of
`PaidOnce` or leaves its four variables alone. `SeenInv` adds that a handler's
`seen` credits are its own user's; a credit once spent stays spent.

`PaymentProofs`, Checkout (`TypeCorrect`, `CreditsImplementOnce`, `PlansAreBought`,
`LaunchIsOver`). `PostInv`: a webhook in the post tells the truth about its purchase.
`CreditInv`: a purchase that is credited was paid, and, unless it is an order,
which is looked up by its reference, the event that brought the credit is
recorded, so that another delivery finds it. With these each webhook maps to
crediting a paid purchase, crediting the order of a paid link, or to nothing. `LinkInv` is
the same for the orders of links. `PlansAreBought` needs of `PostInv` that a renewal in
the post is of a purchase that was renewed: only such an event may read as "pro". `LogInv` makes the cohort countable and growing.

`PaymentProofs`, Dunning (`RowsKeepTheirTypes`, `DunnedWhileFailing`,
`RungsAreMailedOnce`). `DunningInv`: what a sweep holds of a row is the row unless an
event tore it (`ViewsInv`); what it is about to do follows from what it holds
(`TurnInv`); a rung that was mailed is one the clock has reached or left
(`MailsInv`), and the rung in hand was not mailed yet (`OwedInv`).

`BackgroundProofs`, Runner (`TypeCorrect`, `DoneAuditsAreConsistent`,
`PurgesAreTruthful`, `AuditsAreWorkedOn`). `AuditInv` of each audit: unless it was
crossed by a re-run it has one run in flight, and what the database and the
files say of it is what that run's step implies (`Told`). The last theorem
(`SomebodyWorks`) is the safety half of `EveryAuditSettles`: whoever polls a queued or
processing audit waits for a run that is there.

`BackgroundProofs`, Delivery (`MembersAreToldOnce`). A digest is repeated only where
a debt was made: `Debts` are the digests that reached a mailbox and whose stamp
was lost, and repeats and debts together are at most the losses (`DigestsInv`).
Alerts in a mailbox are recorded, and what is still to be sent is not in it
(`AlertsInv`).

`BatcherProofs` (`TypeCorrect`, `RecordsAreInOnePlace`, `RecordsShipOnce`,
`CountersStayHonest`, `OneBatcherIsOpen`). `Holding` says what each thread holds at
each step; with `NothingVanishes` it keeps batches disjoint, so a record is posted
once. The counters need more: a copy that a thread has read and not yet written
back must not exceed what has been counted so far, that is, a batcher's
acknowledged (or lost) records less those `Pending`, posted but still in a
thread's batch; every step lets it grow or stay, and a `StoreCounter` adds its own
batch, disjoint from it.

`AccountProofs`, Connect (`TypeCorrect`, `KeysConnectOnce`, `LabelsStayDistinct`,
`LimitIsKept`). A form that inserts holds its user's lock (`Holds`), no active source
has its key and there is room (`StillFree`), and its label is the next one
(`StillNext`). `Recheck` establishes this, and only the holder of the lock adds rows
of its user; `RevokeSource` and `BackfillFingerprint`, which take no lock, can only
make room or leave keys as they are. `Numbering`, that labels never exceed the
number of rows, makes the next label new. Legacy sources without a fingerprint
are excepted from `OneSourcePerKey`, as in the code.

`AccountProofs`, Members (`ActingAsMembers`, `InvitesKeepTheirWord`,
`WorkspacesKeepTheirOwner`). `MembersInv`: memberships and invites are of workspaces
there are (`RowsInv`, `InvitesInv`); what a handler looked at and will not look at
again still holds (`HandlersInv`); and an invite that is claimed stays pending
for its one claimant (`LockInv`). The owner of a workspace is its user for ever
(`OwnerStays`), which gives the fallback of a stale pointer somewhere to go.

`ScheduleProofs` (`TypeCorrect`, `FinishedDaysAreFinal`, `RevocationsLast`). A stamp
vouches for the figures of the days within the backfill before it (`Vouched`),
also in a row that was loaded earlier (`Loads`); a pull saves on the day it asked or
on the next, and what lies before its window is out of reach or final
(`Windows`). That a pull is shorter than a day is the guard of `Pass`. A revoked
source's `Pulling` set only shrinks, because whoever loads its row now finds it
revoked: that is a fact of each step and needs no invariant.

`AccessProofs` (`TypeCorrect`, `CodesAreSpentOnce`, `RevocationsAreFinal`,
`FreeCreditIsMetered`). `CodesInv`: a credential's code is used, and of the handlers
past the conditional UPDATE one is about a code. `RevokedInv`: what
was revoked stays so, whatever uses of it were under way, and a use that should be
turned away and has got past its own row is about to look at an app that is gone. `MeterInv`: whoever has signed in has their credit, and of the
logins past the lock there is one.

`MoneyProofs`, statements (`SentStatementsAreFinal`): a writer that began after a
statement was sent saw it sent, and so has nothing to change; the proof follows
a writer's look, flush, mail and commit.

`MoneyProofs`, savings (`CreditsAreAlwaysEarned`, `SurfacesAlwaysAgree`). The invariant
`MoneyInv` is small: votes are about findings of finished audits, and no two are of
one time. The work is in the figures. Sums, largest and smallest members are
defined over finite sets, whose induction theorems cannot be cited; the module
therefore proves from `FS_StrictSubsetOrderingWellFounded` that a family of finite
sets has a smallest member (`SmallestSet`, `SetInduction`), that sums do not depend on
the order (`AnyOrder`), and that they split by month and by model (`SplitByMonth`,
`SplitByModel`).

`MoneyProofs`, prices (`HistoryStaysFixed`, `GlitchesWait`, `RunsHaveDoneTheirWork`). A
run adds to a history at most one row, of today or of before the window
(`HistoryAfter`, `Adding`), so the row that prices a day is found by cases
(`OwnPrice`, `FamilyPrice`). `PricesInv`: rows are dated by whole days and rated, and a
streak carried in the status file is of runs that did see that price, and is
not complete. `GatePassed` and `GapCloses` are the two ways a row gets in. These
theorems are about `PricingSpec`, whose initial states and steps are those of
`AuditSpec` while there is no audit.

`MoneyProofs`, claims (`ClaimsStayWithinRows`). For any log, any overlay and any card:
what a detector claims of a set of calls is at most what they cost, D6 excepted, and
what the totals claim of days at most what those cost. `AuditsAssumption` says what
a log is: numbered rows that the normaliser let through, with models of the table,
rates that are not negative, a `d1_model_map` into the models, and totals whose
prompts count what was read from the cache (the OpenAI, Anthropic and Bedrock
clients add them so, Azure and Vertex report none). The sums of the
detectors are community folds over sets of any weights, negative ones included
(`FoldIs`); each gets a lemma that names its weights (the `...AddUp` lemmas), and then

- each part is at most what its call or day cost: a call re-priced one tier down
  still costs something (`D1Within`), a prefix cached is no more than the prompts
  that repeat it (`CacheGain`), a prompt cut to the median no more than the prompt
  (`RemovableBound`, `MedianGain`), a storm less its first call no more than the storm
  (`StormBound`), a cache that is written and not read no more than its writes
  (`D9Within`), a day at another day's share no more than its prompts (`ShareGain`);
- parts that are ordered one by one are ordered in sum (`SumOrder`), and the rows
  left out cost no less than nothing (`SumOfPart`, `SpendOfPart`, `DaysBound`);
- nothing is counted twice: groups share no row, and neither do the bursts of a
  session (`BurstsApart`, `SpendOfBoth`);
- a median exists and is not negative because every place of a sorted set is some
  row's (`EveryPlace`, `MedianPrompt`, `MedianAverage`), and so does a best share
  (`ShareOrder`, `BestShare`).

That D6 is excepted is a property of the code (section 5). A day whose totals read
more from the cache than its prompts are long is outside the theorem: an Anthropic
log may have one, since its reader accepts a negative `input_tokens`.

`MoneyProofs`, noise (`NoiseNeverHides`), under the same assumption. D4's half: a call
logged again under its request id is dropped with its duplicates, so bursts, the
first call of each and its claim are what they were. D10's half is about medians.
A median is the mean of two values in the middle of a sorted set; `AreMiddle` says
so by counting, with no order of equal values, and `MedianIs` finds them in the
sorted sequence of any numbered set. If more than half of the days cost the same, that is the median
and the deviations of more than half of the days are nought. A day that was a spike
is above both medians; when it costs more it stays above, the values in the middle
stay where they are, and no other spike can disappear.

`MoneyProofs`, reading (`CallsReadAlike`). The record of a call is computed through each
door: the three shapes of an export (`Export`), the SDK's answer and the transcript.
`CallsAssumption` says which calls: counts are not negative and within what the door of
the SDK lets through (a larger count is refused there and accepted in a file), prompts
count what the call read from the cache and wrote to it, there is an answer of at least
a token, and the call stands first in its file, whose size is within the limits. The
totals of a log then cost what its calls without cache writes cost, because
both are sums of the same weights in another order.

`MoneyProofs`, pulls (`PullsAreCountedOnce`). `PullInv` says that the pull is one of those
assumed. The client's walk is a recursive function on positions: it is the first n
pages for some n, and n is the last page or one that is not `read` (`PagesAreWalked`), by
induction on a set of positions (`NatSetInduction`), since an induction theorem over a
predicate cannot be cited. The
chunks of a query cover all metrics of all names (`ChunksCover`), so a pull whose
outcome is `read` has read every page of each (`ReadToTheEnd`); what it heard
corresponds one to one to the figures the provider shows of the use (`PullsHearAll`,
`FigureSums`), and each bucket is the sum of the use it stands for (`BucketHolds`).
Writing the same buckets again changes nothing. `PullsAssumption` says what a pull
may meet: a provider's report names a day and model once, by each of its names, with
a token or more; OpenAI and Anthropic send a total on one page whole; a token on
the last page is one the client has followed or one that OpenAI and Anthropic say
has nothing behind it, and Bedrock sends none there; and there are no more pages
than `MaxPages`. The last is an assumption on the provider: past `_MAX_PAGES` (1000)
Vertex's client stops and reports a full read, and the totals are short.

Two errors of the models were found by these proofs and corrected against the
source: the gate of D10 that compares a day with the median deviation was twenty
times too strict, so that days the code reports were not spikes of the model; and
the outcome of a pull was undefined when it asked for no chunk (Bedrock without
names), which the code takes for a full read.

Only model-checked, and why: liveness under fairness (`EveryRequestEnds`,
`EveryAuditSettles`, `LadderEnds`, `QueuedIsSent`, `FirstAuditSettles`, `PaidIsCredited`,
`StageIsTold`), which is out of the prover's reach.

## 5. Divergences

Where a comment, a document or a text of the product says something of the code
that the models do not have, or where the code's behaviour may surprise. Each is
in the models as the code has it, unless it says otherwise; the properties are
stated so that they hold of the code, and their comments say what they leave out.

Uploads and runs

- A key conflict leaves the loser's raw file in a directory no audit row names,
  where `purge_due` never looks (`api/routes_upload.py:156`, against
  `services/lifecycle/purge.py:4-6`).
- A retry whose first attempt spent the last credit is refused by the payment
  gate before its key is looked up (`api/routes_upload.py:77`, against FR-26).
- A report mail that raises turns a done audit into a failed one
  (`services/runner.py:297-302`).
- A re-run beside a run in flight mixes rows of two runs (`services/runner.py:239-240`);
  `DoneIsConsistent` leaves out `crossed` audits.

Payments

- "A successful charge clears the dunning clock"
  (`services/payments/subscriptions.py:268`), but a sweep that read before may write
  past due after it (`services/payments/subscriptions.py:319`): past due without a
  clock, until the provider's next event. `ClockRuns` leaves out `torn` rows.
- A closed account whose charge is failing is put back to past due by the next
  sweep, since closing clears no `failed_at` (`web/routes_settings.py:385`).
- A failed first charge leaves a free, past-due row that locks the currency
  (`services/payments/plans.py:223`).
- "The charged amount always equals the displayed price" (`web/routes_billing.py:241`):
  a Razorpay subscription is created at the list price also while the page shows
  the launch price.
- The cancellation of an old subscription ends the new one: `apply_event` does not
  look at the reference.
- A Stripe checkout in subscription mode also earns an audit credit, once.
- A renewal at Stripe whose invoice carries no plan in its metadata is read as
  "pro" (`services/payments/stripe_link.py:88`): a Team customer becomes a Pro one. The
  server sets the metadata of the subscription only, against "silently under-granting a
  Team purchase" (`services/payments/stripe_subscriptions.py:23`). `PlanWasBought` excepts
  Pro after such a renewal.
- A Razorpay subscription event without an id in its body is known by the
  subscription's id (`services/payments/razorpay_link.py:176`): all later ones, its
  cancellation among them, are taken for duplicates.
- A payment of a link that names an order also earns the credit of an order
  (`services/payments/razorpay_link.py:139`): two credits for one payment, against "one
  completed payment = one audit credit" (`services/payments/base.py:2`).
  `CreditsArePaidFor` says one for each reference.

Accounts

- "The link works once" (`web/routes_auth.py:98`): two clicks that both look before
  either commits both sign in; later clicks do not. A late commit of an older
  `last_login` can make a newer link work again.
- An operator's complimentary credit after the one of the sign-up meets the
  unique index and answers an error.
- `user_plan` is the user's own subscription while entitlements are the
  workspace's: an administrator without a subscription of their own cannot invite.
- A cancellation beside an acceptance deletes the consumed invite; an acceptance
  beside a removal consumes the invite and leaves no membership. Of two resends
  the code committed last works.
- `close_account` revokes neither API tokens nor devices nor apps. Counters of
  requests lose updates. A capped mint counts under the user's lock, which Access
  models and no property repeats.

Sources, usage and the SDK

- `record` looks at the module's batcher and reads it again to use it
  (`sdk/__init__.py:105`): a `close` in between raises into the customer's call.
- The day before a source's last pull may show what it had while it ran, when that
  pull straddled midnight; the next pull repairs it. A pull that had its answer
  before a revocation still stores it.
- A transcript with a count that is no number ends the collector's export with an
  exception (`services/collector/transcripts.py:50`).
- An `HTTPException` of the HTTP client is in no `except` clause and ends the
  batcher's thread (`sdk/batcher.py:95`); what it had queued is sent by the flush of
  `close`.
- Vertex dates a point by its `endTime`, counts pages twice before it calls a token
  stuck, by design, and stops at `_MAX_PAGES` without saying so; the loops of the
  OpenAI, Anthropic and Bedrock clients follow tokens without a bound.
- The SDK drops OpenAI's cache writes, ids, hashes and limits. The ingest door
  accepts an unreadable `ts` that is refused downstream. A null cache count is 0
  to the OpenAI reader and refuses the line to Anthropic's, which in turn accepts
  a negative `input_tokens` when the cached counts make up for it.
- An alert's audit-log note is committed as "fired — emailed" before its mail.

Findings and prices

- The claim of D6 may exceed what its calls cost, since its median may count
  calls that sent less: `ClaimsWithinRows` leaves D6 out.
- The totals of an account leave a model out when any of its rows is unpriced.
- "A one-off feed glitch must not rewrite money math" (`scripts/pricing_sync.py:191`):
  a snapshot's first own row, written by a cover run that deepens it, passes no
  jump gate (`scripts/pricing_sync.py:164-181`); `GlitchesAreHeld` excepts it.
- A snapshot's first own row of today hides its family's earlier rates until the
  next cover run. The no-op guard looks only at input and output.
- A cover run without gaps, or a run that fails, writes a status without
  `held_streaks`: a repeated swing may start again from one. Cover runs count as
  corroboration, so three may lie within nine hours.
- The release gate may object to a snapshot whose family has just moved, and to a
  rate of the feed that is out of band; `RunsDoTheirWork` is about models with a
  history of their own and rates within the band.
- The server loads its price table once, at its start (`main.py:114`).

Savings and statements

- One audit may find a route several times (a detector reports each prefix, tag,
  session or day), and a saving is "proven by re-audit"
  (`services/dashboard/savings.py:77`) by the last row of the route in the re-audit
  (`services/dashboard/savings.py:175`). Apply the larger of two findings, and an audit
  that finds the same two again may compare it with the smaller: the difference is
  verified though nothing was fixed. `CreditIsEarned` states what is left: some finding of
  the re-audit is smaller by the credit, and a route is not credited more than one
  of its findings claimed. Which row is last is up to the database: the query has no order.
- The dashboard lists each finding of such a route, the explorer only the last
  (`services/dashboard/metrics.py:204`, `services/dashboard/explorer.py:408`), so that
  their amounts differ, against "a surface that contradicts another surface is a FAIL"
  (`services/dashboard/explorer.py:360`). `SurfacesAgree` compares routes, and amounts where a
  route has one finding.
- "Latest" is by creation on one surface and by completion on another; with
  several sources the latest qualifying audit may be another account's. A
  statement's spend is that of the month's latest audit alone.
- The explorer's law of overlaps keeps one account's bucket of a day and model
  when two accounts used the same model, and its waste does not add up over
  models. "Identified" includes dismissed findings.
- A second vote on a finding moves its time and can drop a verified saving. An
  audit on the 1st before 06:00 moves last month's proof to the next statement.
- "ALWAYS build and archive" (`scripts/monthly_statements.py:48`): a mail that raises
  rolls the archive back with it.
- A click that mails an old draft while the job refreshes the row makes the mailed
  text differ from the archived one; two clicks both mail; the job, having looked
  before a click's commit, may rewrite what was just sent. `SentIsFinal` is about
  writers that began after the mail. A click in the current month freezes its
  statement.

No run states a violation: each of these was met while a property was being
stated, and the property says what does hold.

## 6. Not modelled

The last two rows of section 1's table: layout, mail transport and best-effort calls are
I/O; forecasts, flywheel, copilot and MCP compute over query results and write
nothing that others read. Of the modelled components: the streaming of request
bodies, rate limits, signatures and hashes, scopes, time zones, floating-point
rounding, charts. Not claimed of the modelled parts: behaviour under an isolation
level other than READ COMMITTED, a database that loses commits, more than one
scheduler process at a time, and SQLite's locking.

## 7. Plan

All components of the table in section 1 whose order of steps matters are
modelled, and the safety properties of every run are proved. What could follow:

1. the cap of Access's mints as an invariant of its own, with its proof;
2. readers that differ by more than `CallsAssumption` allows: a negative count, a call
   with no answer, a file with several calls;
3. the re-audit of sources after a cover run, which joins Pricing to Schedule.
